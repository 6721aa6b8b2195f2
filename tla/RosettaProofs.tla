---------------------------- MODULE RosettaProofs ----------------------------
(***************************************************************************)
(* What the operations of client.go:288-446 have in common, for every      *)
(* deploy and every list of transfers; and the lemmas about the operators  *)
(* of CasperNode and ClientProps: flattened and filtered lists, balances   *)
(* after movements, sums of movements and of operations.                   *)
(***************************************************************************)
EXTENDS ClientProps, SequenceTheorems, TLAPS

\* The fee is an amount, and both fee operations carry it.
LEMMA FeePair ==
  ASSUME NEW dep, dep.ok \in BOOLEAN, dep.payment \in Nat, dep.cost \in Nat,
         NEW signer, NEW validator
  PROVE  LET ops == FeeOps(dep, signer, validator)
         IN  /\ Len(ops) = 2 /\ DOMAIN ops = {1, 2}
             /\ ops[1].index = 0 /\ ops[2].index = 1
             /\ ops[1].amount \in Int /\ ops[1].amount + ops[2].amount = 0
<1>1. Fee(dep) \in Nat
  BY DEF Fee
<1> QED
  BY <1>1 DEF FeeOps

\* Transfer k makes the operations 2k - 1 and 2k of its deploy's transfers.
LEMMA TransferPair ==
  ASSUME NEW S, NEW list \in Seq(S), NEW k \in 1 .. Len(list)
  PROVE  LET ops == TransferOps(list)
         IN  /\ 2 * k - 1 \in DOMAIN ops /\ 2 * k \in DOMAIN ops
             /\ ops[2 * k - 1] = TransferOp(2 * k, list[k].source, - list[k].amount)
             /\ ops[2 * k] = TransferOp(2 * k + 1, list[k].target, list[k].amount)
<1>1. Len(list) \in Nat /\ k \in Nat /\ 1 <= k /\ k <= Len(list)
  OBVIOUS
<1>2. 2 * k - 1 \in 1 .. 2 * Len(list) /\ 2 * k \in 1 .. 2 * Len(list)
  BY <1>1
<1>3. /\ (2 * k - 1 + 1) \div 2 = k /\ (2 * k - 1) % 2 = 1
      /\ (2 * k + 1) \div 2 = k /\ (2 * k) % 2 = 0
  BY <1>1
<1>4. TransferOps(list)[2 * k - 1] =
        TransferOp(2 * k, list[k].source, - list[k].amount)
  BY <1>1, <1>2, <1>3 DEF TransferOps
<1>5. TransferOps(list)[2 * k] =
        TransferOp(2 * k + 1, list[k].target, list[k].amount)
  BY <1>1, <1>2, <1>3 DEF TransferOps
<1> QED
  BY <1>2, <1>4, <1>5 DEF TransferOps

\* What concatenating the fee operations and the transfers' looks like.
LEMMA Concatenated ==
  ASSUME NEW s, NEW t, NEW m \in Nat, NEW n \in Nat,
         s = [i \in 1 .. m |-> s[i]], t = [i \in 1 .. n |-> t[i]]
  PROVE  /\ Len(s \o t) = m + n
         /\ \A i \in 1 .. m + n : (s \o t)[i] = IF i <= m THEN s[i] ELSE t[i - m]
<1> DEFINE S == {s[i] : i \in 1 .. m} \cup {t[i] : i \in 1 .. n}
<1>1. s \in Seq(S) /\ Len(s) = m
  OBVIOUS
<1>2. t \in Seq(S) /\ Len(t) = n
  OBVIOUS
<1> HIDE DEF S
<1> QED
  BY <1>1, <1>2

\* It is a sequence again.
LEMMA ConcatenatedIsSeq ==
  ASSUME NEW s, NEW t, NEW m \in Nat, NEW n \in Nat,
         s = [i \in 1 .. m |-> s[i]], t = [i \in 1 .. n |-> t[i]]
  PROVE  \E S : s \o t \in Seq(S)
<1> DEFINE S == {s[i] : i \in 1 .. m} \cup {t[i] : i \in 1 .. n}
<1>1. s \in Seq(S)
  OBVIOUS
<1>2. t \in Seq(S)
  OBVIOUS
<1> HIDE DEF S
<1>3. s \o t \in Seq(S)
  BY <1>1, <1>2
<1> QED
  BY <1>3

\* Of a deploy that succeeded: two fee operations, then those of the transfers.
LEMMA OperationAt ==
  ASSUME NEW dep, dep.ok, NEW S, NEW list \in Seq(S), NEW signer, NEW validator
  PROVE  LET ops == Operations(dep, list, signer, validator)
         IN  /\ Len(ops) = 2 + 2 * Len(list)
             /\ \A i \in 1 .. 2 + 2 * Len(list) :
                  ops[i] = IF i <= 2 THEN FeeOps(dep, signer, validator)[i]
                                     ELSE TransferOps(list)[i - 2]
<1> DEFINE fees == FeeOps(dep, signer, validator)
           moves == TransferOps(list)
<1>1. Len(list) \in Nat
  OBVIOUS
<1>2. fees = [i \in 1 .. 2 |-> fees[i]]
  BY DEF FeeOps
<1>3. moves = [i \in 1 .. 2 * Len(list) |-> moves[i]]
  BY DEF TransferOps
<1>4. Operations(dep, list, signer, validator) = fees \o moves
  BY DEF Operations
<1> HIDE DEF fees, moves
<1>5. /\ Len(fees \o moves) = 2 + 2 * Len(list)
      /\ \A i \in 1 .. 2 + 2 * Len(list) :
           (fees \o moves)[i] = IF i <= 2 THEN fees[i] ELSE moves[i - 2]
  BY <1>1, <1>2, <1>3, Concatenated
<1> QED
  BY <1>4, <1>5 DEF fees, moves

------------------------------------------------------------------------------
(***************************************************************************)
(* The operation identifiers of client.go:321-419 are the positions of     *)
(* the operations: fees first, then two for each transfer, whatever the    *)
(* transfers and however the deploy ended.                                 *)
(***************************************************************************)
THEOREM IndexIsPosition ==
  ASSUME NEW dep \in DeployResponses, NEW list \in Seq(Transfer),
         NEW signer \in Urefs, NEW validator \in Urefs
  PROVE  LET ops == Operations(dep, list, signer, validator)
         IN  /\ Len(ops) = IF dep.ok THEN 2 + 2 * Len(list) ELSE 2
             /\ \A i \in 1 .. Len(ops) : ops[i].index = i - 1
<1> DEFINE ops == Operations(dep, list, signer, validator)
           fees == FeeOps(dep, signer, validator)
<1>1. Len(fees) = 2 /\ fees[1].index = 0 /\ fees[2].index = 1
  BY FeePair DEF DeployResponses, Amounts
<1>2. Len(list) \in Nat
  OBVIOUS
<1>3. \A n \in 1 .. 2 * Len(list) : TransferOps(list)[n].index = n + 1
  BY <1>2 DEF TransferOps, TransferOp
<1>4. CASE dep.ok
  <2>1. /\ Len(ops) = 2 + 2 * Len(list)
        /\ \A i \in 1 .. 2 + 2 * Len(list) :
             ops[i] = IF i <= 2 THEN fees[i] ELSE TransferOps(list)[i - 2]
    BY <1>4, OperationAt
  <2> HIDE DEF ops, fees
  <2>2. ASSUME NEW i \in 1 .. Len(ops)
        PROVE  ops[i].index = i - 1
    <3>1. CASE i \in {1, 2}
      BY <1>1, <1>2, <2>1, <3>1
    <3>2. CASE i > 2
      <4>1. i - 2 \in 1 .. 2 * Len(list) /\ ops[i] = TransferOps(list)[i - 2]
        BY <1>2, <2>1, <3>2
      <4> QED
        BY <1>3, <4>1
    <3> QED
      BY <1>2, <2>1, <3>1, <3>2
  <2> QED
    BY <1>4, <2>1, <2>2 DEF ops
<1>5. CASE ~ dep.ok
  <2>1. ops = fees
    BY <1>5 DEF Operations
  <2> HIDE DEF fees
  <2>2. Len(fees) = 2 /\ \A i \in 1 .. 2 : fees[i].index = i - 1
    BY <1>1
  <2> QED
    BY <1>5, <2>1, <2>2
<1> QED
  BY <1>4, <1>5

(***************************************************************************)
(* client.go:313-433 neither makes nor loses motes: the operations come in *)
(* pairs, and the two amounts of a pair cancel.                            *)
(***************************************************************************)
THEOREM PairsCancel ==
  ASSUME NEW dep \in DeployResponses, NEW list \in Seq(Transfer),
         NEW signer \in Urefs, NEW validator \in Urefs,
         NEW k \in 1 .. (IF dep.ok THEN 1 + Len(list) ELSE 1)
  PROVE  LET ops == Operations(dep, list, signer, validator)
         IN  ops[2 * k - 1].amount + ops[2 * k].amount = 0
<1> DEFINE ops == Operations(dep, list, signer, validator)
           fees == FeeOps(dep, signer, validator)
           moves == TransferOps(list)
<1>1. fees[1].amount + fees[2].amount = 0
  BY FeePair DEF DeployResponses, Amounts
<1>2. Len(list) \in Nat
  OBVIOUS
<1>3. CASE dep.ok /\ k = 1
  <2>1. \A i \in {1, 2} : ops[i] = fees[i]
    BY <1>2, <1>3, OperationAt
  <2> HIDE DEF ops, fees
  <2> QED
    BY <1>1, <1>3, <2>1 DEF ops
<1>4. CASE dep.ok /\ k > 1
  <2> DEFINE j == k - 1
  <2>1. j \in 1 .. Len(list)
    BY <1>2, <1>4
  <2>2. /\ moves[2 * j - 1] = TransferOp(2 * j, list[j].source, - list[j].amount)
        /\ moves[2 * j] = TransferOp(2 * j + 1, list[j].target, list[j].amount)
    BY <2>1, TransferPair
  <2>3. list[j] \in Transfer /\ list[j].amount \in Nat
    <3>1. list[j] \in Transfer
      BY <2>1
    <3> QED
      BY <3>1 DEF Transfer, Amounts
  <2>4. moves[2 * j - 1].amount + moves[2 * j].amount = 0
    BY <2>2, <2>3 DEF TransferOp
  <2>5. /\ Len(ops) = 2 + 2 * Len(list)
        /\ \A i \in 1 .. 2 + 2 * Len(list) :
             ops[i] = IF i <= 2 THEN fees[i] ELSE moves[i - 2]
    BY <1>2, <1>4, OperationAt
  <2> HIDE DEF ops, fees, moves
  <2>6. 2 * k - 1 \in 1 .. Len(ops) /\ 2 * k \in 1 .. Len(ops) /\ 2 * k - 1 > 2
    BY <1>2, <1>4, <2>1, <2>5
  <2>7. ops[2 * k - 1] = moves[2 * j - 1] /\ ops[2 * k] = moves[2 * j]
    BY <1>2, <2>5, <2>6
  <2> QED
    BY <2>4, <2>7 DEF ops
<1>5. CASE ~ dep.ok
  <2>1. ops = fees /\ k = 1
    BY <1>5 DEF Operations
  <2> HIDE DEF ops, fees
  <2> QED
    BY <1>1, <2>1 DEF ops
<1> QED
  BY <1>2, <1>3, <1>4, <1>5 DEF DeployResponses

------------------------------------------------------------------------------
(***************************************************************************)
(* Flattened sequences: the first k sequences are joined for each k in     *)
(* turn.                                                                   *)
(***************************************************************************)
Joined(p, x, s) == x \o s
J == INSTANCE FoldProofs WITH Op <- Joined

LEMMA FlattenIs ==
  ASSUME NEW s, s # <<>>, Len(s) # 0
  PROVE  FlattenSeq(s) = (CHOOSE f : J!Recurses({}, s, Len(s), f))[Len(s)]
BY DEF FlattenSeq, J!Recurses, Joined

LEMMA FlattenRecursion ==
  ASSUME NEW S, NEW s \in Seq(S), s # <<>>
  PROVE  \E f : /\ f[1] = s[1]
                /\ \A i \in 2 .. Len(s) : f[i] = Joined({}, f[i - 1], s[i])
                /\ FlattenSeq(s) = f[Len(s)]
<1> DEFINE f == CHOOSE f : J!Recurses({}, s, Len(s), f)
<1>1. Len(s) \in Nat \ {0}
  OBVIOUS
<1>2. J!Recurses({}, s, Len(s), f)
  BY <1>1, J!RecursionExists
<1>3. FlattenSeq(s) = f[Len(s)]
  BY <1>1, FlattenIs
<1> HIDE DEF f
<1>4. f[1] = s[1] /\ \A i \in 2 .. Len(s) : f[i] = Joined({}, f[i - 1], s[i])
  BY ONLY <1>1, <1>2, J!RecursionValues
<1> QED
  BY <1>3, <1>4

\* The same from the empty sequence on.
LEMMA FlattenTrace ==
  ASSUME NEW S, NEW s \in Seq(Seq(S))
  PROVE  \E f : /\ f[0] = <<>> /\ FlattenSeq(s) = f[Len(s)]
                /\ \A i \in 1 .. Len(s) : f[i] = Joined({}, f[i - 1], s[i])
                /\ \A i \in 0 .. Len(s) : f[i] \in Seq(S)
<1>1. Len(s) \in Nat /\ \A i \in 1 .. Len(s) : s[i] \in Seq(S)
  OBVIOUS
<1>2. \E f : /\ f[0] = <<>> /\ FlattenSeq(s) = f[Len(s)]
             /\ \A i \in 1 .. Len(s) : f[i] = Joined({}, f[i - 1], s[i])
  <2>1. CASE s = <<>>
    <3> DEFINE f == [i \in {0} |-> <<>>]
    <3>1. FlattenSeq(s) = <<>> /\ Len(s) = 0 /\ f[0] = <<>>
      BY <2>1 DEF FlattenSeq
    <3> HIDE DEF f
    <3> QED
      BY <3>1
  <2>2. CASE s # <<>>
    <3>1. PICK g : /\ g[1] = s[1]
                   /\ \A i \in 2 .. Len(s) : g[i] = Joined({}, g[i - 1], s[i])
                   /\ FlattenSeq(s) = g[Len(s)]
      BY <2>2, FlattenRecursion
    <3> DEFINE f == [i \in 0 .. Len(s) |-> IF i = 0 THEN <<>> ELSE g[i]]
    <3>2. Len(s) > 0 /\ s[1] \in Seq(S)
      BY <1>1, <2>2
    <3>3. Joined({}, <<>>, s[1]) = s[1]
      BY <3>2 DEF Joined
    <3>4. f[0] = <<>> /\ f[1] = s[1] /\ f[Len(s)] = g[Len(s)]
      BY <1>1, <3>1, <3>2
    <3>5. ASSUME NEW i \in 2 .. Len(s)
          PROVE  f[i] = Joined({}, f[i - 1], s[i])
      <4>1. f[i] = g[i] /\ f[i - 1] = g[i - 1]
        BY <1>1
      <4> QED
        BY <3>1, <4>1
    <3> HIDE DEF f
    <3>6. \A i \in 1 .. Len(s) : i = 1 \/ i \in 2 .. Len(s)
      BY <1>1
    <3>7. 1 - 1 = 0
      OBVIOUS
    <3>8. \A i \in 1 .. Len(s) : f[i] = Joined({}, f[i - 1], s[i])
      BY <3>3, <3>4, <3>5, <3>6, <3>7
    <3> QED
      BY <3>1, <3>4, <3>8
  <2> QED
    BY <2>1, <2>2
<1>3. PICK f : /\ f[0] = <<>> /\ FlattenSeq(s) = f[Len(s)]
               /\ \A i \in 1 .. Len(s) : f[i] = Joined({}, f[i - 1], s[i])
  BY <1>2
<1> DEFINE T == {k \in 0 .. Len(s) : f[k] \in Seq(S)}
<1>4. 0 \in T
  <2>1. f[0] \in Seq(S)
    BY <1>3, EmptySeq
  <2> QED
    BY <1>1, <2>1
<1>5. ASSUME NEW k \in 0 .. Len(s) - 1, k \in T
      PROVE  k + 1 \in T
  <2>1. k + 1 \in 1 .. Len(s) /\ (k + 1) - 1 = k
    BY <1>1
  <2>2. f[k + 1] = Joined({}, f[k], s[k + 1]) /\ s[k + 1] \in Seq(S)
    BY <1>1, <1>3, <2>1
  <2>3. Joined({}, f[k], s[k + 1]) \in Seq(S)
    BY <1>5, <2>2 DEF Joined
  <2> QED
    BY <1>1, <2>1, <2>2, <2>3
<1> HIDE DEF T
<1>6. T = 0 .. Len(s)
  BY <1>1, <1>4, <1>5, J!BoundedInduction DEF T
<1> QED
  BY <1>3, <1>6 DEF T

\* What is in the flattened sequence is what is in any of the sequences.
LEMMA FlattenRange ==
  ASSUME NEW S, NEW s \in Seq(Seq(S))
  PROVE  /\ FlattenSeq(s) \in Seq(S)
         /\ \A x : x \in Range(FlattenSeq(s)) <=> \E i \in 1 .. Len(s) : x \in Range(s[i])
<1>1. PICK f : /\ f[0] = <<>> /\ FlattenSeq(s) = f[Len(s)]
               /\ \A i \in 1 .. Len(s) : f[i] = Joined({}, f[i - 1], s[i])
               /\ \A i \in 0 .. Len(s) : f[i] \in Seq(S)
  BY FlattenTrace
<1>2. Len(s) \in Nat /\ \A i \in 1 .. Len(s) : s[i] \in Seq(S)
  OBVIOUS
<1> DEFINE Holds(k) == \A x : x \in Range(f[k]) <=> \E i \in 1 .. k : x \in Range(s[i])
           T == {k \in 0 .. Len(s) : Holds(k)}
<1>3. 0 \in T
  <2>1. \A x : x \notin Range(f[0])
    BY <1>1 DEF Range
  <2> QED
    BY <1>2, <2>1
<1>4. ASSUME NEW k \in 0 .. Len(s) - 1, k \in T
      PROVE  k + 1 \in T
  <2>1. k + 1 \in 1 .. Len(s) /\ (k + 1) - 1 = k /\ k \in 0 .. Len(s)
    BY <1>2
  <2>2. f[k + 1] = Joined({}, f[k], s[k + 1]) /\ s[k + 1] \in Seq(S) /\ f[k] \in Seq(S)
    BY <1>1, <1>2, <2>1
  <2>3. Range(f[k + 1]) = Range(f[k]) \cup Range(s[k + 1])
    BY <2>2, RangeConcatenation DEF Joined
  <2>4. \A i : i \in 1 .. k + 1 <=> i \in 1 .. k \/ i = k + 1
    BY <2>1
  <2>5. Holds(k)
    BY <1>4
  <2> HIDE DEF Holds
  <2>6. Holds(k + 1)
    BY <2>3, <2>4, <2>5 DEF Holds
  <2> QED
    BY <1>2, <2>1, <2>6
<1> HIDE DEF T
<1>5. T = 0 .. Len(s)
  BY <1>2, <1>3, <1>4, J!BoundedInduction DEF T
<1> HIDE DEF Holds
<1>6. Holds(Len(s))
  <2>1. Len(s) \in T
    BY <1>2, <1>5
  <2> QED
    BY <2>1 DEF T
<1> QED
  BY <1>1, <1>2, <1>6 DEF Holds

------------------------------------------------------------------------------
(***************************************************************************)
(* What a block lists and moves: the transfers of its executions, and the  *)
(* motes they move (CasperNode).                                           *)
(***************************************************************************)
\* The transfers of an execution are those of one deploy.
LEMMA ListedType ==
  ASSUME NEW e \in Execution
  PROVE  /\ Carried(e) \in Seq([source : Purses, target : Purses, amount : Amounts])
         /\ Listed(e) \in Seq(Transfer) /\ Len(Listed(e)) = Len(Carried(e))
         /\ \A j \in 1 .. Len(Listed(e)) :
              /\ Listed(e)[j].deploy = e.deploy
              /\ Listed(e)[j].source = Uref(Carried(e)[j].source)
              /\ Listed(e)[j].target = Uref(Carried(e)[j].target)
              /\ Listed(e)[j].amount = Carried(e)[j].amount
<1> DEFINE Move == [source : Purses, target : Purses, amount : Amounts]
           ts == Carried(e)
<1>1. ts \in Seq(Move)
  <2>1. e.deploy \in Deploys
    BY DEF Execution
  <2>2. DeployOf[e.deploy] \in
          [account : Accounts, payment : Amounts, readable : BOOLEAN,
           cost : Amounts, native : BOOLEAN, transfers : Seq(Move)]
    BY <2>1, NodeAssumption
  <2> HIDE DEF Move
  <2>3. DeployOf[e.deploy].transfers \in Seq(Move)
    BY <2>2
  <2> QED
    BY <2>3, EmptySeq DEF Carried
<1>2. DOMAIN ts = 1 .. Len(ts) /\ Len(ts) \in Nat
  BY <1>1
<1>3. \A j \in 1 .. Len(ts) : /\ ts[j].source \in Purses /\ ts[j].target \in Purses
                              /\ ts[j].amount \in Amounts
  <2>1. \A j \in 1 .. Len(ts) : ts[j] \in Move
    <3> HIDE DEF ts, Move
    <3> QED
      BY <1>1
  <2> QED
    BY <2>1
<1> HIDE DEF ts
<1>4. Listed(e) = [j \in 1 .. Len(ts) |->
        [deploy |-> e.deploy, source |-> Uref(ts[j].source),
         target |-> Uref(ts[j].target), amount |-> ts[j].amount]]
  BY <1>2 DEF Listed, ts
<1>5. \A j \in 1 .. Len(ts) :
        [deploy |-> e.deploy, source |-> Uref(ts[j].source),
         target |-> Uref(ts[j].target), amount |-> ts[j].amount] \in Transfer
  BY <1>3 DEF Transfer, Uref, Urefs, Execution
<1>6. Listed(e) \in Seq(Transfer) /\ Len(Listed(e)) = Len(ts)
  BY <1>2, <1>4, <1>5
<1> QED
  BY <1>1, <1>4, <1>6 DEF ts

\* A row of executions, and the row of the transfers of each.
LEMMA RowType ==
  ASSUME NEW x \in Seq(Execution)
  PROVE  LET row == [i \in DOMAIN x |-> Listed(x[i])]
         IN  /\ row \in Seq(Seq(Transfer)) /\ Len(row) = Len(x)
             /\ \A i \in 1 .. Len(x) : row[i] = Listed(x[i])
<1>1. DOMAIN x = 1 .. Len(x) /\ Len(x) \in Nat
  OBVIOUS
<1>2. \A i \in 1 .. Len(x) : Listed(x[i]) \in Seq(Transfer)
  BY ListedType
<1> QED
  BY <1>1, <1>2

\* Listed with each other they name the deploys that carried something out.
LEMMA AllListedNames ==
  ASSUME NEW x \in Seq(Execution)
  PROVE  /\ AllListed(x) \in Seq(Transfer)
         /\ {AllListed(x)[i].deploy : i \in DOMAIN AllListed(x)} =
              {x[i].deploy : i \in {j \in DOMAIN x : Carried(x[j]) # <<>>}}
<1> DEFINE row == [i \in DOMAIN x |-> Listed(x[i])]
           all == AllListed(x)
<1>1. row \in Seq(Seq(Transfer)) /\ Len(row) = Len(x)
      /\ \A i \in 1 .. Len(x) : row[i] = Listed(x[i])
  BY RowType
<1>2. all = FlattenSeq(row)
  BY DEF AllListed
<1> HIDE DEF row, all
<1>3. /\ all \in Seq(Transfer)
      /\ \A t : t \in Range(all) <=> \E i \in 1 .. Len(row) : t \in Range(row[i])
  BY <1>1, <1>2, FlattenRange
<1>4. DOMAIN x = 1 .. Len(x) /\ DOMAIN all = 1 .. Len(all)
  BY <1>3
<1>5. ASSUME NEW k \in 1 .. Len(all)
      PROVE  \E i \in 1 .. Len(x) : Carried(x[i]) # <<>> /\ x[i].deploy = all[k].deploy
  <2>1. all[k] \in Range(all)
    BY <1>4 DEF Range
  <2>2. PICK i \in 1 .. Len(x) : all[k] \in Range(Listed(x[i]))
    BY <1>1, <1>3, <2>1
  <2>3. x[i] \in Execution
    OBVIOUS
  <2>4. PICK j \in 1 .. Len(Listed(x[i])) : all[k] = Listed(x[i])[j]
    BY <2>2, <2>3, ListedType DEF Range
  <2>5. all[k].deploy = x[i].deploy
    BY <2>3, <2>4, ListedType
  <2>6. Carried(x[i]) # <<>>
    BY <2>3, <2>4, ListedType
  <2> QED
    BY <2>5, <2>6
<1>6. ASSUME NEW i \in 1 .. Len(x), Carried(x[i]) # <<>>
      PROVE  \E k \in 1 .. Len(all) : all[k].deploy = x[i].deploy
  <2>1. x[i] \in Execution
    OBVIOUS
  <2>2. 1 \in 1 .. Len(Listed(x[i])) /\ Listed(x[i]) \in Seq(Transfer)
    BY <1>6, <2>1, ListedType
  <2>3. Listed(x[i])[1] \in Range(row[i])
    <3>1. row[i] = Listed(x[i]) /\ 1 \in DOMAIN Listed(x[i])
      BY <1>1, <2>2
    <3> QED
      BY <3>1 DEF Range
  <2>4. Listed(x[i])[1] \in Range(all)
    BY <1>1, <1>3, <2>3
  <2>5. PICK k \in 1 .. Len(all) : all[k] = Listed(x[i])[1]
    BY <1>4, <2>4 DEF Range
  <2> QED
    BY <2>1, <2>2, <2>5, ListedType
<1> DEFINE listed == {i \in 1 .. Len(x) : Carried(x[i]) # <<>>}
           ofRow(i) == x[i].deploy
           ofAll(k) == all[k].deploy
<1>7. {ofAll(k) : k \in 1 .. Len(all)} = {ofRow(i) : i \in listed}
  <2>1. \A k \in 1 .. Len(all) : \E i \in listed : ofAll(k) = ofRow(i)
    BY <1>5
  <2>2. \A i \in listed : \E k \in 1 .. Len(all) : ofRow(i) = ofAll(k)
    BY <1>6
  <2> HIDE DEF listed, ofRow, ofAll
  <2> QED
    BY <2>1, <2>2
<1>8. AllListed(x) = all
  BY DEF all
<1> QED
  BY <1>3, <1>4, <1>7, <1>8, Zenon

------------------------------------------------------------------------------
(***************************************************************************)
(* The movements of a block.                                               *)
(***************************************************************************)
MovedBy(p, balance, m) == Moved(m, balance)
B == INSTANCE FoldProofs WITH Op <- MovedBy

LEMMA AfterIsFold ==
  ASSUME NEW balance, NEW moves
  PROVE  BalanceAfter(balance, moves) = B!Folded({}, balance, moves)
BY DEF BalanceAfter, MovedBy, B!Folded, FoldLeft, MapThenFoldSet, Max, B!FoldLeft,
   B!MapThenFoldSet, B!Max

Move == [source : Purses, target : Purses, amount : Amounts]

\* What an execution costs is an amount, and all it moves are amounts of purses.
LEMMA MovementsType ==
  ASSUME NEW e \in Execution, NEW k \in Accounts
  PROVE  Charge(e) \in Amounts /\ Movements(e, k) \in Seq(Move)
<1>1. e.deploy \in Deploys /\ DeployOf[e.deploy].account \in Accounts
      /\ DeployOf[e.deploy].payment \in Amounts /\ DeployOf[e.deploy].cost \in Amounts
  BY NodeAssumption DEF Execution
<1>2. Charge(e) \in Amounts
  BY <1>1 DEF Charge
<1>3. MainPurse[DeployOf[e.deploy].account] \in Purses /\ MainPurse[k] \in Purses
  BY <1>1, NodeAssumption
<1>4. [source |-> MainPurse[DeployOf[e.deploy].account],
       target |-> MainPurse[k], amount |-> Charge(e)] \in Move
  BY <1>2, <1>3 DEF Move
<1>5. Carried(e) \in Seq(Move)
  BY ListedType DEF Move
<1> HIDE DEF Move
<1> QED
  BY <1>2, <1>4, <1>5 DEF Movements

LEMMA AllMovementsType ==
  ASSUME NEW x \in Seq(Execution), NEW k \in Accounts
  PROVE  AllMovements(x, k) \in Seq(Move)
<1> DEFINE row == [i \in DOMAIN x |-> Movements(x[i], k)]
<1>1. \A i \in 1 .. Len(x) : Movements(x[i], k) \in Seq(Move)
  BY MovementsType
<1>2. DOMAIN x = 1 .. Len(x) /\ Len(x) \in Nat
  OBVIOUS
<1>3. row \in Seq(Seq(Move))
  BY <1>1, <1>2
<1> HIDE DEF row
<1>4. FlattenSeq(row) \in Seq(Move)
  BY <1>3, FlattenRange
<1> QED
  BY <1>4 DEF AllMovements, row

\* No movement takes a purse away.
LEMMA PursesStay ==
  ASSUME NEW balance \in Balances, NEW moves \in Seq(Move), NEW q \in Purses,
         balance[q] # NULL
  PROVE  BalanceAfter(balance, moves)[q] # NULL
<1> DEFINE R == {b \in [Purses -> Int \cup {NULL}] : b[q] # NULL}
<1>1. balance \in R
  BY DEF Balances, Amounts
<1>2. ASSUME NEW b \in R, NEW i \in 1 .. Len(moves)
      PROVE  MovedBy({}, b, moves[i]) \in R
  <2>1. moves[i].amount \in Int
    <3>1. moves[i] \in Move
      OBVIOUS
    <3> QED
      BY <3>1 DEF Move, Amounts
  <2>2. \A p \in Purses : Held(b, p) \in Int
    BY DEF Held
  <2>3. NULL \notin Int
    BY NodeAssumption
  <2>4. \A p \in Purses : Moved(moves[i], b)[p] \in Int \cup {NULL}
    BY <2>1, <2>2 DEF Moved
  <2>5. Moved(moves[i], b)[q] # NULL
    <3>1. CASE q \in {moves[i].source, moves[i].target}
      <4>1. Moved(moves[i], b)[q] \in Int
        BY <2>1, <2>2, <3>1 DEF Moved
      <4> QED
        BY <2>3, <4>1
    <3>2. CASE q \notin {moves[i].source, moves[i].target}
      BY <3>2 DEF Moved
    <3> QED
      BY <3>1, <3>2
  <2>6. Moved(moves[i], b) = [p \in Purses |-> Moved(moves[i], b)[p]]
    BY DEF Moved
  <2> QED
    BY <2>4, <2>5, <2>6 DEF MovedBy
<1> HIDE DEF R
<1>3. B!Folded({}, balance, moves) \in R
  BY <1>1, <1>2, B!FoldInvariant
<1> QED
  BY <1>3, AfterIsFold DEF R

------------------------------------------------------------------------------
(***************************************************************************)
(* Sums.                                                                   *)
(***************************************************************************)
\* The partial sums of a list of numbers.
AddNumber(p, n, z) == n + z
P == INSTANCE FoldProofs WITH Op <- AddNumber

Sums(z, n, f) ==
  f \in [0 .. n -> Int] /\ f[0] = 0 /\ \A i \in 1 .. n : f[i] = f[i - 1] + z[i]

LEMMA SumsExist ==
  ASSUME NEW n \in Nat, NEW z, \A i \in 1 .. n : z[i] \in Int
  PROVE  \E f : Sums(z, n, f)
<1> DEFINE w == [i \in 1 .. n |-> z[i]]
<1>1. w \in Seq(Int) /\ Len(w) = n /\ \A i \in 1 .. n : w[i] = z[i]
  OBVIOUS
<1> HIDE DEF w
<1>2. PICK g : /\ g[0] = 0 /\ P!Folded({}, 0, w) = g[Len(w)]
               /\ \A i \in 1 .. Len(w) : g[i] = AddNumber({}, g[i - 1], w[i])
  <2>1. w \in Seq(Int)
    BY <1>1
  <2> QED
    BY ONLY <2>1, P!FoldTrace
<1>3. \A i \in 1 .. n : g[i] = g[i - 1] + z[i]
  BY <1>1, <1>2 DEF AddNumber
<1> DEFINE T == {k \in 0 .. n : g[k] \in Int}
<1>4. 0 \in T
  BY <1>2
<1>5. ASSUME NEW k \in 0 .. n - 1, k \in T
      PROVE  k + 1 \in T
  <2>1. k + 1 \in 1 .. n /\ (k + 1) - 1 = k /\ g[k] \in Int
    BY <1>5
  <2>2. g[k + 1] = g[k] + z[k + 1] /\ z[k + 1] \in Int
    BY <1>3, <2>1
  <2> QED
    BY <2>1, <2>2
<1> HIDE DEF T
<1>6. T = 0 .. n
  BY <1>4, <1>5, P!BoundedInduction DEF T
<1> DEFINE f == [i \in 0 .. n |-> g[i]]
<1>7. Sums(z, n, f)
  <2>1. \A i \in 1 .. n : i \in 0 .. n /\ i - 1 \in 0 .. n
    OBVIOUS
  <2>2. \A i \in 0 .. n : f[i] = g[i] /\ g[i] \in Int
    BY <1>6 DEF T
  <2>3. f \in [0 .. n -> Int] /\ f[0] = 0
    BY <1>2, <2>2
  <2> HIDE DEF f
  <2>4. \A i \in 1 .. n : f[i] = f[i - 1] + z[i]
    BY <1>3, <2>1, <2>2
  <2> QED
    BY <2>3, <2>4 DEF Sums
<1> QED
  BY <1>7

\* What is summed up is the same in any order: w[i] is z[at[i]].
Reorders(at, m, n) ==
  /\ at \in [1 .. m -> 1 .. n]
  /\ \A i, j \in 1 .. m : at[i] = at[j] => i = j
  /\ \A k \in 1 .. n : \E i \in 1 .. m : at[i] = k
Picked(z, n, at, m, w) ==
  (\A k \in 1 .. n : z[k] \in Int) /\ \A i \in 1 .. m : w[i] = z[at[i]]

LEMMA Rearranged ==
  ASSUME NEW n \in Nat, NEW m \in Nat, NEW z, NEW w, NEW f, NEW g, NEW at,
         Reorders(at, m, n), Picked(z, n, at, m, w), Sums(z, n, f), Sums(w, m, g)
  PROVE  f[n] = g[m]
<1>0. /\ \A i \in 1 .. n : z[i] \in Int
      /\ at \in [1 .. m -> 1 .. n] /\ \A i \in 1 .. m : w[i] = z[at[i]]
      /\ \A i, j \in 1 .. m : at[i] = at[j] => i = j
      /\ \A k \in 1 .. n : \E i \in 1 .. m : at[i] = k
  BY DEF Reorders, Picked
<1> USE <1>0
<1> DEFINE Upto(k) == [i \in 1 .. m |-> IF at[i] <= k THEN w[i] ELSE 0]
           Whole(k) == \A t : Sums(Upto(k), m, t) => t[m] = f[k]
           T == {k \in 0 .. n : Whole(k)}
<1>1. 0 \in T
  <2> SUFFICES ASSUME NEW t, Sums(Upto(0), m, t)
               PROVE  t[m] = f[0]
    OBVIOUS
  <2> DEFINE U == {i \in 0 .. m : t[i] = 0}
  <2>1. 0 \in U
    BY DEF Sums
  <2>2. ASSUME NEW i \in 0 .. m - 1, i \in U
        PROVE  i + 1 \in U
    <3>0. t[i] = 0
      BY <2>2
    <3>1. i + 1 \in 1 .. m /\ (i + 1) - 1 = i /\ t[i] = 0 /\ i + 1 \in 0 .. m
      BY ONLY <3>0, m \in Nat, i \in 0 .. m - 1
    <3>2. Upto(0)[i + 1] = 0
      BY <3>1
    <3>3. t[i + 1] = t[i] + Upto(0)[i + 1]
      BY <3>1 DEF Sums
    <3> QED
      BY <3>1, <3>2, <3>3
  <2> HIDE DEF U, Upto
  <2>3. U = 0 .. m
    BY <2>1, <2>2, P!BoundedInduction DEF U
  <2>4. m \in U
    BY <2>3
  <2> QED
    BY <2>4 DEF U, Sums
<1>2. ASSUME NEW k \in 0 .. n - 1, k \in T
      PROVE  k + 1 \in T
  <2>1. k + 1 \in 1 .. n /\ (k + 1) - 1 = k /\ k + 1 \in 0 .. n /\ k \in Int
    OBVIOUS
  <2>2. PICK a \in Int : a = z[k + 1]
    BY <2>1
  <2>3. f[k + 1] = f[k] + a /\ f[k] \in Int
    <3>0. f \in [0 .. n -> Int] /\ \A i \in 1 .. n : f[i] = f[i - 1] + z[i]
      BY DEF Sums
    <3> HIDE DEF T, Whole, Upto
    <3>1. f[k + 1] = f[(k + 1) - 1] + z[k + 1] /\ f[k] \in Int
      BY <2>1, <3>0
    <3> QED
      BY <2>1, <2>2, <3>1
  <2>4. PICK i0 \in 1 .. m : at[i0] = k + 1
    BY <2>1
  <2>5. ASSUME NEW t, Sums(Upto(k + 1), m, t)
        PROVE  t[m] = f[k + 1]
    <3> DEFINE u == [i \in 0 .. m |-> IF i0 <= i THEN t[i] - a ELSE t[i]]
    <3>1. t \in [0 .. m -> Int] /\ t[0] = 0
      BY <2>5 DEF Sums
    <3>2. u \in [0 .. m -> Int] /\ u[0] = 0
      BY <3>1
    <3>3. ASSUME NEW i \in 1 .. m
          PROVE  u[i] = u[i - 1] + Upto(k)[i]
      <4>1. i \in 0 .. m /\ i - 1 \in 0 .. m /\ at[i] \in 1 .. n
        OBVIOUS
      <4>2. t[i] = t[i - 1] + (IF at[i] <= k + 1 THEN w[i] ELSE 0)
        BY <2>5 DEF Sums
      <4>3. t[i] \in Int /\ t[i - 1] \in Int
        BY <3>1, <4>1
      <4>4. w[i] \in Int
        BY <4>1
      <4>5. u[i] = IF i0 <= i THEN t[i] - a ELSE t[i]
        BY <4>1
      <4>6. u[i - 1] = IF i0 <= i - 1 THEN t[i - 1] - a ELSE t[i - 1]
        BY <4>1
      <4>7. Upto(k)[i] = IF at[i] <= k THEN w[i] ELSE 0
        OBVIOUS
      <4> HIDE DEF u, Upto
      <4>8. CASE i = i0
        <5>1. w[i] = a /\ at[i] = k + 1
          BY <2>2, <2>4, <4>8
        <5>2. t[i] = t[i - 1] + a
          BY <2>1, <4>2, <5>1
        <5>3. u[i] = t[i] - a /\ u[i - 1] = t[i - 1]
          BY <4>5, <4>6, <4>8
        <5>4. Upto(k)[i] = 0
          BY <2>1, <4>7, <5>1
        <5> QED
          BY <4>3, <5>2, <5>3, <5>4
      <4>9. CASE i # i0
        <5>1. at[i] # k + 1
          BY <2>4, <4>9
        <5>2. at[i] <= k + 1 <=> at[i] <= k
          BY <2>1, <4>1, <5>1
        <5>3. t[i] = t[i - 1] + Upto(k)[i]
          BY <4>2, <4>7, <5>2
        <5>4. i0 <= i <=> i0 <= i - 1
          BY <4>9
        <5>5. Upto(k)[i] \in Int
          BY <4>4, <4>7
        <5>6. PICK x \in Int, y \in Int, v \in Int :
                x = t[i] /\ y = t[i - 1] /\ v = Upto(k)[i]
          BY <4>3, <5>5
        <5>7. x = y + v /\ a \in Int
          BY <5>3, <5>6
        <5>8. u[i] = (IF i0 <= i THEN x - a ELSE x) /\ u[i - 1] = IF i0 <= i THEN y - a ELSE y
          BY <4>5, <4>6, <5>4, <5>6
        <5> QED
          BY <5>6, <5>7, <5>8
      <4> QED
        BY <4>8, <4>9
    <3>4. u[m] = t[m] - a
      OBVIOUS
    <3>5. t[m] \in Int
      BY <3>1
    <3> HIDE DEF u, Upto
    <3>6. Sums(Upto(k), m, u)
      BY <3>2, <3>3 DEF Sums
    <3>7. u[m] = f[k]
      BY <1>2, <3>6
    <3> QED
      BY <2>2, <2>3, <3>4, <3>5, <3>7
  <2> QED
    BY <2>1, <2>5
<1> HIDE DEF T, Whole
<1>3. T = 0 .. n
  BY <1>1, <1>2, P!BoundedInduction DEF T
<1>4. Whole(n)
  BY <1>3 DEF T
<1>5. Sums(Upto(n), m, g)
  <2>1. \A i \in 1 .. m : Upto(n)[i] = w[i]
    <3>1. \A i \in 1 .. m : at[i] <= n
      OBVIOUS
    <3> QED
      BY <3>1
  <2> HIDE DEF Upto
  <2> QED
    BY <2>1 DEF Sums
<1> QED
  BY <1>4, <1>5 DEF Whole

------------------------------------------------------------------------------
(***************************************************************************)
(* The loops that pick the transfers of one deploy (client.go:178-186,     *)
(* 267-272): of a list of which one part is the deploy's and the others    *)
(* are other deploys', that part is left.                                  *)
(***************************************************************************)
Kept(list, d) == FoldLeft(LAMBDA kept, tx : Keep(d, kept, tx), <<>>, list)
K == INSTANCE FoldProofs WITH Op <- Keep

LEMMA KeptIsFold ==
  ASSUME NEW list, NEW d
  PROVE  Kept(list, d) = K!Folded(d, <<>>, list)
BY DEF Kept, K!Folded, FoldLeft, MapThenFoldSet, Max, K!FoldLeft, K!MapThenFoldSet, K!Max

\* Transfers of other deploys are left out, and those of the deploy are taken.
LEMMA KeepNone ==
  ASSUME NEW S, NEW list \in Seq(S), NEW d, NEW kept,
         \A i \in 1 .. Len(list) : list[i].deploy # d
  PROVE  K!Folded(d, kept, list) = kept
<1>1. \A x \in {kept} : \A i \in 1 .. Len(list) : Keep(d, x, list[i]) \in {kept}
  BY DEF Keep
<1>2. kept \in {kept} /\ list \in Seq(S)
  OBVIOUS
<1>3. K!Folded(d, kept, list) \in {kept}
  BY ONLY <1>1, <1>2, K!FoldInvariant
<1> QED
  BY <1>3

LEMMA KeepAll ==
  ASSUME NEW S, NEW list \in Seq(S), NEW d, NEW kept \in Seq(S),
         \A i \in 1 .. Len(list) : list[i].deploy = d
  PROVE  K!Folded(d, kept, list) = kept \o list
<1> DEFINE f == [i \in 0 .. Len(list) |-> kept \o SubSeq(list, 1, i)]
<1>1. Len(list) \in Nat /\ SubSeq(list, 1, Len(list)) = list /\ SubSeq(list, 1, 0) = <<>>
  OBVIOUS
<1>2. f[0] = kept /\ f[Len(list)] = kept \o list
  BY <1>1
<1>3. ASSUME NEW i \in 1 .. Len(list)
      PROVE  f[i] = Keep(d, f[i - 1], list[i])
  <2>1. SubSeq(list, 1, i) = Append(SubSeq(list, 1, i - 1), list[i])
    OBVIOUS
  <2>2. SubSeq(list, 1, i - 1) \in Seq(S) /\ list[i] \in S
    OBVIOUS
  <2>3. kept \o Append(SubSeq(list, 1, i - 1), list[i])
          = Append(kept \o SubSeq(list, 1, i - 1), list[i])
    BY <2>2
  <2>4. i - 1 \in 0 .. Len(list) /\ i \in 0 .. Len(list)
    BY <1>1
  <2>5. f[i] = Append(f[i - 1], list[i])
    BY <2>1, <2>3, <2>4
  <2> HIDE DEF f
  <2> QED
    BY <2>5 DEF Keep
<1> HIDE DEF f
<1>4. K!Folded(d, kept, list) = f[Len(list)]
  BY <1>2, <1>3, K!FoldIs
<1> QED
  BY <1>2, <1>4

LEMMA KeepPart ==
  ASSUME NEW S, NEW s \in Seq(Seq(S)), NEW d, NEW n \in 1 .. Len(s),
         \A i \in 1 .. Len(s) : \A j \in 1 .. Len(s[i]) : s[i][j].deploy = d <=> i = n
  PROVE  Kept(FlattenSeq(s), d) = s[n]
<1>1. PICK f : /\ f[0] = <<>> /\ FlattenSeq(s) = f[Len(s)]
               /\ \A i \in 1 .. Len(s) : f[i] = Joined({}, f[i - 1], s[i])
               /\ \A i \in 0 .. Len(s) : f[i] \in Seq(S)
  BY FlattenTrace
<1>2. Len(s) \in Nat /\ \A i \in 1 .. Len(s) : s[i] \in Seq(S)
  OBVIOUS
<1> DEFINE Left(k) == K!Folded(d, <<>>, f[k])
           T == {k \in 0 .. Len(s) : Left(k) = IF k < n THEN <<>> ELSE s[n]}
<1>3. 0 \in T
  <2>1. f[0] \in Seq(S) /\ Len(f[0]) = 0
    BY <1>1, <1>2
  <2>2. Left(0) = <<>>
    BY ONLY <2>1, K!FoldOfFew
  <2> HIDE DEF Left
  <2> QED
    BY <1>2, <2>2
<1>4. ASSUME NEW k \in 0 .. Len(s) - 1, k \in T
      PROVE  k + 1 \in T
  <2>1. k + 1 \in 1 .. Len(s) /\ (k + 1) - 1 = k /\ k \in 0 .. Len(s)
    BY <1>2
  <2>2. f[k + 1] = Joined({}, f[k], s[k + 1]) /\ s[k + 1] \in Seq(S) /\ f[k] \in Seq(S)
    BY <1>1, <1>2, <2>1
  <2>3. Left(k + 1) = K!Folded(d, Left(k), s[k + 1])
    BY <2>2, K!FoldOfConcat DEF Joined
  <2>4. Left(k) = IF k < n THEN <<>> ELSE s[n]
    BY <1>4
  <2> HIDE DEF Left
  <2>5. Left(k + 1) = IF k + 1 < n THEN <<>> ELSE s[n]
    <3>1. CASE k + 1 = n
      <4>1. \A j \in 1 .. Len(s[k + 1]) : s[k + 1][j].deploy = d
        BY <2>1, <3>1
      <4>2. Left(k) = <<>> /\ <<>> \in Seq(S)
        BY <2>1, <2>4, <3>1
      <4>3. K!Folded(d, <<>>, s[k + 1]) = <<>> \o s[k + 1]
        BY <2>2, <4>1, <4>2, KeepAll
      <4>4. <<>> \o s[k + 1] = s[k + 1]
        BY <2>2
      <4> QED
        BY <2>1, <2>3, <3>1, <4>2, <4>3, <4>4
    <3>2. CASE k + 1 # n
      <4>1. \A j \in 1 .. Len(s[k + 1]) : s[k + 1][j].deploy # d
        BY <2>1, <3>2
      <4>2. Left(k + 1) = Left(k)
        BY <2>2, <2>3, <4>1, KeepNone
      <4> QED
        BY <2>1, <2>4, <3>2, <4>2
    <3> QED
      BY <3>1, <3>2
  <2> QED
    BY <1>2, <2>1, <2>5
<1> HIDE DEF Left
<1> HIDE DEF T
<1>5. T = 0 .. Len(s)
  BY <1>2, <1>3, <1>4, J!BoundedInduction DEF T
<1>6. Left(Len(s)) = s[n]
  <2>1. Len(s) \in T
    BY <1>2, <1>5
  <2> QED
    BY <1>2, <2>1 DEF T
<1> QED
  BY <1>1, <1>6, KeptIsFold DEF Left

------------------------------------------------------------------------------
(***************************************************************************)
(* What the operations of a deploy add up to.                              *)
(***************************************************************************)
AddMove(p, n, m) ==
  n + (IF m.target = p THEN m.amount ELSE 0) - (IF m.source = p THEN m.amount ELSE 0)
AddOp(p, n, op) == IF op.account = p THEN n + op.amount ELSE n
N == INSTANCE FoldProofs WITH Op <- AddMove
O == INSTANCE FoldProofs WITH Op <- AddOp

LEMMA NetIsFold ==
  ASSUME NEW moves, NEW p
  PROVE  Net(moves, p) = N!Folded(p, 0, moves)
BY DEF Net, AddMove, N!Folded, FoldLeft, MapThenFoldSet, Max, N!FoldLeft,
   N!MapThenFoldSet, N!Max

LEMMA NetOpsIsFold ==
  ASSUME NEW ops, NEW p
  PROVE  NetOps(ops, p) = O!Folded(p, 0, ops)
BY DEF NetOps, AddOp, O!Folded, FoldLeft, MapThenFoldSet, Max, O!FoldLeft,
   O!MapThenFoldSet, O!Max

\* Operation 2j - 1 takes from the source of movement j and 2j gives to its target.
Paired(ops, moves) ==
  /\ Len(ops) = 2 * Len(moves)
  /\ \A j \in 1 .. Len(moves) :
       /\ ops[2 * j - 1].account = moves[j].source
       /\ ops[2 * j - 1].amount = - moves[j].amount
       /\ ops[2 * j].account = moves[j].target
       /\ ops[2 * j].amount = moves[j].amount

LEMMA PairsAddUp ==
  ASSUME NEW S, NEW T, NEW moves \in Seq(S), NEW ops \in Seq(T), NEW p,
         \A j \in 1 .. Len(moves) : moves[j].amount \in Int, Paired(ops, moves)
  PROVE  NetOps(ops, p) = Net(moves, p) /\ Net(moves, p) \in Int
<1>1. PICK f : /\ f[0] = 0 /\ N!Folded(p, 0, moves) = f[Len(moves)]
               /\ \A i \in 1 .. Len(moves) : f[i] = AddMove(p, f[i - 1], moves[i])
  BY N!FoldTrace
<1>2. PICK g : /\ g[0] = 0 /\ O!Folded(p, 0, ops) = g[Len(ops)]
               /\ \A i \in 1 .. Len(ops) : g[i] = AddOp(p, g[i - 1], ops[i])
  BY O!FoldTrace
<1>3. Len(moves) \in Nat /\ Len(ops) = 2 * Len(moves)
  BY DEF Paired
<1> DEFINE T1 == {k \in 0 .. Len(moves) : g[2 * k] = f[k] /\ f[k] \in Int}
<1>4. 0 \in T1
  BY <1>1, <1>2, <1>3
<1>5. ASSUME NEW k \in 0 .. Len(moves) - 1, k \in T1
      PROVE  k + 1 \in T1
  <2>1. PICK j : j = k + 1 /\ j \in 1 .. Len(moves) /\ j - 1 = k /\ j \in 0 .. Len(moves)
    BY <1>3
  <2>2. PICK n \in Int : n = f[k] /\ n = g[2 * k]
    BY <1>5
  <2>3. PICK a \in Int : a = moves[j].amount
    BY <2>1
  <2>4. f[j] = n + (IF moves[j].target = p THEN a ELSE 0)
                 - (IF moves[j].source = p THEN a ELSE 0)
    BY <1>1, <2>1, <2>2, <2>3 DEF AddMove
  <2>5. /\ 2 * j - 1 \in 1 .. Len(ops) /\ 2 * j \in 1 .. Len(ops)
        /\ (2 * j - 1) - 1 = 2 * k /\ 2 * j - 1 = (2 * j) - 1
    BY <1>3, <2>1
  <2>6. g[2 * j - 1] = AddOp(p, n, ops[2 * j - 1])
    BY <1>2, <2>2, <2>5
  <2>7. g[2 * j] = AddOp(p, g[2 * j - 1], ops[2 * j])
    BY <1>2, <2>5
  <2>8. /\ ops[2 * j - 1].account = moves[j].source /\ ops[2 * j - 1].amount = - a
        /\ ops[2 * j].account = moves[j].target /\ ops[2 * j].amount = a
    BY <2>1, <2>3 DEF Paired
  <2>9. g[2 * j - 1] = IF moves[j].source = p THEN n - a ELSE n
    BY <2>6, <2>8 DEF AddOp
  <2>10. g[2 * j] = f[j] /\ f[j] \in Int
    BY <2>4, <2>7, <2>8, <2>9 DEF AddOp
  <2> QED
    BY <2>1, <2>10
<1> HIDE DEF T1
<1>6. T1 = 0 .. Len(moves)
  BY <1>3, <1>4, <1>5, N!BoundedInduction DEF T1
<1>7. Len(moves) \in T1
  BY <1>3, <1>6
<1> QED
  BY <1>1, <1>2, <1>3, <1>7, NetIsFold, NetOpsIsFold DEF T1

\* The operations of a deploy and its movements go together.
LEMMA OperationsArePaired ==
  ASSUME NEW e \in Execution, NEW h, NEW k, NEW ops,
         ops = Operations(DeployReply(e, h), Listed(e),
                          Uref(MainPurse[DeployOf[e.deploy].account]), Uref(MainPurse[k]))
  PROVE  /\ \E S : Movements(e, k) \in Seq(S)
         /\ \E T : ops \in Seq(T)
         /\ \A j \in 1 .. Len(Movements(e, k)) : Movements(e, k)[j].amount \in Int
         /\ Paired(ops, Movements(e, k))
<1> DEFINE fee == [source |-> MainPurse[DeployOf[e.deploy].account],
                   target |-> MainPurse[k], amount |-> Charge(e)]
           moves == Movements(e, k)
           fees == FeeOps(DeployReply(e, h), Uref(MainPurse[DeployOf[e.deploy].account]),
                          Uref(MainPurse[k]))
           rest == TransferOps(Listed(e))
<1>1. PICK n \in Nat : /\ n = Len(Carried(e)) /\ Len(Listed(e)) = n
                       /\ Listed(e) \in Seq(Transfer)
                       /\ Carried(e) = [i \in 1 .. n |-> Carried(e)[i]]
  BY ListedType
<1>2. Charge(e) \in Int /\ Charge(e) = Fee(DeployReply(e, h))
  <2>1. DeployOf[e.deploy].payment \in Nat /\ DeployOf[e.deploy].cost \in Nat
    BY NodeAssumption DEF Execution, Amounts
  <2>2. DeployOf[e.deploy].payment \in Int /\ DeployOf[e.deploy].cost \in Int
    BY <2>1
  <2> QED
    BY <2>2 DEF Charge, Fee, DeployReply
<1>3. /\ \E S : moves \in Seq(S)
      /\ Len(moves) = 1 + n /\ moves[1] = fee
      /\ \A i \in 1 .. n : moves[1 + i] = Carried(e)[i]
  <2> DEFINE one == <<fee>>
  <2>1. one = [i \in 1 .. 1 |-> one[i]] /\ one[1] = fee
    OBVIOUS
  <2>2. moves = one \o Carried(e)
    BY DEF Movements
  <2> HIDE DEF one, moves, fee
  <2>3. /\ \E S : moves \in Seq(S)
        /\ Len(moves) = 1 + n
        /\ \A i \in 1 .. 1 + n : moves[i] = IF i <= 1 THEN one[i] ELSE Carried(e)[i - 1]
    <3>1. 1 \in Nat /\ n \in Nat /\ one = [i \in 1 .. 1 |-> one[i]]
          /\ Carried(e) = [i \in 1 .. n |-> Carried(e)[i]]
      BY <1>1, <2>1
    <3>2. /\ Len(one \o Carried(e)) = 1 + n
          /\ \A i \in 1 .. 1 + n :
               (one \o Carried(e))[i] = IF i <= 1 THEN one[i] ELSE Carried(e)[i - 1]
      BY ONLY <3>1, Concatenated
    <3>3. \E S : one \o Carried(e) \in Seq(S)
      BY ONLY <3>1, ConcatenatedIsSeq
    <3> QED
      BY <2>2, <3>2, <3>3
  <2>4. \A i \in 1 .. n : 1 + i \in 1 .. 1 + n /\ ~ (1 + i <= 1) /\ (1 + i) - 1 = i
    OBVIOUS
  <2>5. 1 \in 1 .. 1 + n
    OBVIOUS
  <2> QED
    <3>1. moves[1] = one[1]
      BY <2>3, <2>5
    <3>2. \A i \in 1 .. n : moves[1 + i] = Carried(e)[i]
      BY <2>3, <2>4
    <3> QED
      BY <2>1, <2>3, <3>1, <3>2
<1>4. /\ Len(fees) = 2
      /\ fees[1].account = fee.source /\ fees[1].amount = - Charge(e)
      /\ fees[2].account = fee.target /\ fees[2].amount = Charge(e)
  BY <1>2 DEF FeeOps, PurseWithoutIndex, Uref
<1>5. fees = [i \in 1 .. 2 |-> fees[i]]
  BY DEF FeeOps
<1>6. rest = [i \in 1 .. 2 * n |-> rest[i]]
  BY <1>1 DEF TransferOps
<1>7. ASSUME NEW i \in 1 .. n
      PROVE  /\ Carried(e)[i].amount \in Int
             /\ rest[2 * i - 1].account = Carried(e)[i].source
             /\ rest[2 * i - 1].amount = - Carried(e)[i].amount
             /\ rest[2 * i].account = Carried(e)[i].target
             /\ rest[2 * i].amount = Carried(e)[i].amount
  <2>1. i \in 1 .. Len(Listed(e)) /\ Listed(e) \in Seq(Transfer)
    BY <1>1
  <2>2. PICK t : /\ t = Listed(e)[i] /\ t \in Transfer
                 /\ t.source = Uref(Carried(e)[i].source)
                 /\ t.target = Uref(Carried(e)[i].target) /\ t.amount = Carried(e)[i].amount
    <3>1. Listed(e)[i].amount = Carried(e)[i].amount
      BY <1>1 DEF Listed
    <3> QED
      BY <2>1, <3>1, ListedType
  <2>3. /\ rest[2 * i - 1] = TransferOp(2 * i, t.source, - t.amount)
        /\ rest[2 * i] = TransferOp(2 * i + 1, t.target, t.amount)
    BY <2>1, <2>2, TransferPair
  <2>4. t.amount \in Int
    BY <2>2 DEF Transfer, Amounts
  <2> QED
    BY <2>2, <2>3, <2>4 DEF TransferOp, PurseWithoutIndex, Uref
<1>8. ~ e.ok => n = 0
  BY <1>1 DEF Carried
<1>9. ops = IF e.ok THEN fees \o rest ELSE fees
  BY DEF Operations, DeployReply
<1>10. fee.amount = Charge(e)
  OBVIOUS
<1> HIDE DEF fee, moves, fees, rest
<1>11. /\ \E T : ops \in Seq(T)
       /\ Len(ops) = 2 + 2 * n
       /\ \A i \in 1 .. 2 + 2 * n : ops[i] = IF i <= 2 THEN fees[i] ELSE rest[i - 2]
  <2>1. CASE e.ok
    <3>1. 2 \in Nat /\ 2 * n \in Nat
      OBVIOUS
    <3>2. /\ Len(fees \o rest) = 2 + 2 * n
          /\ \A i \in 1 .. 2 + 2 * n :
               (fees \o rest)[i] = IF i <= 2 THEN fees[i] ELSE rest[i - 2]
      BY ONLY <1>5, <1>6, <3>1, Concatenated
    <3>3. \E T : fees \o rest \in Seq(T)
      BY ONLY <1>5, <1>6, <3>1, ConcatenatedIsSeq
    <3> QED
      BY <1>9, <2>1, <3>2, <3>3
  <2>2. CASE ~ e.ok
    <3>1. ops \in Seq({fees[1], fees[2]})
      BY <1>4, <1>5, <1>9, <2>2
    <3>2. Len(ops) = 2 + 2 * n /\ \A i \in 1 .. 2 + 2 * n : i <= 2 /\ ops[i] = fees[i]
      BY <1>4, <1>8, <1>9, <2>2
    <3> QED
      BY <3>1, <3>2
  <2> QED
    BY <2>1, <2>2
<1>12. ASSUME NEW j \in 1 .. 1 + n
       PROVE  /\ moves[j].amount \in Int
              /\ ops[2 * j - 1].account = moves[j].source
              /\ ops[2 * j - 1].amount = - moves[j].amount
              /\ ops[2 * j].account = moves[j].target
              /\ ops[2 * j].amount = moves[j].amount
  <2>1. CASE j = 1
    <3>1. ops[1] = fees[1] /\ ops[2] = fees[2] /\ 2 * j - 1 = 1 /\ 2 * j = 2
      <4>1. 1 \in 1 .. 2 + 2 * n /\ 2 \in 1 .. 2 + 2 * n
        OBVIOUS
      <4> QED
        BY <1>11, <2>1, <4>1
    <3> QED
      BY <1>2, <1>3, <1>4, <1>10, <2>1, <3>1
  <2>2. CASE j # 1
    <3>1. PICK i \in 1 .. n : j = 1 + i
      <4>1. j - 1 \in 1 .. n /\ j = 1 + (j - 1)
        BY <2>2
      <4> QED
        BY <4>1
    <3>2. /\ 2 * j - 1 \in 1 .. 2 + 2 * n /\ ~ (2 * j - 1 <= 2) /\ (2 * j - 1) - 2 = 2 * i - 1
          /\ 2 * j \in 1 .. 2 + 2 * n /\ ~ (2 * j <= 2) /\ (2 * j) - 2 = 2 * i
      BY <3>1
    <3>3. ops[2 * j - 1] = rest[2 * i - 1] /\ ops[2 * j] = rest[2 * i]
      BY <1>11, <3>2
    <3>4. moves[j] = Carried(e)[i]
      BY <1>3, <3>1
    <3> QED
      BY <1>7, <3>3, <3>4
  <2> QED
    BY <2>1, <2>2
<1>13. Len(ops) = 2 * Len(moves)
  BY <1>3, <1>11
<1>14. Paired(ops, moves)
  BY <1>3, <1>12, <1>13 DEF Paired
<1> QED
  BY <1>3, <1>11, <1>12, <1>14 DEF moves

------------------------------------------------------------------------------
(***************************************************************************)
(* What a block changes in a purse, and the sums of several lists.         *)
(***************************************************************************)

\* A movement adds to what a purse holds.
LEMMA MoveAdds ==
  ASSUME NEW p, NEW m, m.amount \in Int
  PROVE  N!Adds(p, m)
<1>1. PICK a \in Int : a = m.amount
  OBVIOUS
<1> QED
  BY <1>1 DEF N!Adds, AddMove

\* Balances after some movements differ by what these add up to.
LEMMA BalancesMove ==
  ASSUME NEW balance \in Balances, NEW moves \in Seq(Move), NEW p \in Purses
  PROVE  Held(BalanceAfter(balance, moves), p) = Held(balance, p) + Net(moves, p)
<1> DEFINE R == [Purses -> Int \cup {NULL}]
<1>1. PICK f : /\ f[0] = balance /\ B!Folded({}, balance, moves) = f[Len(moves)]
               /\ \A i \in 1 .. Len(moves) : f[i] = MovedBy({}, f[i - 1], moves[i])
  BY B!FoldTrace
<1>2. PICK g : /\ g[0] = 0 /\ N!Folded(p, 0, moves) = g[Len(moves)]
               /\ \A i \in 1 .. Len(moves) : g[i] = AddMove(p, g[i - 1], moves[i])
  BY N!FoldTrace
<1>3. Len(moves) \in Nat /\ balance \in R /\ Held(balance, p) \in Int
  BY DEF Balances, Amounts, Held
<1> DEFINE T == {k \in 0 .. Len(moves) :
                   f[k] \in R /\ g[k] \in Int /\ Held(f[k], p) = Held(balance, p) + g[k]}
<1>4. 0 \in T
  BY <1>1, <1>2, <1>3
<1>5. ASSUME NEW k \in 0 .. Len(moves) - 1, k \in T
      PROVE  k + 1 \in T
  <2>1. PICK j : j = k + 1 /\ j \in 1 .. Len(moves) /\ j - 1 = k /\ j \in 0 .. Len(moves)
    BY <1>3
  <2>2. PICK b \in R : b = f[k]
    BY <1>5
  <2>3. PICK n \in Int : n = g[k] /\ Held(b, p) = Held(balance, p) + n
    BY <1>5, <2>2
  <2>4. moves[j] \in Move
    BY <2>1
  <2>5. PICK a \in Int : a = moves[j].amount
    BY <2>4 DEF Move, Amounts
  <2>6. f[j] = Moved(moves[j], b)
    BY <1>1, <2>1, <2>2 DEF MovedBy
  <2>7. \A q \in Purses : Held(b, q) \in Int
    BY <2>2 DEF Held
  <2>8. f[j] \in R
    BY <2>2, <2>5, <2>6, <2>7 DEF Moved
  <2>9. g[j] = n + (IF moves[j].target = p THEN a ELSE 0)
                 - (IF moves[j].source = p THEN a ELSE 0)
    BY <1>2, <2>1, <2>3, <2>5 DEF AddMove
  <2>10. Held(f[j], p) = Held(b, p) + (IF moves[j].target = p THEN a ELSE 0)
                                    - (IF moves[j].source = p THEN a ELSE 0)
    <3>1. CASE p \notin {moves[j].source, moves[j].target}
      <4>1. f[j][p] = b[p]
        BY <2>6, <3>1 DEF Moved
      <4> QED
        BY <2>7, <3>1, <4>1 DEF Held
    <3>2. CASE p \in {moves[j].source, moves[j].target}
      <4>1. f[j][p] = Held(b, p) + (IF p = moves[j].target THEN a ELSE 0)
                                 - (IF p = moves[j].source THEN a ELSE 0)
        BY <2>5, <2>6, <3>2 DEF Moved
      <4>2. f[j][p] # NULL
        BY <2>5, <2>7, <4>1, NodeAssumption
      <4> QED
        BY <4>1, <4>2 DEF Held
    <3> QED
      BY <3>1, <3>2
  <2>11. g[j] \in Int /\ Held(f[j], p) = Held(balance, p) + g[j]
    BY <1>3, <2>3, <2>7, <2>9, <2>10
  <2> QED
    BY <2>1, <2>8, <2>11
<1> HIDE DEF T
<1>6. T = 0 .. Len(moves)
  BY <1>3, <1>4, <1>5, N!BoundedInduction DEF T
<1>7. Len(moves) \in T
  BY <1>3, <1>6
<1> QED
  BY <1>1, <1>2, <1>7, AfterIsFold, NetIsFold DEF T

\* The movements of a block add up execution by execution.
LEMMA MovementsSum ==
  ASSUME NEW x \in Seq(Execution), NEW k \in Accounts, NEW p, NEW z, NEW f,
         \A i \in 1 .. Len(x) : z[i] = Net(Movements(x[i], k), p), Sums(z, Len(x), f)
  PROVE  Net(AllMovements(x, k), p) = f[Len(x)]
<1> DEFINE row == [i \in DOMAIN x |-> Movements(x[i], k)]
<1>1. DOMAIN x = 1 .. Len(x) /\ Len(x) \in Nat
  OBVIOUS
<1>2. \A i \in 1 .. Len(x) : row[i] = Movements(x[i], k) /\ row[i] \in Seq(Move)
  BY MovementsType
<1>3. row \in Seq(Seq(Move)) /\ Len(row) = Len(x)
  <2>1. row = [i \in 1 .. Len(x) |-> row[i]]
    BY <1>1
  <2> HIDE DEF row
  <2> QED
    BY <1>1, <1>2, <2>1
<1>4. AllMovements(x, k) = FlattenSeq(row)
  BY DEF AllMovements
<1> HIDE DEF row
<1>5. PICK t : /\ t[0] = <<>> /\ FlattenSeq(row) = t[Len(row)]
               /\ \A i \in 1 .. Len(row) : t[i] = Joined({}, t[i - 1], row[i])
  BY <1>3, FlattenTrace
<1>6. \A i \in 1 .. Len(x) : row[i] \in Seq(Move) /\ t[i] = t[i - 1] \o row[i]
  BY <1>2, <1>3, <1>5 DEF Joined
<1>7. N!PartsAdd(p, Len(x), row)
  <2> SUFFICES ASSUME NEW i \in 1 .. Len(x), NEW j \in 1 .. Len(row[i])
               PROVE  N!Adds(p, row[i][j])
    BY DEF N!PartsAdd
  <2>1. PICK r \in Seq(Move) : r = row[i]
    BY <1>6
  <2>2. r[j] \in Move
    BY <2>1
  <2>3. r[j].amount \in Int
    BY <2>2 DEF Move, Amounts
  <2> QED
    BY <2>1, <2>3, MoveAdds
<1>8. N!PartSums(p, Len(x), row, f)
  BY <1>2, NetIsFold DEF Sums, N!PartSums
<1>9. N!Folded(p, 0, t[Len(x)]) = f[Len(x)]
  <2>1. N!Parts(Move, Len(x), row, t)
    BY <1>5, <1>6 DEF N!Parts
  <2> QED
    BY ONLY <1>1, <1>7, <1>8, <2>1, N!FoldOfParts
<1> QED
  BY <1>3, <1>4, <1>5, <1>9, NetIsFold

\* The operations of a block add up transaction by transaction.
Numbered(ops) ==
  (\E T : ops \in Seq(T)) /\ \A q \in 1 .. Len(ops) : ops[q].amount \in Int
Counted(a, m, p, w) ==
  /\ DOMAIN a.txs = 1 .. m
  /\ \A i \in 1 .. m : Numbered(a.txs[i].ops) /\ w[i] = NetOps(a.txs[i].ops, p)

LEMMA OperationsSum ==
  ASSUME NEW a, NEW m \in Nat, NEW p, NEW w, NEW g, Counted(a, m, p, w), Sums(w, m, g)
  PROVE  NetOps(OpsOf(a), p) = g[m]
<1>0. /\ DOMAIN a.txs = 1 .. m
      /\ \A i \in 1 .. m : /\ \E T : a.txs[i].ops \in Seq(T)
                           /\ \A q \in 1 .. Len(a.txs[i].ops) : a.txs[i].ops[q].amount \in Int
                           /\ w[i] = NetOps(a.txs[i].ops, p)
  BY DEF Counted, Numbered
<1> USE <1>0
<1> DEFINE row == [i \in DOMAIN a.txs |-> a.txs[i].ops]
           S == UNION {Range(row[i]) : i \in 1 .. m}
<1>1. row = [i \in 1 .. m |-> row[i]] /\ \A i \in 1 .. m : row[i] = a.txs[i].ops
  OBVIOUS
<1>2. OpsOf(a) = FlattenSeq(row)
  BY DEF OpsOf
<1> HIDE DEF row
<1>3. \A i \in 1 .. m : row[i] \in Seq(S)
  <2> SUFFICES ASSUME NEW i \in 1 .. m PROVE row[i] \in Seq(S)
    OBVIOUS
  <2>1. PICK T : row[i] \in Seq(T)
    BY <1>1
  <2>2. PICK r \in Seq(T) : r = row[i]
    BY <2>1
  <2>3. r = [j \in 1 .. Len(r) |-> r[j]] /\ DOMAIN r = 1 .. Len(r) /\ Len(r) \in Nat
    OBVIOUS
  <2>4. \A j \in 1 .. Len(r) : r[j] \in S
    BY <2>2, <2>3 DEF Range
  <2> HIDE DEF S
  <2>5. r \in Seq(S)
    BY ONLY <2>3, <2>4
  <2> QED
    BY <2>2, <2>5
<1> HIDE DEF S
<1>4. row \in Seq(Seq(S)) /\ Len(row) = m
  BY <1>1, <1>3
<1>5. PICK t : /\ t[0] = <<>> /\ FlattenSeq(row) = t[Len(row)]
               /\ \A i \in 1 .. Len(row) : t[i] = Joined({}, t[i - 1], row[i])
  BY ONLY <1>4, FlattenTrace
<1>6. \A i \in 1 .. m : row[i] \in Seq(S) /\ t[i] = t[i - 1] \o row[i]
  BY <1>3, <1>4, <1>5 DEF Joined
<1>7. O!PartsAdd(p, m, row)
  <2> SUFFICES ASSUME NEW i \in 1 .. m, NEW j \in 1 .. Len(row[i])
               PROVE  O!Adds(p, row[i][j])
    BY DEF O!PartsAdd
  <2>1. PICK b \in Int : b = row[i][j].amount
    BY <1>1
  <2> QED
    BY <2>1 DEF O!Adds, AddOp
<1>8. O!PartSums(p, m, row, g)
  BY <1>1, NetOpsIsFold DEF Sums, O!PartSums
<1>9. O!Folded(p, 0, t[m]) = g[m]
  <2>1. O!Parts(S, m, row, t)
    BY <1>5, <1>6 DEF O!Parts
  <2> QED
    BY ONLY m \in Nat, <1>7, <1>8, <2>1, O!FoldOfParts
<1> QED
  BY <1>2, <1>4, <1>5, <1>9, NetOpsIsFold
=============================================================================
