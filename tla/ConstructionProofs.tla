------------------------- MODULE ConstructionProofs -------------------------
(***************************************************************************)
(* Construction implements TransferIntent, for every list of operations,   *)
(* every key and whatever a caller loses on the way.                       *)
(*                                                                         *)
(* The intent is read once, by preprocess; what ties the parameters that   *)
(* payloads builds to it three calls later is IInv: the options are those  *)
(* of asserted operations, and the metadata is the options, less what was  *)
(* lost.                                                                   *)
(***************************************************************************)
EXTENDS Construction, TLAPS

Taken ==
  [type : STRING, index : Nat, key : Keys \cup {NULL}, account : STRING \cup {NULL},
   value : Values \cup {NULL}, transfer_id : Json \cup {NULL}]

\* An account comes from a key only.
Derived(op) == op.account # NULL => op.key # NULL /\ op.account = Address(op.key)

IInv ==
  /\ operations \in Seq(Taken) /\ \A i \in DOMAIN operations : Derived(operations[i])
  /\ step \in {"start", "preprocessed", "prepared", "payloads", "combined"}
  /\ step # "start" => Asserted(operations) /\ options = OptionsOf(operations, Network)
  /\ step \in {"prepared", "payloads", "combined"} =>
       \A f \in Fields : metadata[f] \in {NULL, options[f]}
  /\ params # NULL <=> step \in {"payloads", "combined"}

------------------------------------------------------------------------------
\* Every operation of an intent is one with an account to come.
LEMMA OperationIsTaken == Operation \subseteq Taken
BY DEF Operation, Taken

\* The operations are typed one by one, and NULL is no text.
LEMMA EachIsTaken ==
  ASSUME NEW ops \in Seq(Taken)
  PROVE  /\ DOMAIN ops = 1 .. Len(ops) /\ Len(ops) \in Nat
         /\ \A i \in DOMAIN ops : ops[i] \in Taken
OBVIOUS

LEMMA NullIsNoText ==
  /\ NULL \notin STRING /\ NULL \notin Keys /\ NULL \notin Json
  /\ NULL \notin Outcomes /\ NULL # Network /\ NULL # "1" /\ NULL # NoAddress
BY ConstructionAssumption

LEMMA InitIInv == Init => IInv
<1> SUFFICES ASSUME Init PROVE IInv
  OBVIOUS
<1>1. operations \in Seq(Operation)
  BY ConstructionAssumption DEF Init
<1>2. operations \in Seq(Taken)
  BY <1>1, OperationIsTaken
<1>3. \A i \in DOMAIN operations : operations[i].account = NULL
  <2>1. \A i \in DOMAIN operations : operations[i] \in Operation
    BY <1>1
  <2> QED
    BY <2>1 DEF Operation
<1> QED
  BY <1>2, <1>3 DEF Init, IInv, Derived

\* Derive gives one operation its account and keeps the intent, and a curve that
\* is turned away changes nothing of it.
LEMMA DeriveKeeps ==
  ASSUME IInv, NEW i \in DOMAIN operations, ConstructionDerive(i)
  PROVE  IInv' /\ Intent' = Intent
<1>0. CASE operations[i].key.curve \notin Curves
  BY <1>0 DEF IInv, Intent, ConstructionDerive, Fail, At
<1> SUFFICES ASSUME operations[i].key.curve \in Curves PROVE IInv' /\ Intent' = Intent
  BY <1>0
<1> DEFINE a == Address(operations[i].key)
<1>1. operations[i] \in Taken /\ operations[i].key \in Keys
  <2>1. operations[i] \in Taken /\ operations[i].key # NULL
    BY EachIsTaken DEF IInv, ConstructionDerive, Underived
  <2> QED
    BY <2>1 DEF Taken
<1>2. a \in STRING
  <2>1. operations[i].key.account \in STRING
    BY <1>1, ConstructionAssumption
  <2> QED
    BY <2>1, ConstructionAssumption DEF Address
<1>3. [operations[i] EXCEPT !.account = a] \in Taken
  BY <1>1, <1>2 DEF Taken
<1>4. operations' = [operations EXCEPT ![i] = [operations[i] EXCEPT !.account = a]]
  BY DEF ConstructionDerive
<1>5. operations' \in Seq(Taken) /\ DOMAIN operations' = DOMAIN operations
  BY <1>3, <1>4 DEF IInv
<1>6. \A j \in DOMAIN operations : operations[j] \in Taken
  BY DEF IInv
<1>7. \A j \in DOMAIN operations' : Derived(operations'[j])
  BY <1>1, <1>4, <1>5, <1>6, ConstructionAssumption DEF IInv, Derived, Taken
<1>8. \A j \in DOMAIN operations :
        [operations'[j] EXCEPT !.account = NULL] = [operations[j] EXCEPT !.account = NULL]
  BY <1>1, <1>4, <1>5, <1>6 DEF Taken
<1> QED
  BY <1>5, <1>7, <1>8 DEF IInv, Intent, ConstructionDerive, At

------------------------------------------------------------------------------
(***************************************************************************)
(* The parameters mean what the intent means.                              *)
(***************************************************************************)

\* In a list that the asserter let through, what preprocess finds at an index
\* is the operation at that position.
LEMMA LastIsAtItsPosition ==
  ASSUME NEW ops \in Seq(Taken), Asserted(ops), NEW k \in {0, 1},
         LastAt(ops, k).account # NULL
  PROVE  k + 1 \in 1 .. Len(ops) /\ LastAt(ops, k) = ops[k + 1]
<1> DEFINE found == {i \in DOMAIN ops : ops[i].index = k}
<1>1. found # {}
  <2> SUFFICES ASSUME found = {} PROVE LastAt(ops, k).account = NULL
    OBVIOUS
  <2>1. LastAt(ops, k) = [account |-> NULL, value |-> NULL, transfer_id |-> NULL]
    BY DEF LastAt
  <2> QED
    BY <2>1
<1>2. \A i \in found : i = k + 1
  <2>1. \A i \in DOMAIN ops : ops[i].index = i - 1
    BY DEF Asserted
  <2> QED
    BY <2>1, EachIsTaken
<1>3. found = {k + 1}
  BY <1>1, <1>2
<1>4. Max(found) = k + 1
  BY <1>3 DEF Max
<1> QED
  BY <1>1, <1>3, <1>4 DEF LastAt

\* Its intent is the caller's list, operation by operation.
LEMMA IntentOf ==
  ASSUME IInv
  PROVE  /\ Intent \in Seq(Taken) /\ Len(Intent) = Len(operations)
         /\ \A i \in 1 .. Len(operations) :
              /\ Intent[i].key = operations[i].key /\ Intent[i].value = operations[i].value
              /\ Intent[i].transfer_id = operations[i].transfer_id
<1> DEFINE n == Len(operations)
<1>0. operations \in Seq(Taken) /\ n \in Nat /\ DOMAIN operations = 1 .. n
      /\ \A i \in 1 .. n : operations[i] \in Taken
  BY EachIsTaken DEF IInv
<1>1. \A i \in 1 .. n :
        /\ [operations[i] EXCEPT !.account = NULL] \in Taken
        /\ [operations[i] EXCEPT !.account = NULL].key = operations[i].key
        /\ [operations[i] EXCEPT !.account = NULL].value = operations[i].value
        /\ [operations[i] EXCEPT !.account = NULL].transfer_id = operations[i].transfer_id
  BY <1>0 DEF Taken
<1>2. Intent = [i \in 1 .. n |-> [operations[i] EXCEPT !.account = NULL]]
  BY <1>0 DEF Intent
<1>3. Intent \in Seq(Taken) /\ Len(Intent) = n
  BY <1>0, <1>1, <1>2
<1> QED
  BY <1>0, <1>1, <1>2, <1>3

\* What payloads does not refuse are six strings, of which one is a number.
LEMMA NotRefused ==
  ASSUME NEW m, PayloadsFails(m) = NULL
  PROVE  /\ \A f \in Fields : IsString(m[f])
         /\ m["transfer_id"].text \in DOMAIN Numerals
<1>1. "panic" # NULL /\ "UnableToParseIntermediateResult" # NULL
  BY NullIsNoText DEF Outcomes
<1>2. IsString(m["transfer_id"]) /\ m["transfer_id"].text \in DOMAIN Numerals
  BY <1>1 DEF PayloadsFails
<1> QED
  BY <1>1, <1>2 DEF PayloadsFails

\* What payloads does not refuse is an intent it can tell, and it tells it.
LEMMA PayloadsMeansIt ==
  ASSUME IInv, step = "prepared", PayloadsFails(Without(metadata, lost)) = NULL
  PROVE  T!Clear /\ DeployParams(Without(metadata, lost)) \in T!Meanings \cap Params
<1> DEFINE m == Without(metadata, lost)
<1>1. /\ \A f \in Fields : IsString(m[f])
      /\ m["transfer_id"].text \in DOMAIN Numerals
  BY NotRefused
<1>2. \A f \in Fields : m[f] = options[f]
  BY <1>1 DEF IInv, Without, IsString
<1>3. Asserted(operations) /\ options = OptionsOf(operations, Network) /\ operations \in Seq(Taken)
  BY DEF IInv
<1>4. /\ LastAt(operations, 0).account # NULL /\ LastAt(operations, 1).account # NULL
      /\ LastAt(operations, 1).value # NULL /\ LastAt(operations, 1).transfer_id # NULL
  BY <1>1, <1>2, <1>3 DEF OptionsOf, Str, IsString, Fields
<1>5. /\ Len(operations) >= 2
      /\ LastAt(operations, 0) = operations[1] /\ LastAt(operations, 1) = operations[2]
  BY <1>3, <1>4, LastIsAtItsPosition
<1>6. /\ m["chain_name"].text = Network /\ m["gas_price"].text = "1"
      /\ m["source_addr"].text = operations[1].account
      /\ m["target_addr"].text = operations[2].account
      /\ m["transfer_amount"].text = operations[2].value
      /\ m["transfer_id"] = operations[2].transfer_id
  <2>1. Network # NULL /\ "1" # NULL
    BY NullIsNoText
  <2>2. /\ m["chain_name"] = Str(Network) /\ m["gas_price"] = Str("1")
        /\ m["source_addr"] = Str(operations[1].account)
        /\ m["target_addr"] = Str(operations[2].account)
        /\ m["transfer_amount"] = Str(operations[2].value)
        /\ m["transfer_id"] = operations[2].transfer_id
    BY <1>2, <1>3, <1>5 DEF OptionsOf, Fields
  <2> HIDE DEF m
  <2> QED
    BY <1>4, <1>5, <2>1, <2>2 DEF Str
<1>7. /\ operations[1].key # NULL /\ operations[1].account = Address(operations[1].key)
      /\ operations[2].key # NULL /\ operations[2].account = Address(operations[2].key)
  BY <1>3, <1>4, <1>5 DEF IInv, Derived
<1>0. /\ 1 \in DOMAIN operations /\ 2 \in DOMAIN operations
      /\ \A i \in DOMAIN operations :
           operations[i].value # NULL => operations[i].account \notin {NULL, NoAddress}
  BY <1>3, <1>5, EachIsTaken DEF Asserted
<1>8. operations[2].account = operations[2].key.account
  BY <1>0, <1>4, <1>5, <1>7 DEF Address
<1>9. operations[1].account \in T!Senders
  <2>1. Intent[1].key = operations[1].key /\ Intent[1].value = operations[1].value
    BY <1>0, <1>3, EachIsTaken, IntentOf
  <2> QED
    BY <1>0, <1>7, <2>1 DEF Address, T!Senders
<1>10. T!Clear
  BY <1>1, <1>4, <1>5, <1>6, <1>7, IntentOf DEF T!Clear, IsString, Fields
<1>11. DeployParams(m) \in T!Meanings
  BY <1>5, <1>6, <1>8, <1>9, IntentOf DEF T!Meanings, DeployParams
<1>12. DeployParams(m) \in Params
  <2>1. operations[1] \in Taken /\ operations[2] \in Taken
    BY <1>3, <1>5
  <2>2. /\ operations[1].account \in STRING /\ operations[2].account \in STRING
        /\ operations[2].value \in STRING
    BY <1>4, <1>5, <2>1, ConstructionAssumption DEF Taken
  <2> QED
    BY <1>1, <1>6, <2>2, ConstructionAssumption DEF DeployParams, Params
<1> QED
  BY <1>10, <1>11, <1>12

------------------------------------------------------------------------------
LEMMA NextIInv == IInv /\ [Next]_vars => IInv'
<1> SUFFICES ASSUME IInv, [Next]_vars PROVE IInv'
  OBVIOUS
<1>1. ASSUME NEW i \in DOMAIN operations, ConstructionDerive(i) PROVE IInv'
  BY <1>1, DeriveKeeps
<1>2. CASE ConstructionPreprocess
  BY <1>2 DEF ConstructionPreprocess, At, Fail, Pass, IInv
<1>3. CASE ConstructionMetadata
  BY <1>3 DEF ConstructionMetadata, At, Fail, Pass, Without, IInv
<1>4. CASE ConstructionPayloads
  <2>1. CASE PayloadsFails(Without(metadata, lost)) # NULL
    BY <1>4, <2>1 DEF ConstructionPayloads, At, Fail, IInv
  <2>2. CASE PayloadsFails(Without(metadata, lost)) = NULL
    <3>1. params' # NULL
      BY <1>4, <2>2, PayloadsMeansIt, ConstructionAssumption DEF ConstructionPayloads, At
    <3> QED
      BY <1>4, <2>2, <3>1 DEF ConstructionPayloads, At, Pass, IInv
  <2> QED
    BY <2>1, <2>2
<1>5. CASE ConstructionCombine
  BY <1>5 DEF ConstructionCombine, At, Fail, Pass, IInv
<1>6. CASE (\E f \in MayLose : Lose(f)) \/ UNCHANGED vars
  BY <1>6 DEF Lose, vars, IInv
<1> QED
  BY <1>1, <1>2, <1>3, <1>4, <1>5, <1>6 DEF Next

------------------------------------------------------------------------------
(***************************************************************************)
(* Every call is a step of TransferIntent, or none.                        *)
(***************************************************************************)
LEMMA StepOfIntent == IInv /\ IInv' /\ [Next]_vars => [T!Build \/ T!Refuse]_(T!vars)
<1> SUFFICES ASSUME IInv, IInv', [Next]_vars PROVE [T!Build \/ T!Refuse]_(T!vars)
  OBVIOUS
<1>1. ASSUME UNCHANGED <<operations, params, outcome>>
      PROVE  UNCHANGED T!vars
  BY <1>1 DEF T!vars, Intent, Fate
<1>2. ASSUME UNCHANGED <<operations, params>>, params = NULL, outcome = NULL, outcome' # NULL
      PROVE  T!Refuse
  BY <1>2 DEF T!Refuse, Intent, Fate
<1>3. ASSUME UNCHANGED <<operations, params>>, params # NULL
      PROVE  UNCHANGED T!vars
  BY <1>3 DEF T!vars, Intent, Fate
<1>4. ASSUME NEW i \in DOMAIN operations, ConstructionDerive(i)
      PROVE  T!Refuse \/ UNCHANGED T!vars
  <2>1. /\ params = NULL /\ outcome = NULL /\ UNCHANGED params
    BY <1>4 DEF ConstructionDerive, At, IInv
  <2>2. CASE operations[i].key.curve \notin Curves
    BY <1>2, <1>4, <2>1, <2>2, NullIsNoText DEF ConstructionDerive, Fail, Outcomes
  <2>3. CASE operations[i].key.curve \in Curves
    BY <1>4, <2>1, <2>3, DeriveKeeps DEF ConstructionDerive, T!vars, Fate
  <2> QED
    BY <2>2, <2>3
<1>5. CASE ConstructionPreprocess
  BY <1>1, <1>2, <1>5, ConstructionAssumption DEF ConstructionPreprocess, At, Fail, Pass, IInv
<1>6. CASE ConstructionMetadata
  BY <1>1, <1>2, <1>6, ConstructionAssumption DEF ConstructionMetadata, At, Fail, Pass, IInv
<1>7. CASE ConstructionPayloads
  <2> DEFINE m == Without(metadata, lost)
  <2>1. /\ step = "prepared" /\ outcome = NULL /\ params = NULL
        /\ UNCHANGED operations
    BY <1>7 DEF ConstructionPayloads, At, IInv
  <2>2. CASE PayloadsFails(m) # NULL
    BY <1>2, <1>7, <2>1, <2>2 DEF ConstructionPayloads, Fail
  <2>3. CASE PayloadsFails(m) = NULL
    <3>1. params' = DeployParams(m)
      BY <1>7, <2>3 DEF ConstructionPayloads
    <3>2. T!Clear /\ params' \in T!Meanings /\ params' # NULL
      BY <2>1, <2>3, <3>1, PayloadsMeansIt, ConstructionAssumption
    <3> QED
      BY <2>1, <3>2 DEF T!Build, Intent, Fate
  <2> QED
    BY <2>2, <2>3
<1>8. CASE ConstructionCombine
  BY <1>3, <1>8 DEF ConstructionCombine, At, IInv
<1>9. CASE (\E f \in MayLose : Lose(f)) \/ UNCHANGED vars
  BY <1>1, <1>9 DEF Lose, vars
<1> QED
  BY <1>4, <1>5, <1>6, <1>7, <1>8, <1>9 DEF Next

(***************************************************************************)
(* Whatever derive makes of the keys, whatever the caller loses and at     *)
(* which call he is refused, the parameters that payloads hands to         *)
(* NewDeploy are those his operations mean, and the decision is made once  *)
(* (construction_service.go:59-187).                                       *)
(***************************************************************************)
THEOREM PipelineKeepsIntent == Spec => ImplementsIntent
<1>1. Init => T!Init
  BY DEF Init, T!Init, Fate
<1> QED
  BY <1>1, InitIInv, NextIInv, StepOfIntent, PTL DEF Spec, ImplementsIntent, T!Spec

------------------------------------------------------------------------------
(***************************************************************************)
(* A clear intent is never refused.  That payloads finds six strings needs *)
(* to know that metadata are the options, if nothing is lost, and what     *)
(* preprocess made of a transfer.                                          *)
(***************************************************************************)
ClearIntent ==
  IsTransfer(operations) /\ IsNumeral(operations[2].transfer_id) /\ lost = {}

SurvivesInv ==
  /\ IInv /\ IntentSurvives
  /\ lost = {} /\ step \in {"prepared", "payloads", "combined"} =>
       \A f \in Fields : metadata[f] = options[f]

RequireOf(p, senders, op) == Require(senders, op)
R == INSTANCE FoldProofs WITH Op <- RequireOf

LEMMA SendersIsFold ==
  ASSUME NEW ops
  PROVE  Senders(ops) = R!Folded({}, <<>>, ops)
BY DEF Senders, RequireOf, R!Folded, FoldLeft, MapThenFoldSet, Max, R!FoldLeft,
   R!MapThenFoldSet, R!Max

\* Of a transfer the first account is the sender's.
LEMMA SenderOfTransfer ==
  ASSUME NEW ops \in Seq(Taken), IsTransfer(ops)
  PROVE  Senders(ops) = <<ops[1].account>>
<1>1. PICK f : /\ f[0] = <<>> /\ R!Folded({}, <<>>, ops) = f[Len(ops)]
               /\ \A i \in 1 .. Len(ops) : f[i] = RequireOf({}, f[i - 1], ops[i])
  BY R!FoldTrace
<1>2. Len(ops) = 2 /\ ops[1].index = 0 /\ ops[2].index = 1
  <2>1. Len(ops) = 2 /\ ops[1].index = 1 - 1 /\ ops[2].index = 2 - 1
    BY DEF IsTransfer
  <2> QED
    BY <2>1
<1>3. f[1] = RequireOf({}, f[0], ops[1]) /\ f[2] = RequireOf({}, f[1], ops[2])
  <2>1. 1 \in 1 .. Len(ops) /\ 2 \in 1 .. Len(ops) /\ 1 - 1 = 0 /\ 2 - 1 = 1
    BY <1>2
  <2> QED
    BY <1>1, <2>1
<1>4. f[1] = <<ops[1].account>>
  BY <1>1, <1>2, <1>3 DEF RequireOf, Require
<1>5. f[2] = f[1]
  BY <1>2, <1>3 DEF RequireOf, Require
<1> QED
  BY <1>1, <1>2, <1>4, <1>5, SendersIsFold

\* A transfer whose keys have been derived: its accounts are those of its keys.
LEMMA TransferIsDerived ==
  ASSUME IInv, IsTransfer(operations), \A i \in DOMAIN operations : ~ Underived(i)
  PROVE  /\ Asserted(operations) /\ ~ NilIn(operations)
         /\ operations[1].account = operations[1].key.account
<1>1. /\ operations \in Seq(Taken) /\ Len(operations) = 2 /\ DOMAIN operations = {1, 2}
      /\ \A i \in {1, 2} : operations[i] \in Taken
  <2>1. operations \in Seq(Taken) /\ Len(operations) = 2
    BY DEF IInv, IsTransfer
  <2>2. DOMAIN operations = 1 .. 2 /\ \A i \in 1 .. 2 : operations[i] \in Taken
    BY <2>1, EachIsTaken
  <2> QED
    BY <2>1, <2>2
<1>2. ASSUME NEW i \in {1, 2}
      PROVE  /\ operations[i].index = i - 1 /\ operations[i].type = "TRANSFER"
             /\ operations[i].value # NULL
             /\ operations[i].account = operations[i].key.account
             /\ operations[i].account \notin {NULL, NoAddress}
  <2>1. operations[i].index = i - 1 /\ operations[i].type = "TRANSFER"
        /\ Complete(operations[i])
    BY DEF IsTransfer
  <2>2. operations[i].key # NULL /\ operations[i].key.curve \in Tags
        /\ operations[i].value # NULL
    BY <2>1 DEF Complete
  <2>3. operations[i].account # NULL
    BY <1>1, <2>2 DEF Underived
  <2>4. operations[i].account = Address(operations[i].key)
    BY <1>1, <2>3 DEF IInv, Derived
  <2>5. operations[i].account = operations[i].key.account
    BY <2>2, <2>4 DEF Address
  <2>6. operations[i].key \in Keys
    BY <1>1, <2>2 DEF Taken
  <2>7. operations[i].key.account # NoAddress
    BY <2>6, ConstructionAssumption
  <2> QED
    BY <2>1, <2>2, <2>3, <2>5, <2>7
<1>3. Asserted(operations)
  BY <1>1, <1>2 DEF Asserted, Types
<1>4. ~ NilIn(operations)
  BY <1>1, <1>2 DEF NilIn
<1> QED
  BY <1>2, <1>3, <1>4

\* Nothing of what was prepared for it can be refused.
LEMMA NothingIsRefused ==
  ASSUME SurvivesInv, ClearIntent, step = "prepared"
  PROVE  PayloadsFails(Without(metadata, lost)) = NULL
<1> DEFINE m == Without(metadata, lost)
<1>1. /\ operations \in Seq(Taken) /\ Asserted(operations)
      /\ options = OptionsOf(operations, Network)
      /\ IsTransfer(operations) /\ lost = {} /\ IsNumeral(operations[2].transfer_id)
      /\ \A f \in Fields : metadata[f] = options[f]
  BY DEF SurvivesInv, IInv, ClearIntent
<1>2. \A f \in Fields : m[f] = options[f]
  BY <1>1 DEF Without
<1>3. Len(operations) = 2 /\ operations[1] \in Taken /\ operations[2] \in Taken
      /\ operations[1].value # NULL /\ operations[2].value # NULL
  <2>1. Len(operations) = 2 /\ Complete(operations[1]) /\ Complete(operations[2])
    BY <1>1 DEF IsTransfer
  <2>2. DOMAIN operations = 1 .. 2 /\ \A i \in 1 .. 2 : operations[i] \in Taken
    BY <1>1, <2>1, EachIsTaken
  <2> QED
    BY <2>1, <2>2 DEF Complete
<1>4. operations[1].account # NULL /\ operations[2].account # NULL
  <2>1. 1 \in DOMAIN operations /\ 2 \in DOMAIN operations
    BY <1>1, <1>3
  <2> QED
    BY <1>1, <1>3, <2>1 DEF Asserted
<1>5. LastAt(operations, 0) = operations[1] /\ LastAt(operations, 1) = operations[2]
  <2>1. ASSUME NEW k \in {0, 1}
        PROVE  LastAt(operations, k) = operations[k + 1]
    <3>1. {i \in DOMAIN operations : operations[i].index = k} = {k + 1}
      <4>1. DOMAIN operations = 1 .. 2 /\ \A i \in DOMAIN operations : operations[i].index = i - 1
        BY <1>1, <1>3 DEF Asserted
      <4> QED
        BY <4>1
    <3>2. Max({k + 1}) = k + 1
      BY DEF Max
    <3> QED
      BY <3>1, <3>2 DEF LastAt
  <2> QED
    BY <2>1
<1>6. \A f \in Fields : IsString(options[f])
  <2>1. \A t \in STRING : IsString(Str(t))
    <3> SUFFICES ASSUME NEW t \in STRING PROVE IsString(Str(t))
      OBVIOUS
    <3>1. Str(t) = [json |-> "string", text |-> t]
      BY NullIsNoText DEF Str
    <3>2. Str(t) # NULL
      BY <3>1, ConstructionAssumption
    <3> QED
      BY <3>1, <3>2 DEF IsString
  <2>2. /\ Network \in STRING /\ "1" \in STRING /\ operations[2].value \in STRING
        /\ operations[1].account \in STRING /\ operations[2].account \in STRING
    BY <1>3, <1>4, ConstructionAssumption DEF Taken
  <2>3. IsString(operations[2].transfer_id)
    BY <1>1 DEF IsNumeral
  <2> QED
    BY <1>1, <1>5, <2>1, <2>2, <2>3 DEF OptionsOf, Fields
<1>7. options["transfer_id"].text \in DOMAIN Numerals
  BY <1>1, <1>5 DEF OptionsOf, IsNumeral
<1> HIDE DEF m
<1>8. \A f \in Fields : IsString(m[f])
  BY <1>2, <1>6
<1>9. IsString(m["transfer_id"]) /\ m["transfer_id"].text \in DOMAIN Numerals
  BY <1>2, <1>7, <1>8 DEF Fields
<1>10. PayloadsFails(m) = NULL
  BY <1>8, <1>9 DEF PayloadsFails
<1> QED
  BY <1>10 DEF m

LEMMA InitSurvives == Init => SurvivesInv
<1> SUFFICES ASSUME Init PROVE SurvivesInv
  OBVIOUS
<1>1. step = "start" /\ outcome = NULL
  BY DEF Init
<1> QED
  BY <1>1, InitIInv DEF SurvivesInv, IntentSurvives

\* A step keeps what the intent says, and the caller never finds what he lost.
LEMMA ClearBefore ==
  ASSUME IInv, [Next]_vars, ClearIntent'
  PROVE  ClearIntent /\ operations'[1].key = operations[1].key
<1>1. operations \in Seq(Taken)
  BY DEF IInv
<1>2. lost = {}
  <2>1. lost' = {}
    BY DEF ClearIntent
  <2>2. UNCHANGED lost \/ \E f \in MayLose : lost' = lost \cup {f}
    BY DEF Next, ConstructionDerive, ConstructionPreprocess, ConstructionMetadata,
       ConstructionPayloads, ConstructionCombine, Lose, vars
  <2> QED
    BY <2>1, <2>2
<1>3. Len(operations') = Len(operations) /\ DOMAIN operations = 1 .. Len(operations)
      /\ \A i \in DOMAIN operations :
           /\ operations'[i].index = operations[i].index
           /\ operations'[i].type = operations[i].type
           /\ operations'[i].key = operations[i].key
           /\ operations'[i].value = operations[i].value
           /\ operations'[i].transfer_id = operations[i].transfer_id
  <2>1. CASE UNCHANGED operations
    BY <1>1, <2>1
  <2>2. ASSUME NEW j \in DOMAIN operations, ConstructionDerive(j)
        PROVE  /\ Len(operations') = Len(operations)
               /\ \A i \in DOMAIN operations :
                    /\ operations'[i].index = operations[i].index
                    /\ operations'[i].type = operations[i].type
                    /\ operations'[i].key = operations[i].key
                    /\ operations'[i].value = operations[i].value
                    /\ operations'[i].transfer_id = operations[i].transfer_id
    <3>1. \A i \in DOMAIN operations : operations[i] \in Taken
      BY <1>1
    <3>2. \/ UNCHANGED operations
          \/ operations' = [operations EXCEPT ![j].account = Address(operations[j].key)]
      BY <2>2 DEF ConstructionDerive
    <3>3. CASE UNCHANGED operations
      BY <1>1, <3>3
    <3>4. CASE operations' = [operations EXCEPT ![j].account = Address(operations[j].key)]
      BY <1>1, <3>1, <3>4 DEF Taken
    <3> QED
      BY <3>2, <3>3, <3>4
  <2> QED
    BY <2>1, <2>2 DEF Next, ConstructionPreprocess, ConstructionMetadata,
       ConstructionPayloads, ConstructionCombine, Lose, vars
<1>4. IsTransfer(operations') /\ IsNumeral(operations'[2].transfer_id)
  BY DEF ClearIntent, IsTransfer
<1>5. Len(operations) = 2 /\ 1 \in DOMAIN operations /\ 2 \in DOMAIN operations
  BY <1>3, <1>4 DEF IsTransfer
<1>6. IsTransfer(operations)
  BY <1>3, <1>4, <1>5 DEF IsTransfer, Complete
<1>7. IsNumeral(operations[2].transfer_id)
  BY <1>3, <1>4, <1>5
<1> QED
  BY <1>2, <1>3, <1>5, <1>6, <1>7 DEF ClearIntent

\* With nothing lost, metadata is what preprocess returned.
LEMMA MetadataIsWhole ==
  ASSUME SurvivesInv, [Next]_vars, lost' = {},
         step' \in {"prepared", "payloads", "combined"}
  PROVE  \A f \in Fields : metadata'[f] = options'[f]
<1>1. lost = {}
  BY DEF Next, ConstructionDerive, ConstructionPreprocess, ConstructionMetadata,
     ConstructionPayloads, ConstructionCombine, Lose, vars
<1>2. CASE ConstructionMetadata
  BY <1>1, <1>2 DEF SurvivesInv, ConstructionMetadata, At, Fail, Pass, Without
<1>3. CASE ~ ConstructionMetadata
  <2>1. \/ UNCHANGED <<options, metadata>> /\ step \in {"prepared", "payloads", "combined"}
        \/ step' \notin {"prepared", "payloads", "combined"}
    BY <1>3 DEF Next, ConstructionDerive, ConstructionPreprocess, ConstructionPayloads,
       ConstructionCombine, Lose, vars, At, Fail, Pass
  <2> QED
    BY <1>1, <2>1 DEF SurvivesInv
<1> QED
  BY <1>2, <1>3

LEMMA NextSurvives == SurvivesInv /\ [Next]_vars => SurvivesInv'
<1> SUFFICES ASSUME SurvivesInv, [Next]_vars PROVE SurvivesInv'
  OBVIOUS
<1>1. IInv /\ IInv'
  BY NextIInv DEF SurvivesInv
<1>2. ASSUME ClearIntent'
      PROVE  /\ outcome' \in {NULL, "UnavailableOffline"}
             /\ step' # "start" => required' = <<operations'[1].key.account>>
  <2>1. /\ ClearIntent /\ operations'[1].key = operations[1].key
        /\ IsTransfer(operations) /\ lost = {}
    BY <1>1, <1>2, ClearBefore DEF ClearIntent
  <2>2. /\ outcome \in {NULL, "UnavailableOffline"}
        /\ step # "start" => required = <<operations[1].key.account>>
    BY <2>1 DEF SurvivesInv, IntentSurvives, ClearIntent
  <2>3. CASE ConstructionPreprocess
    <3>1. /\ Asserted(operations) /\ ~ NilIn(operations)
          /\ operations[1].account = operations[1].key.account
      BY <1>1, <2>1, <2>3, TransferIsDerived DEF ConstructionPreprocess
    <3>2. Senders(operations) = <<operations[1].account>>
      BY <1>1, <2>1, SenderOfTransfer DEF IInv
    <3> QED
      BY <2>1, <2>2, <2>3, <3>1, <3>2 DEF ConstructionPreprocess, Pass
  <2>4. CASE ConstructionPayloads
    <3>1. PayloadsFails(Without(metadata, lost)) = NULL
      BY <2>1, <2>4, NothingIsRefused DEF ConstructionPayloads, At
    <3> QED
      BY <2>1, <2>2, <2>4, <3>1 DEF ConstructionPayloads, Pass, At
  <2>5. CASE ConstructionMetadata
    BY <2>1, <2>2, <2>5 DEF ConstructionMetadata, Pass, Fail, At
  <2>6. CASE ConstructionCombine
    BY <2>1, <2>2, <2>6 DEF ConstructionCombine, Pass, At
  <2>7. ASSUME UNCHANGED <<outcome, step, required>>
        PROVE  /\ outcome' \in {NULL, "UnavailableOffline"}
               /\ step' # "start" => required' = <<operations'[1].key.account>>
    BY <2>1, <2>2, <2>7
  <2>8. ASSUME NEW i \in DOMAIN operations, ConstructionDerive(i)
        PROVE  UNCHANGED <<outcome, step, required>>
    <3>1. operations[i].key.curve \in Curves
      BY <1>1, <2>1, <2>8, EachIsTaken DEF IInv, IsTransfer, Complete
    <3> QED
      BY <2>8, <3>1 DEF ConstructionDerive
  <2>9. CASE (\E f \in MayLose : Lose(f)) \/ UNCHANGED vars
    BY <2>7, <2>9 DEF Lose, vars
  <2> QED
    BY <2>3, <2>4, <2>5, <2>6, <2>7, <2>8, <2>9 DEF Next
<1>3. IntentSurvives'
  BY <1>2 DEF IntentSurvives, ClearIntent
<1> QED
  BY <1>1, <1>3, MetadataIsWhole DEF SurvivesInv

(***************************************************************************)
(* A transfer that loses nothing on its way is built, its sender alone is  *)
(* asked for a key, and only being offline can stop it                     *)
(* (construction_service.go:59-150).                                       *)
(***************************************************************************)
THEOREM TransferGoesThrough == Spec => []IntentSurvives
<1>1. SurvivesInv => IntentSurvives
  BY DEF SurvivesInv
<1> QED
  BY <1>1, InitSurvives, NextSurvives, PTL DEF Spec
=============================================================================
