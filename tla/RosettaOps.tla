----------------------------- MODULE RosettaOps -----------------------------
(***************************************************************************)
(* The Rosetta operations of one deploy, as CreateRosTransaction of        *)
(* casper/client.go writes them: a pair of fee operations and, if the      *)
(* deploy succeeded, a pair of operations for each transfer handed to it.  *)
(* Amounts are integers, a decimal string with a "-" in front being the    *)
(* negated number.                                                         *)
(***************************************************************************)
EXTENDS Integers, Sequences

FeeOpType == "FEE"
TransferOpType == "TRANSFER"
SuccessStatus == "SUCCESS"
FailureStatus == "FAILURE"

\* A uref loses its access rights: an operation names the bare purse.
PurseWithoutIndex(uref) == uref.purse

\* Mutant: the payment amount is not looked at.
Fee_cost(deploy) == deploy.cost

\* The amount the two fee operations move.
Fee(deploy) ==
  IF deploy.ok /\ deploy.payment # 0 THEN deploy.payment ELSE deploy.cost

FeeOps(deploy, signer, validator) ==
  LET status == IF deploy.ok THEN SuccessStatus ELSE FailureStatus
      op(i, related, purse, amount) ==
        [index |-> i, related |-> related, type |-> FeeOpType, status |-> status,
         account |-> PurseWithoutIndex(purse), amount |-> amount]
  IN  <<op(0, {}, signer, - Fee(deploy)), op(1, {0}, validator, Fee(deploy))>>

TransferOp(i, purse, amount) ==
  [index |-> i, related |-> {}, type |-> TransferOpType, status |-> SuccessStatus,
   account |-> PurseWithoutIndex(purse), amount |-> amount]

\* Positions 2k - 1 and 2k hold the source's and the target's side of transfer k.
TransferOps(transfers) ==
  [n \in 1 .. 2 * Len(transfers) |->
     LET tx == transfers[(n + 1) \div 2]
     IN  IF n % 2 = 1 THEN TransferOp(n + 1, tx.source, - tx.amount)
                      ELSE TransferOp(n + 1, tx.target, tx.amount)]

Operations(deploy, transfers, signer, validator) ==
  IF deploy.ok
  THEN FeeOps(deploy, signer, validator) \o TransferOps(transfers)
  ELSE FeeOps(deploy, signer, validator)
=============================================================================
