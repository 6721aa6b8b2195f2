-------------------------- MODULE ConstructionOps --------------------------
(***************************************************************************)
(* What the handlers of services/construction_service.go make of the       *)
(* requests they are given, and what the asserter in front of them makes   *)
(* of them first: no state, only what goes in and what comes out.          *)
(***************************************************************************)
EXTENDS Integers, Sequences, SequencesExt

CONSTANTS
  Numerals,     \* strings that are 64-bit integers, and their values
  NULL          \* Go's nil, JSON's null and what is not there

Fields == {"chain_name", "transfer_amount", "target_addr", "source_addr",
           "gas_price", "transfer_id"}
Types == {"TRANSFER", "FEE"}

\* What a map[string]interface{} decoded from JSON holds: strings, floats, nil.
Str(text) == IF text = NULL THEN NULL ELSE [json |-> "string", text |-> text]
IsString(v) == v # NULL /\ v.json = "string"

\* The empty address.
NoAddress == ""

------------------------------------------------------------------------------
(***************************************************************************)
(* Derive: the address of a key with one of the two tags of the SDK, else  *)
(* an empty one.  Of the curves that Rosetta has, and the asserter lets    *)
(* through, one is among the tags: the other tag is Rosetta's edwards25519 *)
(* under a name it does not have.                                          *)
(***************************************************************************)
Tags == {"ed25519", "secp256k1"}
Curves == {"secp256k1", "secp256r1", "edwards25519", "tweedle"}
Address(key) == IF key.curve \in Tags THEN key.account ELSE NoAddress

------------------------------------------------------------------------------
(***************************************************************************)
(* The asserter lets through lists that are not empty, are indexed by      *)
(* their positions and have known types.  An operation with an amount has  *)
(* an account with an address; of one without it looks no further.         *)
(***************************************************************************)
Asserted(ops) ==
  /\ ops # <<>>
  /\ \A i \in DOMAIN ops :
       /\ ops[i].index = i - 1 /\ ops[i].type \in Types
       /\ ops[i].value # NULL => ops[i].account \notin {NULL, NoAddress}

(***************************************************************************)
(* Preprocess: the loop keeps what the last operation of each index says.  *)
(***************************************************************************)
LastAt(ops, index) ==
  LET found == {i \in DOMAIN ops : ops[i].index = index}
  IN  IF found # {} THEN ops[Max(found)]
      ELSE [account |-> NULL, value |-> NULL, transfer_id |-> NULL]

OptionsOf(ops, network) ==
  [chain_name |-> Str(network), source_addr |-> Str(LastAt(ops, 0).account),
   target_addr |-> Str(LastAt(ops, 1).account),
   transfer_amount |-> Str(LastAt(ops, 1).value),
   transfer_id |-> LastAt(ops, 1).transfer_id, gas_price |-> Str("1")]

\* Operations that make the loop dereference nil.
NilIn(ops) ==
  \E i \in DOMAIN ops :
    \/ ops[i].index \in {0, 1} /\ ops[i].account = NULL
    \/ ops[i].index = 1 /\ ops[i].value = NULL

\* Mutant: every operation's account is asked for its key.
Senders_all(ops) == [i \in DOMAIN ops |-> ops[i].account]

\* One operation of the loop: the sender's public key is required.
Require(senders, op) == IF op.index = 0 THEN Append(senders, op.account) ELSE senders
Senders(ops) == FoldLeft(LAMBDA senders, op : Require(senders, op), <<>>, ops)

------------------------------------------------------------------------------
(***************************************************************************)
(* Payloads asserts that each field is a string, the transfer id first and *)
(* parsed before the others are looked at.  NewDeploy makes nothing of the *)
(* parameters.                                                             *)
(***************************************************************************)
BlankDeploy == [source |-> NULL, target |-> NULL, amount |-> NULL, id |-> NULL]
NewDeploy(deployParams) == BlankDeploy

DeployParams(m) ==
  [chain |-> m["chain_name"].text, amount |-> m["transfer_amount"].text,
   target |-> m["target_addr"].text, source |-> m["source_addr"].text,
   gas_price |-> m["gas_price"].text, id |-> Numerals[m["transfer_id"].text]]

PayloadsFails(m) ==
  IF ~ IsString(m["transfer_id"]) THEN "panic"
  ELSE IF m["transfer_id"].text \notin DOMAIN Numerals THEN "UnableToParseIntermediateResult"
  ELSE IF \E f \in Fields : ~ IsString(m[f]) THEN "panic"
  ELSE NULL
=============================================================================
