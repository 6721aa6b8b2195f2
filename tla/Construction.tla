---------------------------- MODULE Construction ----------------------------
(***************************************************************************)
(* services/construction_service.go: a transfer on its way through         *)
(* /construction/derive, preprocess, metadata, payloads and combine.  The  *)
(* server keeps nothing between the calls: the caller takes each           *)
(* intermediate result to the next call, and may come with less than he    *)
(* was given.                                                              *)
(***************************************************************************)
EXTENDS ConstructionOps

CONSTANTS
  Network,      \* the network identifier of the requests
  Keys,         \* public keys: a curve, and the account the key is for
  Values,       \* amounts, as strings
  Words,        \* strings that are not 64-bit integers
  Intents,      \* the operation lists callers come with
  MayLose       \* the parts of an intermediate result a caller may lose

Json == [json : {"string", "number"}, text : DOMAIN Numerals \cup Words]

\* An operation of a caller: with an account once he has derived it from its key.
Operation ==
  [type : STRING, index : Nat, key : Keys \cup {NULL}, account : {NULL},
   value : Values \cup {NULL}, transfer_id : Json \cup {NULL}]

\* How a call may fail.
Outcomes == {"rejected", "panic", "UnavailableOffline", "UnableToParseIntermediateResult"}

\* What types.DeployParams holds.
Params == [chain : STRING, amount : STRING, target : STRING, source : STRING,
           gas_price : STRING, id : Int]

ASSUME ConstructionAssumption ==
  /\ Keys \subseteq [curve : STRING, account : STRING \ {NoAddress}]
  /\ Values \cup DOMAIN Numerals \cup {Network, NoAddress, "1"} \cup Outcomes \subseteq STRING
  /\ Numerals \in [DOMAIN Numerals -> Int]
  /\ Intents \subseteq Seq(Operation)
  /\ MayLose \subseteq Fields \cup {"unsigned"}
  /\ NULL \notin STRING \cup Keys \cup Json /\ NULL \notin Params
  /\ NULL \notin [json : {"string"}, text : STRING]

VARIABLES
  mode,         \* config.Mode, which never changes
  step,         \* "start", "preprocessed", "prepared", "payloads" or "combined"
  operations,   \* what the caller wants, with the accounts derived so far
  options,      \* what preprocess returned: each field or NULL
  required,     \* RequiredPublicKeys
  lost,         \* the parts the caller has lost since
  metadata,     \* what metadata returned
  params,       \* the DeployParams of payloads
  unsigned,     \* the unsigned transaction
  signer,       \* the account of the signing payload
  outcome       \* NULL, or how the last call failed

vars == <<mode, step, operations, options, required, lost, metadata, params,
          unsigned, signer, outcome>>

Empty == [f \in Fields |-> NULL]

Init ==
  /\ mode \in {"ONLINE", "OFFLINE"}
  /\ step = "start" /\ operations \in Intents
  /\ options = Empty /\ required = <<>> /\ lost = {} /\ metadata = Empty
  /\ params = NULL /\ unsigned = NULL /\ signer = NULL /\ outcome = NULL

Fail(why) == outcome' = why /\ UNCHANGED step
Pass(s) == step' = s /\ UNCHANGED outcome
At(s) == step = s /\ outcome = NULL

\* Mutant: what is not there gets a default.
Without_filled(m, fields) ==
  [f \in Fields |-> IF f \in fields \/ m[f] = NULL THEN Str("7") ELSE m[f]]

\* The map a call is handed: without the fields the caller lost.
Without(m, fields) == [f \in Fields |-> IF f \in fields THEN NULL ELSE m[f]]

------------------------------------------------------------------------------
Underived(i) == operations[i].key # NULL /\ operations[i].account = NULL

\* Derive, for one operation; the asserter turns away a curve that Rosetta has not.
ConstructionDerive(i) ==
  /\ At("start") /\ Underived(i)
  /\ IF operations[i].key.curve \notin Curves THEN Fail("rejected") /\ UNCHANGED operations
     ELSE /\ operations' = [operations EXCEPT ![i].account = Address(operations[i].key)]
          /\ UNCHANGED <<step, outcome>>
  /\ UNCHANGED <<mode, options, required, lost, metadata, params, unsigned, signer>>

\* Preprocess, behind the asserter.
ConstructionPreprocess ==
  /\ At("start") /\ \A i \in DOMAIN operations : ~ Underived(i)
  /\ IF ~ Asserted(operations) THEN Fail("rejected") /\ UNCHANGED <<options, required>>
     ELSE IF NilIn(operations) THEN Fail("panic") /\ UNCHANGED <<options, required>>
     ELSE /\ options' = OptionsOf(operations, Network)
          /\ required' = Senders(operations)
          /\ Pass("preprocessed")
  /\ UNCHANGED <<mode, operations, lost, metadata, params, unsigned, signer>>

\* Metadata, online only, copies every field, there or not.
ConstructionMetadata ==
  /\ At("preprocessed")
  /\ IF mode # "ONLINE"
     THEN Fail("UnavailableOffline") /\ UNCHANGED metadata
     ELSE metadata' = Without(options, lost) /\ Pass("prepared")
  /\ UNCHANGED <<mode, operations, options, required, lost, params, unsigned, signer>>

\* Payloads makes one signing payload, which is for the target to sign.
ConstructionPayloads ==
  LET m == Without(metadata, lost)
  IN  /\ At("prepared")
      /\ IF PayloadsFails(m) # NULL
         THEN Fail(PayloadsFails(m)) /\ UNCHANGED <<params, unsigned, signer>>
         ELSE /\ params' = DeployParams(m)
              /\ unsigned' = NewDeploy(DeployParams(m))
              /\ signer' = m["target_addr"].text
              /\ Pass("payloads")
      /\ UNCHANGED <<mode, operations, options, required, lost, metadata>>

\* Combine parses the unsigned transaction, if that, and answers nothing.
ConstructionCombine ==
  /\ At("payloads")
  /\ IF "unsigned" \in lost THEN Fail("UnableToParseIntermediateResult")
                           ELSE Pass("combined")
  /\ UNCHANGED <<mode, operations, options, required, lost, metadata, params, unsigned, signer>>

\* Between the calls the caller loses a field, or spoils the transaction.
Lose(f) ==
  /\ outcome = NULL /\ f \notin lost
  /\ step \in IF f \in Fields THEN {"preprocessed", "prepared"} ELSE {"payloads"}
  /\ lost' = lost \cup {f}
  /\ UNCHANGED <<mode, step, operations, options, required, metadata, params,
                 unsigned, signer, outcome>>

Next ==
  \/ \E i \in DOMAIN operations : ConstructionDerive(i)
  \/ ConstructionPreprocess \/ ConstructionMetadata
  \/ ConstructionPayloads \/ ConstructionCombine
  \/ \E f \in MayLose : Lose(f)

Spec == Init /\ [][Next]_vars

------------------------------------------------------------------------------
(***************************************************************************)
(* A clear intent: two operations in order, the sending one and the        *)
(* receiving one, each with a key that can be derived and an amount, the   *)
(* second with a transfer id.                                              *)
(***************************************************************************)
IsNumeral(v) == IsString(v) /\ v.text \in DOMAIN Numerals
Complete(op) == op.key # NULL /\ op.key.curve \in Tags \cap Curves /\ op.value # NULL
IsTransfer(ops) ==
  /\ Len(ops) = 2
  /\ \A i \in 1 .. 2 : ops[i].index = i - 1 /\ ops[i].type = "TRANSFER" /\ Complete(ops[i])

(***************************************************************************)
(* construction_service.go:59-150: a transfer that loses nothing on its    *)
(* way is built, its sender alone is asked for a key, and only being       *)
(* offline can stop it.                                                    *)
(***************************************************************************)
IntentSurvives ==
  IsTransfer(operations) /\ IsNumeral(operations[2].transfer_id) /\ lost = {} =>
    /\ outcome \in {NULL, "UnavailableOffline"}
    /\ step # "start" => required = <<operations[1].key.account>>

(***************************************************************************)
(* construction_service.go:59-187: the pipeline implements TransferIntent: *)
(* what payloads is given is what the operations mean, whatever derive     *)
(* made of their keys and whatever was lost since; and what was refused or *)
(* built stays so.                                                         *)
(***************************************************************************)
Fate == IF params # NULL THEN "built" ELSE IF outcome # NULL THEN "refused" ELSE "open"
Intent == [i \in DOMAIN operations |-> [operations[i] EXCEPT !.account = NULL]]

T == INSTANCE TransferIntent WITH intent <- Intent, fate <- Fate, deploy <- params
ImplementsIntent == T!Spec

(***************************************************************************)
(* errors.go:76-78, "ErrUnableToParseIntermediateResult is returned when a *)
(* data structure passed between Construction API calls is not valid": it  *)
(* is, instead of a panic.                                                 *)
(***************************************************************************)
InvalidIsReported == step \in {"prepared", "payloads"} => outcome # "panic"

(***************************************************************************)
(* construction_service.go:92, "to request sender public key": the account *)
(* that is to sign is the one whose public key was required.               *)
(***************************************************************************)
SignerIsRequired == signer # NULL => signer \in {required[i] : i \in DOMAIN required}
=============================================================================
