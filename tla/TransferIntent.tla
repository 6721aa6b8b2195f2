--------------------------- MODULE TransferIntent ---------------------------
(***************************************************************************)
(* What the construction pipeline promises of the deploy parameters it     *)
(* builds: they are those that the caller's operations mean, or he is      *)
(* refused; and it decides once.                                           *)
(***************************************************************************)
EXTENDS Integers, Sequences

CONSTANTS
  Network,      \* the network identifier of the requests
  Numerals,     \* strings that are 64-bit integers, and their values
  NoAddress,    \* the empty address
  NULL

VARIABLES
  intent,       \* the operations of the caller, any list
  fate,         \* "open", "refused" or "built"
  deploy        \* NULL, or the parameters that were built

vars == <<intent, fate, deploy>>

Init == fate = "open" /\ deploy = NULL

(***************************************************************************)
(* The first operation names the sender by its key, the second all the     *)
(* rest.  A first operation without an amount is not asserted to name      *)
(* anybody; then, and only then, the sender may be empty.                  *)
(***************************************************************************)
Senders ==
  {intent[1].key.account} \cup (IF intent[1].value = NULL THEN {NoAddress} ELSE {})

Meanings ==
  [chain : {Network}, amount : {intent[2].value}, target : {intent[2].key.account},
   source : Senders, gas_price : {"1"}, id : {Numerals[intent[2].transfer_id.text]}]

Clear ==
  /\ Len(intent) >= 2
  /\ \A i \in 1 .. 2 : intent[i].key # NULL
  /\ intent[2].value # NULL /\ intent[2].transfer_id # NULL
  /\ intent[2].transfer_id.json = "string" /\ intent[2].transfer_id.text \in DOMAIN Numerals

Build ==
  /\ fate = "open" /\ Clear
  /\ fate' = "built" /\ deploy' \in Meanings
  /\ UNCHANGED intent

Refuse == fate = "open" /\ fate' = "refused" /\ UNCHANGED <<intent, deploy>>

Spec == Init /\ [][Build \/ Refuse]_vars
=============================================================================
