--------------------------- MODULE MCConstruction ---------------------------
(***************************************************************************)
(* Instances of Construction: a sender, a receiver, a key of a curve that  *)
(* derive does not know and one of a curve that Rosetta does not; lists of *)
(* up to three operations.                                                 *)
(***************************************************************************)
EXTENDS Construction, TLC

Key(curve, account) == [curve |-> curve, account |-> account]
Sender == Key("secp256k1", "sender")
Receiver == Key("secp256k1", "receiver")
Odd == Key("edwards25519", "odd")
Tagged == Key("ed25519", "tagged")
Four == {Sender, Receiver, Odd, Tagged}

Seven == "7" :> 7
Ids == {NULL, Str("7"), Str("seven"), [json |-> "number", text |-> "7"]}

Some(types, keys, values, ids) ==
  [type : types, index : {0, 1}, key : keys \cup {NULL}, account : {NULL},
   value : values \cup {NULL}, transfer_id : ids]
Sending == Some(Types, {Sender, Odd, Tagged}, {"-5"}, {NULL})
Receiving == Some({"TRANSFER", "Transfer"}, {Receiver, Odd, Tagged}, {"5"}, Ids)
Other == [type : {"FEE"}, index : {2}, key : {Receiver}, account : {NULL},
          value : {"-5", NULL}, transfer_id : {NULL}]

Pairs == {<<o, p>> : o \in Sending, p \in Receiving}
Everything ==
  {<<>>} \cup {<<o>> : o \in Sending \cup Receiving} \cup Pairs
    \cup {Append(ops, o) : ops \in Pairs, o \in Other}

\* Lists of two that are transfers with a number.
Transfers == {ops \in Pairs : IsTransfer(ops) /\ IsNumeral(ops[2].transfer_id)}
\* Transfers without metadata, and so without a transfer id.
Plain == {ops \in Pairs : IsTransfer(ops) /\ ops[2].transfer_id = NULL}
=============================================================================
