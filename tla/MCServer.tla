------------------------------ MODULE MCServer ------------------------------
(***************************************************************************)
(* Instances of Server: few client questions, every kind of endpoint.      *)
(***************************************************************************)
EXTENDS MCClient, Server

Early == {0}
Seven == "7" :> 7
Ends == [op : {"mempool", "list", "options", "construction/metadata"}]

Derive(curve) == [op |-> "construction/derive", curve |-> curve]
Combine(unsigned) == [op |-> "construction/combine", unsigned |-> unsigned]

\* Operations without an account, an amount or either, in good order or not.
Operation(index, account, value) ==
  [type |-> "TRANSFER", index |-> index, account |-> account, value |-> value,
   transfer_id |-> C!Str("7")]
Firsts == {Operation(0, x, y) : x \in {"alice", NULL}, y \in {"-5", NULL}}
Seconds == {Operation(1, x, y) : x \in {"bob", NULL}, y \in {"5", NULL}}
Preprocesses ==
  [op : {"construction/preprocess"},
   operations : {<<o, p>> : o \in Firsts, p \in Seconds \cup {Operation(0, "bob", "5")}}
                  \cup {<<>>}]

\* Metadata as preprocess makes them, with a field that may be lost or be a number.
Good == <<Operation(0, "alice", "-5"), Operation(1, "bob", "5")>>
Metadata == C!OptionsOf(Good, "casper-test")
Payloads ==
  {[op |-> "construction/payloads", operations |-> Good, metadata |-> m] : m \in
     {Metadata} \cup {[Metadata EXCEPT ![f] = v] :
        f \in {"transfer_id", "source_addr"},
        v \in {NULL, [json |-> "number", text |-> "7"], C!Str("seven")}}}

Constructing ==
  {Derive("secp256k1"), Derive("edwards25519"), Derive("ed25519")}
    \cup {Combine("deploy"), Combine("garbled"), Combine("empty")}
    \cup Preprocesses \cup Payloads

\* One request at a time, of every kind; among them some the asserter rejects.
AskedAnything == Everything \cup Named2
Anything == AskedAnything \cup Ends \cup Constructing

\* Two requests served at the same time: reports on the same blocks, of which any
\* may fail, and two whose answers hold standard errors.
Pair == {BlockOf(Id(Hash1, NULL)), TransactionOf(d1, 1), TransactionOf(d2, 1)}
Concurrent == Pair \cup [op : {"options", "mempool"}]
Interchangeable == Permutations(Calls)
=============================================================================
