----------------------------- MODULE MCProcess -----------------------------
(***************************************************************************)
(* An instance of Process: one request of every kind of end, every         *)
(* environment, one signal at any moment.                                  *)
(***************************************************************************)
EXTENDS MCServer, Process

Served == {Status, BalanceOf("key", B, NULL), BalanceOf("short", B, NULL),
           BlockOf(NULL)}
Arriving ==
  Served \cup [op : {"list", "options", "mempool"}]
    \cup {Combine("garbled"),
          [op |-> "construction/preprocess", operations |-> <<Operation(0, NULL, NULL)>>]}
=============================================================================
