# A TLA+ model of rosetta-casper

`rosetta-casper` serves the Rosetta API for the Casper chain: an HTTP server
that turns each Rosetta request into JSON-RPC calls to a Casper node.  It keeps
no database.  What can go wrong in it is therefore not lost state but *mixed*
state: an answer put together from several RPCs while the chain grows, a shared
value read while another handler runs, a map handed from one API call to the
next by a caller who may lose half of it, and four goroutines that have to agree
on how the process ends.  The modules here model those four things, TLC checks
them on small instances, and TLAPS proves the most important facts for
instances of any size.

## 1. The system

| Part | Code | State | Operations | What must be true |
| --- | --- | --- | --- | --- |
| Casper client | `casper/client.go` | none between calls; per call the block, transfers, purse, deploys read so far | `Status`, `Block`, `BlockTransaction`, `Balance`, each a sequence of RPCs | an answer is what *one* final block says; nothing nil is used; errors only for what is absent |
| Operation builder | `casper/client.go:283-446`, `casper/types.go` | none | `CreateRosTransaction` | the operations are the movements of motes of the deploy |
| Casper node (external) | `casper-golang-sdk` | the chain | `GetBlockBy*`, `GetLatestBlock*`, `GetBlockTransfersBy*`, `GetDeploy`, `GetStateItem`, `GetAccountBalance` | - |
| Services | `services/*_service.go`, `errors.go`, `router.go` | the mode and network; the standard errors, shared by all handlers | one handler per endpoint | nothing is written offline that comes from the node; errors do not mix; what panics is known |
| Construction | `services/construction_service.go` | none; the caller carries the maps | `derive`, `preprocess`, `metadata`, `payloads`, `combine` (`hash`, `parse`, `submit` are unimplemented) | the transfer asked for is the one built, or an error is returned |
| Process | `cmd/run.go`, `cmd/root.go`, `configuration/configuration.go` | context, errgroup, listener, `SignalReceived` | load, start, listen, receive a signal, cancel, shut down | it stops when told to, for the reason it gives; what it accepts ends or is dropped for a reason; it serves what its environment says |

The parts interact as follows.  The process loads the configuration and, when
online, creates one `casper.Client`, shared by all services.  A request passes
the asserter of `rosetta-sdk-go`, then a handler in a goroutine of its own,
which checks the mode and calls the client at most once.  The client makes its
RPCs one after the other; the chain may grow between any two of them.  The
handler returns a response or a pointer to an error, which the server encodes in
a later step.  `/construction` calls are related only through what the caller
hands from one to the next.

Hard behaviours: the growth of the chain during a call, failure of any RPC,
map iteration in no order, aliasing of a loop variable, errors returned by
reference, fields missing from a caller's map, a signal or the loss of the
listener at any moment of the process.  They are listed line by line as hazards in
`PROJECT.json`.

## 2. The modules

| Module | Models | Extends |
| --- | --- | --- |
| `CasperNode` | the node as far as `client.go` looks at it: a final chain that grows, execution of deploys, replies to RPCs (external) | |
| `RosettaOps` | `CreateRosTransaction`'s operations, as pure operators | |
| `CasperClient` | the four operations of the client, one action per RPC | `CasperNode`, `RosettaOps` |
| `LedgerView` | abstract specification: a call looks *once* at one block | `CasperNode` |
| `ClientProps` | the properties of the client, and the refinement of `LedgerView` | `CasperClient` |
| `ConstructionOps` | what the construction handlers make of their requests, and the asserter before them, as pure operators | |
| `Server` | the handlers of every endpoint, the shared errors, the encoding | `ClientProps`, an instance of `ConstructionOps` |
| `Construction` | the `/construction` pipeline and its caller | `ConstructionOps` |
| `TransferIntent` | abstract specification of the pipeline: refused, or built as meant | |
| `Lifecycle` | configuration, start, signals and shutdown | |
| `Process` | the whole program: `Lifecycle` with the handlers of `Server` in it | `Server`, an instance of `Lifecycle` |
| `ClientProofs`, `ServerProofs`, `ConstructionProofs`, `LifecycleProofs`, `ProcessProofs` | theorems | their modules and `TLAPS` |
| `FoldProofs` | facts about `FoldLeft`, for any operator (instantiated with the operator folded with) | `TLAPS` |
| `RosettaProofs` | the operators: the operations of a deploy, lists of transfers, what movements and operations add up to | `ClientProps`, `TLAPS` |
| `LedgerProofs` | what the client's answers and refusals say of the ledger | `ServerProofs`, `RosettaProofs` |
| `MCClient`, `MCServer`, `MCConstruction`, `MCLifecycle`, `MCProcess` | the instances TLC checks | |

**Client.** A call `c` has a program counter `pc[c]` that names the RPC it is
about to make; the action of that name makes the RPC, stores what client.go
stores and goes to the next one.  `Ask` is the entry of all four operations;
`FirstStep` is the `if` cascade over nil, hash and index.  `GetBlockByHash` and
the others share their action between `Block` and `Balance`, which make the
same RPC and differ in where they go next.  `todo` is the rest of the map that
`Block` ranges over: `\E d \in todo[c]` is Go's map order.  `TransfersOf` is the
list of pointers `CreateRosTransaction` is given; in `Block` they all point to
the loop's one variable, since `go.mod` declares go 1.15 and loop variables
became one per iteration only with go 1.22.  `Reject` is the node's refusal,
`RpcFails` any other failure of an RPC, `Panic` the two slices of a string that
may be too short.

**Node.** External, and read off the client.  A block executes deploys, each with
an outcome; `Charge` says that a deploy costs its signer the amount of its
payment, or the cost when there is none or the deploy failed, and that the
proposer gets it.  The node's own rule is not in the repository: `Charge` is the
one that `client.go:304-358` supposes.  So nothing here shows that the *amount* of
a fee is right; what the properties about operations show of fees is that the
supposed amount is taken from the signer's purse and given to the proposer's,
once, whatever else the operations say.  A native deploy is one that is not in
`body.DeployHashes`, which is why `Block` joins those with the deploys of the
transfers.  Forks are not modelled: the RPCs the client uses serve finalised
blocks.

**Server.** `stage` follows a request through `Receive`, one of the refusals or
`CallClient`, the client's own steps, `HandleError` or `HandleAnswer`, and
`Write`.  `result` holds what a handler returned: a value, a copy made by
`wrapErr`, or one of the package's errors *itself*, whose `details` are read only
by `Write`.  `Asserted` is what the asserter (external) turns away: another
network than the configured one, no block identifier, a negative index without a
hash, a curve or an operation that Rosetta does not have.  A negative index *with*
a hash does reach the client.  `Cut` is the write deadline (`run.go:41-44`):
neither the handlers nor the client look at the request's context, so a handler
that waited for the node too long runs to its end and its answer is lost.  Whether
that happens is left open for every request that asked the node.  The construction
handlers answer, fail or panic as their request says (`LocalFailure`), and do so
without the node.  The genesis blocks of `types.go:84-103` are constants, one for
each network; that they are the first blocks of the two chains cannot be told
from the code.

**Construction.** One caller at a time (the server keeps nothing, so callers
cannot meet).  He brings operations that name public keys, has `derive` turn
each into an address, and takes the maps from one call to the next.  `lost` is
what he has lost so far of the maps or of the transaction; `NilIn` and
`PayloadsFails` are the nil dereferences and the type assertions without
comma-ok.  The asserter (external) sees to the curves of the keys, the order of
the operations, their types, and that one with an amount has an address.
`derive` compares the curve with the tags of the SDK, "ed25519" and
"secp256k1", where Rosetta says "edwards25519": of the curves that the asserter
lets through only secp256k1 has an address, edwards25519 gets an empty one, and
the branch for "ed25519" is never taken.  `TransferIntent` says what
the caller may rely on: his operations are refused or built as what they mean,
once.  It also names what is *not* promised: operations after the second are
forgotten, types are not looked at, and the sender may be empty when the first
operation has no amount.

**Lifecycle.** `main`, `watcher`, `serving` and `closing` are the program counters
of the main goroutine, the signal goroutine and the two of the errgroup.
`ListenAndServe` may fail before it listens (`ListenFails`) or while it does, when
`Accept` returns an error that is not temporary (`AcceptFails`).  A request comes
on a connection made while the server listened, and may come on it a little
longer than the server does.  What
`net/http`, `errgroup` and `os/signal` do is stated at the action that relies on
it.

**Process.** One step of `Process` is a step of `Lifecycle`'s goroutines, a
signal, the loss of the listener, the growth of the chain, an arrival (which is
`Lifecycle`'s `Accept` and `Server`'s `Receive` at once) or a step of a handler,
which needs the process to run.  `Handling` reads off a handler's stage what
`Lifecycle` calls its requests' state; with it the whole program is an instance
of `Lifecycle`.  The environment's `MODE` and `NETWORK` become the services'
configuration.

Operators marked `Mutant` restate one definition with a bug that a change of the
code could bring in (a state root that is not the block's, deploys known by their
hashes only, details set on the shared error, ...).  No specification uses them;
each was used to see that a property notices the bug, and `PROJECT.json` pairs it
with the property.

## 3. What TLC checks

All constants of the client's instances are in `MCClient`: two accounts with a
main purse each and a third purse that does not exist at genesis; deploys that
carry out no, one or two transfers, pay by payment or by cost, are native or
not, and may fail.  `Moving` has a native deploy of two transfers beside a call
of one, so that a block's deploys come from its two lists; `Custom` a native
deploy whose payment cannot be read, over a genesis (`Later`) at which one
account has no purse yet, so that a signer may exist at one block and not at the
one before.  `Calling` has no transfers at all.

| Run | Shows |
| --- | --- |
| `client_safety` | over chains of up to 3 blocks with up to 2 deploys each, one call of any kind, by any identifier: the block it holds stays on the chain (`SnapshotInv`), balances are those of the block reported (`BalanceAtReportedBlock`), a block lists its deploys once (`BlockListsItsDeploys`), a transaction is all its deploy did (`TransactionIsWhole`), as is a block of at most one transfer that shows its deploys (`OneTransferIsExplained`), and the client implements `LedgerView` (`LooksOnce`).  For a nil identifier only the header is claimed: the rest is `current_block` |
| `server_safety` | every endpoint in both modes, construction included: who names a block is written that block (`NamedBlockWritten`), the handlers that panic behind the asserter do so for the three reasons `MayPanic` names (`PanicsAreKnown`), and without a transport failure only what is absent is refused (`RejectsOnlyTheAbsent`) |
| `server_pair` | two requests at a time: contexts of errors never mix (`OwnContext`), and by hash or index, as a block or as a transaction, a deploy has the same operations (`AnswersAgree`) |
| `process` | the program from every environment, one request of each way to end, a signal and the loss of the listener at any moment: `ServesItsEnvironment`, a request ends unless one RPC never does (`EveryRequestEnds`), and is unanswered only for a signal, the lost listener, a deadline or a known panic (`UnansweredForAReason`) |
| `construct` | all lists of up to two operations, and those of three that continue them, with keys of curves that derive knows, that it does not, and that Rosetta does not, through the pipeline: a transfer whose maps are kept whole goes through (`IntentSurvives`), and what is built is what was meant (`ImplementsIntent`) |
| `lifecycle` | all environments, two signals, two requests: `SignalIsReported`, `EndsForAReason`, requests are dropped only by an exit that says so (`DropsAreReported`), and the process stops after a signal or a failure (`SignalStops`, `FailureStops`) |

Bounds: `MaxHeight` (1 or 2) and `MaxBlockSize` (1 or 2) bound the chain,
`MaxSignals` the signals.  `Process` is checked with one request and a chain of
two blocks: the handlers have nothing to wait for in each other.  `server_pair`
declares its two calls symmetric, which its two invariants are.  Three blocks are
enough for a call to name a block that is neither the first nor the latest and
for the chain to grow during it; two deploys and two transfers are enough for a
list to be out of order, to lack an element, or to alias one.  A call depends on
others only through the chain (the client) and the standard errors (the
services), so two of them are enough. The theorems of section 5 do not depend on
these bounds.

Deadlock checking is off: a server without requests, a process that has exited
and a caller who is done do stop.

Fairness: the program assumes `WF` of the process's own goroutines (`Run`) and of
each handler's steps but its RPCs (`Work(c) /\ ~ RpcPending(c)`), that is, that a
goroutine that can run does.  That an RPC ever ends is *not* assumed: the client
sets no timeout (`gethHTTPTimeout`, `client.go:33`, is not used) and ignores the
request's context, so `EveryRequestEnds` says that a request ends unless its call
stays in one RPC for ever.  What is left for it to show is that every call makes
finitely many RPCs and its handler goes on after the last, however they fail (its
mutant asks again after a failure).  Nothing is assumed about requests, the growth
of the chain, or the outcome of RPCs.  `Lifecycle` assumes `WF` of each
goroutine's step; nobody must send a signal or a request, the listener need not
fail, and no request need ever be answered: shutdown does not wait for it.
`CasperClient`, `Server` and `Construction` state no fairness and no liveness.

## 4. Where the code and its documentation disagree

Each of these runs ends in a counterexample.

| Run | Disagreement |
| --- | --- |
| `two_transfers` | `client.go:179` keeps `&trs`, the loop variable's address: a block with two different transfers reports the last one twice.  README.md:28 promises all balance changes. |
| `current_block` | `client.go:150` and `:155` ask for the latest block and the latest transfers separately: a block produced in between lends its deploys to its parent (`client.go:113-114`). |
| `failed_fee` | `client.go:323,342`: a failed deploy's cost moves by operations whose status `types.go:124-125` declares unsuccessful.  (The deploys of this run make no transfers, so that the aliasing of `two_transfers` plays no part.) |
| `errors_list` | `errors.go:22-37` says it lists all errors that could be returned; codes 2, 13, 14 and 15 are missing. |
| `payloads_panic` | `construction_service.go:138` panics where `errors.go:76-78` announces `ErrUnableToParseIntermediateResult`; the transfers of `casper.ros:73-92` have no transfer id either. |
| `wrong_signer` | `construction_service.go:156-163` asks the receiver to sign; preprocess (`:92`) required the sender's key. |

Others that the models contain and no run is spent on: the order of a block's
transactions changes between two answers (`client.go:200`, map iteration); an
identifier with neither field reaches a panic instead of the current block
(`client.go:113-114`), though the asserter turns it away first; preprocess never
returns `ErrUnclearIntent`; `NewDeploy` ignores its parameters; a bind failure
followed by a signal is reported as "halted" (`root.go:33-35`); a native deploy
that failed is in no block answer; `casper.ros:76` uses the type "Transfer"
where `types.go:45` has "TRANSFER", so the asserter turns it away; `derive`
returns an empty address for a curve it does not know, edwards25519 among them;
`BlockTransaction` asked about another block
reports a deploy without its transfers (`client.go:262`).

## 5. What is proved

TLAPS proves, for any sets of accounts, purses, deploys and requests, any number
of calls and chains of any length:

* `ClientProofs`: `TypeCorrect`, `NothingNilIsUsed`, `NoStaleBlock`,
  `BalanceIsAtomic`.
* `LedgerProofs`: `ClientShowsTheLedger`, the refinement of `LedgerView`, and
  `NothingElseIsRejected`, both of the client alone and of the client the server
  calls; `TransactionsAreWhole`, `OneTransferIsAll`, `BlocksAreListed`,
  `AnswersNeverDisagree`.
* `ServerProofs`: `ServerTypeCorrect`, `ErrorsStayApart`,
  `WrittenBlockIsTheNamed`, `PanicsAreExplained`.
* `ConstructionProofs`: `PipelineKeepsIntent`, the refinement of `TransferIntent`,
  for operation lists of any length, and `TransferGoesThrough`.
* `LifecycleProofs`: `ProcessTypeCorrect`, `HaltIsReported`, `EndIsExplained`,
  `DropsAreAnnounced`.
* `ProcessProofs`: `EnvironmentIsServed`, `NoAnswerHasAReason`.
* `RosettaProofs`: `IndexIsPosition`, `PairsCancel`, for transfer lists of any
  length.

These are all the invariants of the runs in section 3, and all their action
properties and refinements.

Assumptions: `NodeAssumption`, `ClientAssumption`, `ServerAssumption`,
`ConstructionAssumption`, `SignalsAssumption` and `ProcessAssumption`, which say
that the constants have the shape the code gives them and that `NULL` is none of
them; TLC evaluates them on every run.

The argument for `BalanceIsAtomic`: that an answer is true is not inductive,
because it says nothing of a call on its way.  The inductive invariant is `TypeOK
/\ ControlInv /\ SnapshotInv /\ BalanceAtReportedBlock /\ NamedInv`. `ControlInv`
says which request and which values each program counter implies; `SnapshotInv`
says that the block a call holds *is* the chain's block of that height and that
the purse about to be read is the address's.  A step of the call itself needs
`ControlInv` to know that its block was read before; a step of another call
leaves it alone (`OnlyItsOwn`); and a new block leaves all blocks before it as
they were (`GrowKeeps`), which is where it matters that the chain only grows.
`NamedInv` follows the identifier: which of its two fields the block held at each
RPC is known to match, and that only an identifier with neither leads to a block
without a proposer.

What is said of transactions needs more, `LedgerInv`, which adds three parts.
`ChainInv` is about the node: a block lists the transfers of what it executed, a
deploy is executed once, its signer has an account from then on, and the balances
of a block are those of the block before after its movements.  `HoldsInv` is about
a call on its way: the transfers it holds are those of the block it names, and
the transactions it has made so far are, one for each deploy it has taken off its
map and in whatever order it took them, what `Transaction` makes of an execution of
that block.  `ToldInv` says the same of the answers, which the chain may have
outgrown.  An answer is then a function of the block (`TransactionOn`), whichever
call gave it and under whichever RPCs, which is `BlocksAreListed`, and, where the
aliased variable has one value only (`AliasOfOne`), `AnswersNeverDisagree`.

The sums follow from there.  Operations `2j - 1` and `2j` of a deploy are the two
sides of its movement `j`, the fee the first (`OperationsArePaired`), so they add
up to its movements (`PairsAddUp`): `TransactionsAreWhole`.  What a block changes
in a purse is what its movements add up to (`BalancesMove`), and its operations
add up to the same although the map gave them in another order (`Rearranged`):
`OneTransferIsAll`.

`NothingElseIsRejected` looks at each RPC that a call makes *after* the one that
looks for what was asked.  A block held was found where it was sought
(`HeldIsSought`); the deploys it shows were executed (`SoughtRan`), so the node
knows them; an executed deploy's signer has an account in that block; and a
proposer without one, or a payment without an amount, is what the property counts
as absent (`Lacks`).

`ClientShowsTheLedger` maps a call to the call of `LedgerView` by its program
counter and block (`ClientProps`): the look is the step that stores the block,
everything before and after is a stutter until the answer, and the answer is the
held block's, which `SnapshotInv` says is the chain's, with the parent that
`ParentOf` computes.

For the server, every step is a step of the client or leaves it alone
(`ServerStepIsClientStep`), so the client's invariant carries over.  `Linked`
relates a handler's stage to its client call (the request it asks is the one it
was given), and `Bare` says that `details` are never set, that is, that `wrapErr`
copies: together they give `ErrorsStayApart`.  That a handler keeps a question the
asserter let through, with `NamedInv`, gives `WrittenBlockIsTheNamed`, and, of the
client's two slices, that only that of an address can fail.  `LocalPanics` adds the
construction handlers: an operation whose index is its position and whose amount
is there has an account, so only a first or second one without an amount can be
nil.  The two are `PanicsAreExplained`.

For the pipeline, the parameters are built three calls after the operations were
read.  The invariant keeps the two together: every account is the address of its
key, the options are those of asserted operations, and the metadata is the
options less what was lost.  `PayloadsMeansIt` is the step from there: six
strings that payloads does not refuse are six fields nobody lost.
`TransferGoesThrough` is the other direction, that nothing is refused: its
invariant (`SurvivesInv`) adds that metadata are the options while nothing is lost,
and `NothingIsRefused` that what preprocess made of a transfer are six strings.

For the process, the properties look at the exit, which was decided earlier:
`SignalOrder` says that a signal is marked before it cancels, `GroupOrder` that
the context ends for a cause and that an error which is the echo of a shutdown
can only be the first one after a signal, and `Listened` that a server that
never opened has no request, and that only of such a one the first error is that
it could not listen.  With the exit decided from these three,
`DropsAreAnnounced` follows.  That the whole program implements `Lifecycle` is a
lemma (`StepOfLifecycle`): a handler that does a step has been accepted, is not
over, and moves its own stage.
`EnvironmentIsServed` joins what the process knows of a request (`Admitted`: a
server that listens was configured) with what a handler may write (`Sourced`);
`NoAnswerHasAReason` joins the invariants of `LifecycleProofs`, which hold of the
whole program through the refinement, with that of `ServerProofs`.

Lists and sums need induction, and the library's induction theorems are about
formulas, to which the provers cannot apply them.  `FoldProofs` therefore states
induction of sets of numbers (`BoundedInduction`, from `WFMin`: the set of the
numbers up to which something is true has no gap) and proves with it what
`FoldLeft` computes: the sequence of its partial results (`FoldTrace`), folds of
concatenations, folds that add.  It is parameterised by the operator folded with
and instantiated once for each that the model folds with.

Only model-checked: liveness (`EveryRequestEnds`, `SignalStops`, `FailureStops`),
which is outside what the prover handles, and the counterexamples of section 4.

## 6. What is not modelled

* `CreateOperation` (`client.go:448-510`), the unused part of `services/types.go`
  and of `casper_client_sdk`: nothing calls them.
* Hashing, hex and decimal conversions: one-to-one, and a property about them
  would be one about the libraries.
* Real time: the write deadline is an event that may come at any moment once a
  handler has waited for the node; `readTimeout` and `idleTimeout` concern
  connections that have no handler yet or no longer.
* The contents of the unsigned transaction (`NewDeploy` fills in nothing) and of
  combine's answer, which is empty.
* Peers, timestamps (but for `asserter.MinUnixEpoch`), logging, CORS.

## 7. Plan

1. *Done:* the node, the client with its properties and proofs, the abstract
   ledger; the services around it with their proofs; the construction pipeline
   with `derive` and its abstract specification; the lifecycle with its proofs;
   the composition of process and services.
2. *Done:* the blocks named, the panics known, the pipeline's refinement, and the
   program's two invariants, as theorems.
3. *Done:* what the client says of the ledger, as theorems: the refinement of
   `LedgerView`, refusals, lists, sums; and that a transfer goes through.
4. *Next:* what a current block does promise, which `client_safety` and the
   theorems leave out for a nil identifier: the deploys listed are those of the
   block or of one after it, and each is a deploy that was executed.  Then the
   answers written by the server, in terms of the ledger.

To check: `tlc -config <run>.cfg <module>` for a run (its module is in
`PROJECT.json`), `tlapm <module>.tla` for the proofs.
