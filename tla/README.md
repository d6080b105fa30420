# Verification of deadcat-node in TLA+

deadcat-node is a Liquid binary-market node and the RFQ (request for quote)
provider that trades against it. This directory holds TLA+ models of the parts
whose correctness depends on the order of events or on several programs reading
the same transaction alike, the TLC instances that check them, and TLAPS proofs
about the provider's book, signing, quotes and wallet, about the node's chain
index and about the market contract.

Sources are under `crates/` of the repository; `PROJECT.json` maps every
definition to its lines.

## The system

| Part | State | Operations that change it | What is hard |
|---|---|---|---|
| Reservation book (`deadcat-rfq-provider/src/store.rs`) | redb tables: inventory, allocations, reservations, deadline index, live-quote index, clock, audit log | import, reserve, cancel, reject, expire, commit, record | two commits per write, crashes, ambiguous commits, quotas, deadlines |
| Settlement and signing (`store/settlement.rs`, `finalization.rs`) | calls in progress, signer requests, shown artifacts | validate, commit, recover, sign, record | concurrent calls for one job, failing signers, restart between commit and signature |
| Inventory coordinator and quote engine (`inventory.rs`, `quote.rs`) | latest scan, generation, mutex, calls in progress | refresh, firm_quote | stale views, identical calls that race, backlog of expired quotes |
| Chain store (`deadcat-node/src/store.rs`) | tip, contracts, history, evidence, backfill progress, undo, status, event journal | apply, backfill, rollback, register, invalidate, reset | undo records written by three kinds of write |
| Sync coordinator (`sync.rs`, `main.rs`) | the pinned tip, one pass in progress | sync_to_tip, rebuild_to_tip | the source reorganises between any two calls, registrations interleave |
| Registration and discovery (`registration.rs`, `discovery.rs`) | evidence in memory | verify_and_register_package | evidence read before the write; three readers of a creation |
| Interpreter (`interpreter.rs`) | none | interpret one transaction over an overlay | order inside a block |
| RPC handler, Iroh transport | subscriptions, permits | open_subscription, run | replay to live hand-over, shutdown |
| Market contract (`deadcat-contracts`, `.simf` programs and `interpret`) | market state, collateral, tokens | issue, cancel, resolve, expire, redeem | covenant, interpreter and builder must agree on every spend |
| Hot wallet (`deadcat-rfq-wallet`) | keystore, append-only catalog, staged files | issue, create, restore, export, sign | persist before return, publication, backups |
| Settlement of a trade (`venue.rs`, `composition.rs`, `store/settlement/`) | a PSET that crosses between client and provider | authorize, compose, blind, validate, finalize | a field changed, an expiry or a spent coin between two turns |
| Client validation (`validation.rs`, `market_builder.rs`) | none durable | replay, plan, finalize | what a node reports may be partial or wrong |
| CLI, RPC types | none durable | codecs | deterministic |

The provider and the node run in separate processes. The node tells clients
about markets; the provider reserves its own inputs for quotes and signs the
settlement of a quote. Inside the provider, the quote engine and the signing
coordinator share one reservation book. Inside the node, the sync task and
registrations share one chain store. A client builds market transactions, checks
what a node tells it against the chain, and composes a trade from the legs that
venues, the provider among them, propose.

## Modules

### Provider

* `ReservationStore`: the tables as one record and each write transaction as an
  operator from a database to a database, with the integrity check that `open`
  runs (`TablesValid`, and the audit log's part of it). No variables; used by
  the next three.
* `ReservationBook`: the book as a state machine. `db` is what is on disk,
  `poisoned` the handle. One action per public operation. Each may end in its
  success, in a commit with unknown outcome, or in a crash after either of its
  two commits.
* `InputLedger`: the abstract promise, "an input is free, held or spent for one
  reservation". `ReservationLedger` maps the book's tables to it.
* `SettlementSigning`: calls of `complete` and `recover` as workers that hold no
  lock between steps, with the signer as environment.
* `QuoteAdmission`: `firm_quote` calls over the coordinator and the book. What
  is selected is a choice here; the next modules compute it. A scan that lists an
  output twice is refused, as `import_inventory_batch` does.
* `QuotePricing`: requests, pair catalogs, limits, and the integer arithmetic
  from a rational rate to an execution. `CoinSelection`: `select_inventory`.
  `FirmQuote`: the quote with its symbolic contribution and signing targets.
* `Pset`: the PSET of the elements library, as the repository uses it (an
  external type). Commitments carry what they commit to, signatures what they
  sign. `SettlementPset`: the provider's blinding turn, `validate`, and
  `finalize`, as operators on PSETs.
* `RfqWallet`: keystore, locators, derived keys and destinations, with symbolic
  cryptography. `WalletCatalog`: one wallet database and its backup.
  `PersistentWallet`: a directory of databases. The variables are the files by
  inode, the directory and what a power loss would leave of it, the open
  handles, and the backups an operator holds; two histories record what was
  returned to callers. One action per operation, and per way it can fail.

### Trade

* `TransactionComposition` and `VenueRoute`: the client's composer and route
  layer, as operators.
* `TradeSettlement`: one trade, from the request to the final transaction.
  `Quote`, `Compose`, `Blind`, `Complete`, `Validate` and `Finalize` are the
  turns; `Alter` changes one field of the message under way, `Lapse` lets the
  quote expire and `SpendElsewhere` takes a coin away. The turns of the client
  follow the reference flow of the repository's settlement test.

### Market

* `BinaryMarket`: the state machine (`apply`) and the slots of the contract.
  `MarketContract`: what a market promises, as a specification of its own.
* `MarketCovenant`: the SimplicityHL programs. `MarketInterpreter`: the off-chain
  reading of a spend. `MarketBuilder`: plans and finalized transactions.
  `MarketReplay`: the client's validation. `MarketRegistration`: discovery and
  registration.
* `MarketLifecycle`: all of them around one chain. A transaction is confirmed
  when consensus and the covenant accept it, and the node interprets it.

### Node

* `ChainStore`: the store as one record and its writes as operators, and the
  interpretation of a block against it. Blocks form a finite tree. A contract's
  state and live outputs are the transaction that made them. An undo record
  keeps the first change per contract, because `rollback_to` restores changes
  from last to first.
* `ChainSync`: `sync_to_tip` with one action per answer of the source
  (`Pin`, `Compare`, `Ancestor`, `Fetch`, `CheckHash`, then one of `PinLost`,
  `Reconcile`, `Apply`, `Finish`), the source (`MoveSource`, `SourceError`),
  registrations (`FetchEvidence`, `Register`), a killed process and the
  operator's `Rebuild`. The variables are the store, the source's tip, the pass
  in progress and the evidence of registrations.

`MC*` modules hold the instances: symmetry sets, the signature encodings and
three block trees, and the provider, coins and requests of a trade.

## Runs

| Run | Instance | What it shows |
|---|---|---|
| `book_lifecycle` | 2 owners, 2 inputs, 3 payloads, time 0..2, batch 1 | inputs are exclusive, a commitment is final, a used key stays used, the clock is kept, the tables always pass the reopening check |
| `book_limits` | 1 owner, 2 keys, limit 1, time 0..3 | live quotes stay within the limits and the book implements `InputLedger` |
| `settlement_signing` | 2 takers, 1 recoverer, 2 signature encodings per payload, 1 crash | only durable jobs reach the signer, no input gets two conflicting signatures, what is shown is what is stored, committed jobs are signed eventually |
| `quote_admission` | 2 callers, 2 keys, 2 inputs, 2 scans, 1 restart | nothing due is left after the drain, a key has one answer, quotes are made from the latest scan |
| `quote_progress` | the same with 1 input, no symmetry | every call returns |
| `chain_reorg` | 2 markets, branches 2 and 3 blocks deep, 2 source moves | a Ready market and its evidence are those of the indexed chain, watch intent is never lost, no block is refused, cursors are not reused |
| `chain_registration` | 1 market that moves in every block, competing tips, 3 source moves, 1 failure | a Ready market is replayed under a registration that races blocks, and the index settles |
| `chain_orphan` | 1 market, a replacement 2 blocks deep | violated: see findings |
| `chain_stall` | as `chain_registration`, the source may go back | violated: see findings |
| `market_lifecycle` | 1 market, 5 blocks, quantities to 3, amounts to 7, expiry at height 2 | every token in circulation is covered; node, covenant, interpreter, builder and client agree on every spend, creation and history; the chain implements `MarketContract` |
| `trade_settlement` | 7 requests, every set of 5 coins, 6 prices, one disturbance | quotes round correctly, selection finds what exists, a route honours its request, what the provider accepts pays it and finalizes, undisturbed trades settle |
| `wallet_files` | 2 paths, 2 files, 2 handles, 2 backups, 2 usable nonces, 3 rows | no returned destination is lost or repeated, a restored catalog is a prefix of the wallet's own |

`market_lifecycle`, `trade_settlement` and `wallet_files` may stop: a market ends
when it is redeemed, a trade when it is settled or refused, and the wallet when
its bounds are used up. The other passing runs are checked for deadlock. A property is listed with a faulty
variant of the code that breaks it ("mutants" in `PROJECT.json`); the variants
stand before the definition they change.

### Bounds

`UndoRetention` is the code's 2. Trees reach height 3, so a fork is one, two or
three blocks deep and both sides of the undo window occur. Two source moves
give a reorganisation and a second one, or the way back; three give a check that
straddles two of them. `MaxBranchRestarts` is 1 in place of 8, so its exhaustion
is reached. Time has two to four instants: now, a deadline, and after it; at its
end the 64-bit addition of a lifetime overflows. An expiration batch of one
stands for 256, so a backlog exceeds a batch. A second owner, input, key, caller
or worker is what a conflict takes.

Amounts are bounded by `U64Max` in place of 2^64 - 1: 7 for the market and 13 for
the trade, so that products overflow and checked arithmetic is seen to refuse.
In `market_lifecycle` the interesting variety is in each state, not in their
number: from every state all near misses of all planned transactions are put to
the covenant and to the interpreter, and all wrong reports of a node to the
client. Five blocks reach issue, cancel, resolution or expiry, and redemption to
the end. In `trade_settlement` the inventories include every subset of five
coins, with equal ones among them and a total that overflows. One disturbance at
a time, at any point, with any field. In `wallet_files` two files with the same
credentials are what a mixed backup takes, and a third row lets one file be
ahead of its backup by more than another.

Market `n` of `chain_reorg` is created and moved in one block. `chain_registration`
has no fork deeper than one block below a moving market. Both stay clear of the
case of `chain_orphan` so that everything else is checked around it.

### Fairness

* Book, market, trade, wallet: none; their properties are safety properties.
* Signing: the restart happens, recovery is tried for every unfinished job, its
  steps run on, and a signer that is asked for ever answers at some time
  (strong fairness). The daemon calls `recovery_actions` at start and on retry.
* Quotes: a call keeps running, and a call waiting for a mutex that is released
  again and again obtains it (strong fairness per caller). A thread of a running
  process has that.
* Node: the daemon's loop starts pass after pass (`main.rs`), and a call to the
  source returns, an error for a height above its tip included. Nothing is
  assumed about the source, registrations, crashes or rebuilds. The second
  conjunct of `Fairness` in `ChainSync` is weak fairness with its enabling
  condition written out, which is much faster to check.

## Findings

* **A two-block rollback can leave a market on the replaced branch**
  (`chain_orphan`). A market is registered while `sync_to_tip` applies blocks.
  `apply_block` follows its outputs although its backfill is behind, and moves
  it at height 3. The backfill of block 2 then pushes the record, already moved
  by block 3, onto the undo record of block 2. A rollback of blocks 3 and 2
  undoes 3, then 2, and block 2's record brings the orphaned state back. The
  documentation says that a replacement within the window "restores exact prior
  state".
* **A pass can go round for ever** (`chain_stall`). The source's tip goes back
  to an ancestor during a backfill. After the rollback the market is replayed
  through the indexed tip, but its next position is above it, so it stays
  CatchingUp. `backfill_pending` returns at once and the pending check repeats
  the loop without a counted restart, until the source has a new block.

## Proofs

Eight modules; `PROJECT.json` lists their theorems. TLC shows a property on an
instance, the theorem for every value of the constants that satisfies the named
assumptions.

### Reservation book, signing, quotes

From `ConstantsAssumption` (finitely many owners and keys, positive limits, a
largest time, accepted payloads among the payloads), `NullAssumption` (the absent
value is none of the others), and `BookAssumption`, `SigningAssumption` or
`AdmissionAssumption` (positive lifetimes, age and batch; takers and recoverers
differ). Inputs, requests, payloads, artifacts, workers and callers may be
infinitely many.

* `ReservationStoreProofs`: `Sound(d)` says that the tables have their types and
  the reopening check accepts them. One lemma per write shows that it is kept.
  The writes that concern one reservation share `OneReservationSound`: whatever
  leaves the other reservations, their deadlines and their inputs alone, and
  takes only free inputs, keeps the tables sound.

  An operation, whoever calls it, makes at most one of five writes after the
  clock record (`StoreStep`). Every such step keeps the tables sound, undoes
  nothing (`Forward`), keeps the audit log in step, respects the limits, and is a
  step of the input ledger or none. The other three modules only have to show
  that their actions are such steps.
* `ReservationBookProofs`: `Sound(db)` is the inductive invariant. Exclusive
  inputs alone are not inductive: releasing an input is safe only because
  allocations and reservations point at each other, and expiring is safe only
  because the deadline index holds exactly the live quotes. Crashes add nothing,
  since what is on disk is always the database before, after the clock commit,
  or after both. `TypeCorrect`, `InputsExclusive` and the action properties
  `CommitIsIrrevocable`, `KeysAreUsedOnce` and `ClockIsKept` follow. With the
  audit log in the invariant, so does `AlwaysReopens`; with the counts of live
  quotes, `LimitsHold`; and with absent
  rows being empty, `BookImplementsLedger`, the refinement of `InputLedger`.
* `SettlementSigningProofs`: `SignedJobsAreCommitted`, `NoInputIsSignedTwice` and
  `CallersSeeTheStoredArtifact`. The invariant adds what a worker may rely on
  between its steps, and that a stored artifact signs its own payload, because
  recovery and replays answer from the book alone.
* `QuoteAdmissionProofs`: `BacklogIsDrained`, `AnswersAreDurable` and
  `QuotesComeFromTheLatestScan`. The invariant says what stays true of a call
  while others interleave: what it drained stays drained, its draft is part of
  the scan it names, and from the check of the view to the reservation that scan
  stays the latest, because the call holds the coordinator's lock.

### Node

From `ChainAssumption` (blocks form a tree with heights from the anchor, finitely
many contracts, a positive undo window, an absent value that is none of the
others) and `SyncAssumption`. The tree may be infinite, transactions may create
and spend anything, and the source may move anywhere it is said to.

* `ChainStoreProofs`: `Good(d, t)` says that every row and every history entry is
  the one at its position of the indexed chain up to `t`, that an undo record
  leads one block down, and that a retained undo record covers every row and
  every entry of its height. The last part is what makes canonical rows
  inductive: a rollback removes what the undo record lists, and rows of a height
  are written by the block, by a later backfill and by a registration. Applying a
  block, backfilling one and undoing one keep `Good`.

  The chain of a block, the legs of a block, the blocks undone and the contracts
  of a package are recursive functions. What they compute is shown by induction
  over a set: `Least` gives the smallest counterexample, and the existence of the
  function is proved the same way.
* `ChainSyncProofs`: late registration keeps `Good` as well. The inductive
  invariant `Inv` is `Good(db, db.tip)`, with the type of the pass and the
  evidence of registrations. A rollback never goes below the anchor, because the
  depth that the search for an ancestor settles on is kept only over steps that
  leave the store alone. `StoreAlwaysGood`, `TypeCorrect` and `RowsStayCanonical`
  follow. `CursorsStayUnique` follows from `CursorStep`, which every write
  satisfies: a canonical block changes the tip, a backfill and a registration
  append events, invalidation opens an epoch.

`RowsStayCanonical` is about the first two conjuncts of `EvidenceIsCanonical`. The
third, that the outputs of a tracked contract can be read, does not hold of every
tree: in the case of `chain_orphan` the contract is left with outputs of a block
that was rolled back.

### Market

For any payout, expiry and width of amounts (`MarketAssumption`):

* `MarketContractProofs`: `MarketTypeCorrect` and `MarketIsSolvent` of
  `MarketContract`. The invariant is the type and solvency together, one lemma
  per operation. With the refinement that `market_lifecycle` checks, what holds
  of the economics holds of the chain of that run.

### Wallet

For any paths, credentials and nonces and any bounds (`WalletAssumption`: the
nonce 0 exists and the purposes asked for are known ones; `CatalogAssumption` and
`AmountAssumption`: the limits are numbers):

* `PersistentWalletProofs`: first facts about one database. A row written under a
  new nonce leaves it valid; its catalog sorted by revision grows at the end; a
  root link determines wallet and keystore, and an entry link its entry. The
  inductive invariant `IInv` says that every file is good and holds the
  destinations returned from it, that confirmed names stay, that a handle holds
  the wallet of its file, and that the checkpoint of every exported backup is a
  prefix of the chain of some file. The last conjunct is about files that grow
  after the export, so it is stated for prefixes. `DestinationsAlwaysSurvive`
  follows from the first three. `OnlyExactBackupsRestore` follows from the last:
  whatever parts an operator puts together, restoring recomputes a chain that has
  to equal an exported checkpoint, and the links of that determine wallet,
  keystore and entries one by one.

### Only model-checked

* All liveness properties: the proof system has no fairness reasoning.
* Of the node: `ReadyIsReplayed` and `WatchedAreIndexed`, which need what
  consensus guarantees of a chain (a contract is created once, its outputs are
  spent in order) and which the finding of `chain_orphan` touches; `NoFault`,
  which compares two interpretations of a block.
* Trades, and the agreement of covenant, interpreter, builder and client. Their
  properties compare several readers of one transaction field by field, over all
  near misses of the planned ones; `CoinSelection`, below the trade, is a
  recursive operator, which keeps the prover out of the modules that use it.

## Abstractions and gaps

* Market. Outputs that others send to the market's scripts, key-path spends (the
  internal key has no known secret), confidential amounts other than reissuance
  tokens, range and surjection proofs, the annex and 32-bit index overflow are
  left out. The interpreter leaves the witness of follower inputs, and the
  builder the unit of the expiry lock, to the covenant; the properties say so. A
  market that has paid everything out has no live outputs. The node's index
  (`ChainStore`) and the market (`MarketLifecycle`) are separate models: in the
  first a transition is opaque, in the second there is one branch.
* Trade. One RFQ leg and one leg of another venue; `docs/liquidity-roadmap.md`
  allows at most one RFQ signer. The provider's validator refuses covenant
  outputs, locktimes and inputs that enable them, so those occur in the composer
  only. A quote does not carry the internal key of the provider's inputs; as in
  the repository's test, the composed PSET gets it separately. Sizes in bytes are
  a count of parts.
* Wallet. Encryption, derivation and tags are symbolic; header parsing, key
  derivation cost, file permissions and owners are left out. A source and its
  restored copy may run at the same time in the model, which the documentation
  does not support; the properties are per file and hold all the same.
* Wallet publication. `DestinationsSurvive` keeps the names of files whose
  publication was confirmed. A file that was linked and not confirmed, because
  the directory sync failed or the process was killed before it, can be opened
  and used, and `open` does not sync the directory: a power loss may then take its
  name away. The comments in `persistent.rs` and ADR 0008 ask the operator to
  inspect and reopen such a file and promise nothing about its name.

## Not modelled

* RPC handler and Iroh transport. Readers work on one redb snapshot each and
  change nothing durable. A subscription replays the journal up to the boundary
  it opened with and then follows it; the models cover the journal (cursors are
  never reused, `chain_reorg`) and not the hand-over. Permits of the transport
  are values owned by the tasks they bound.
* Key derivation, hint codecs, witness and backup byte layouts, quote
  transcripts and digests: bit-level code without state. Where a model meets it,
  it is symbolic.
* HTTP, JSON-RPC and command-line code.
