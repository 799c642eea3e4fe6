# Specifications of the BOSagora rollup server

TLA+ modules, TLC configurations and TLAPS proofs for this repository: a server
that receives transactions over HTTP, makes blocks of them, and records the
headers of the blocks in a contract. Source paths below are relative to the
root of the repository.

## 1. The system

| Part | Source | State | Operations | Interacts with |
|---|---|---|---|---|
| HTTP interface | `src/service/routers/RollupRouter.ts` | `lastReceiveSequence` (-1 until it is loaded) | `POST /tx/record`, `GET /tx/sequence` | pool, table `setting` |
| Transaction pool | `src/service/scheduler/TransactionPool.ts` | none, it is the table `tx` | `add`, `get`, `remove`, `length` | database |
| Database | `src/service/storage/RollupStorage.ts`, `schema/RollupSchema.ts` | tables `tx` (key: sequence), `blocks` (key: height), `setting` | one SQL statement per method | everything in the server |
| Block maker | `src/service/scheduler/Node.ts`, `LastBlockInfo.ts` | `prev_hash`, `prev_height`, period | `onStart`, `work` | pool, IPFS, database, contract (read) |
| Block sender | `src/service/scheduler/SendBlock.ts`, `contract/GasPriceManager.ts` | period, the signer with its nonce | `work` | database, contract |
| Contract | `contracts/RollUp.sol` | `lastHeight`, `blockArray`, `blockMap` | `add`, `getByHeight`, `getByHash`, `getByFromHeight`, `getLastHeight`, `size` | called by the block sender and maker |
| Scheduler | `src/modules/scheduler/Scheduler.ts` | `state`, `is_working`, the cron task | `start`, `stop`, `waitForStop`, `workTask` | base class of block maker, sender and client |
| Server | `src/service/RollupServer.ts` | the schedulers | `start` (schedulers one after the other, then HTTP), `stop` | all of these |
| Main program | `src/main.ts`, `Storage.ts`, `utils/index.ts`, `WebService.ts` | none of its own | configuration, database, deployment, `start`, SIGINT, exit | server, contract |
| Configuration | `src/service/common/Config.ts` | a value for each field | `readFromFile`, `getScheduler` | main program |
| Client | `src/client/Client.ts`, `ClientScheduler.ts` | `lastSequence` | `getSequence`, `sendTransaction`, `work` | HTTP interface |
| Others | `IPFSManager.ts`, `Logger.ts`, `Amount.ts`, validation | none that others wait for | | |

A transaction goes from the HTTP interface into the table `tx`. Each period
(`config.node.interval`) the block maker takes the oldest `max_txs`
transactions, makes the block after the previous one, stores it in IPFS,
inserts its header into `blocks`, and removes the transactions. Each
`send_interval` the block sender reads the contract's last height, sends the
next block to `RollUp.add`, and deletes the rows below the height it read. The
sender does not wait until its transaction is mined. Everything runs in one
Node.js process; handlers interleave at their `await`s.

What makes this hard:

- no operation that touches two places is atomic: insert the transaction, then
  write its number; store the block in IPFS, insert the row, delete the
  transactions one by one; send, then prune. A crash or an error may come
  between any two steps, and the state after a restart is found from a pruned
  database and a contract that lags behind;
- state is read before an `await` and used after it (`lastReceiveSequence`,
  `prev_hash`, `last_height`);
- a block is sent again as long as the contract does not show it, so the chain
  may hold several pending transactions for one block, and the nonce of the
  signer is kept apart from the chain's;
- requests overlap, also with block making, and schedulers tick while another part
  is still starting, or stopping: `stop()` of a scheduler calls `onStart`, which
  assigns what a `work()` in progress reads;
- 2^64 - 1 means "no block" in the contract, and takes part in comparisons.

What makes each part correct:

- HTTP interface: no number is skipped, taken twice, or forgotten after it was
  acknowledged, also across restarts;
- block maker: the blocks over all restarts are one chain, with every received
  transaction in it, in order, once unless something failed;
- block sender: the contract gets those blocks, in order, each once, and in the
  end all of them; only published rows are deleted;
- contract: the headers are one chain, and reads are answered exactly when their
  headers exist;
- scheduler and server: one `work()` of a scheduler at a time; `stop()` ends, and
  leaves nothing running;
- main program: it serves requests or exits, no part of it runs before the contract
  is deployed, and only the schedulers that the configuration enables do;
- client: it never counts ahead of the server, and always gets on.

## 2. The modules

| Module | Models | Extends |
|---|---|---|
| `Block` | transactions, headers, hashes (of the library rollup-pm-common) | |
| `RollUp` | the contract | `Block` |
| `RollupStorage` | the tables `tx` and `blocks` | `Block` |
| `Faults` | which calls may fail in an instance, and how often | |
| `Node` | block maker, pool, LastBlockInfo | `RollupStorage`, `RollUp`, `Faults` |
| `SendBlock` | block sender, nonce manager, pending transactions of the chain | `Node` |
| `BlockPipeline` | pool, block maker, block sender, contract and chain together; crash and restart | `SendBlock` |
| `BlockLedger` | what the pipeline promises: receive, create, publish | `Block` |
| `RollupRouter` | `POST /tx/record` for several requests, table `setting` | `RollupStorage`, `Faults` |
| `ServerPipeline` | the HTTP interface, block maker, block sender, contract and chain together; crash, and stop by SIGINT with the `onStart` it calls | `RollupRouter`, `SendBlock` |
| `SequencedLedger` | what the server promises a client: offer, settle, acknowledge, create | `Block` |
| `RollupClient` | the client and the HTTP interface together | `RollupRouter` |
| `Scheduler` | the base class of the schedulers | |
| `RollupServer` | `start`, `stop` and SIGINT, over N schedulers | `Scheduler` |
| `Config` | what a file makes of the default values | |
| `Main` | the process from its configuration to its exit | `RollupServer`, `Config` |
| `MCRollUp`, `MCBlockPipeline`, `MCServerPipeline`, `MCRollupRouter`, `MCRollupClient`, `MCRollupServer`, `MCMain` | instances for TLC | the above |
| `RollUp_proofs`, `SendBlock_proofs`, `BlockPipeline_proofs`, `RollupRouter_proofs`, `ServerPipeline_proofs`, `RollupClient_proofs`, `RollupServer_proofs`, `Main_proofs` | theorems | the above, `TLAPS` |

How they correspond to the code:

- **Handlers.** An `async` handler is cut into one action per awaited call. The
  action is the effect of that call together with the code up to the next one.
  The variables `nodePc`, `sendPc`, `startPc` and `request[h].pc` say what a
  handler awaits; `nodeTxs`, `nodeBlock`, `sendLast`, `sendData` and
  `startInfo` are its local variables. `Scheduler.workTask` runs one `work()` of
  a scheduler at a time, so there is one `pc` per scheduler. The comparison of
  periods is a tick that may come at any time.
- **Optional values.** `undefined` and `null` are `{}`, a value is a singleton.
- **Data.** A transaction is a sequence number and a body. The hash of a block
  is its place in the order in which rows were inserted: two blocks never share
  a hash. The CID of a block is the set of its transactions, so properties can
  say what is in a block. Merkle root, timestamp, gas price and the text of
  messages are left out. Heights and the sentinel are numbers up to `Uint64Max`;
  an addition that Solidity checks is one that does not go past it.
- **History.** `received`, `offered` (what ever came into the pool), `settled` (by
  number, the transaction whose number was written), `ledger` (rows ever inserted in
  `blocks`) and `acked` record the past; no guard of the code reads them. (`Len(ledger) < MaxBlocks`
  in `WorkInsert` bounds the instance; it is a bound and not code.)
- **Chain.** External, from how `SendBlock` uses it: an account's transactions
  are mined in nonce order; a transaction replaces a pending one with its nonce
  or is refused; one that leaves a gap is queued; a call that the contract would
  reject fails when its gas is estimated. `MaxPending` is how many the pool of
  the chain holds. The nonce manager asks the chain for a nonce once and counts
  by itself before it sends.
- **Crash.** Every field and local variable is lost; tables, contract and
  pending transactions stay.
- **Combined steps.** `SendSelect` is the two reads of the database between
  which only a higher row can be inserted. `WorkInsert` is the IPFS call and the
  insert: nothing else reads what IPFS stores, and a crash between the two has
  the effect of one before. `Receive` in `BlockPipeline` is a request that runs
  alone; in `ServerPipeline` requests are cut at their awaits.
- **Two pipelines.** `BlockPipeline` has more blocks and two faults, and receives in
  one step; `ServerPipeline` has requests and stops as well, and one fault. The
  second uses the invariants of the first by instance (`Pipeline`, with `settled`
  for `received`).
- **Stop in the pipeline.** `Stop` is the call of `stop()` of `Node`, `StopOnStart`
  the two reads of the `onStart` it awaits and its assignment of `prev_hash` and
  `prev_height`, during which the `work()` in progress goes on. `SendBlock`, whose
  `onStart` does nothing, ticks until `Node.stop()` has returned. `StopClose` is the
  end of `waitForStop` for both, and `StopOver` the end of `close()`, which waits
  for the requests in service, with the process that is started next. That a stopped
  scheduler does not tick, and that the wait is long enough, is what `RollupServer`
  is about (`SingleWork`, `CleanStop`), where a scheduler is only its state and its
  tick. The first of the two reads may fail as well (`dbRead`, admitted by the module and
  left out of the runs, like the same failure at the start). One SIGINT is modelled in the pipeline; several
  are in `RollupServer`.
- **Life of the server.** `works` counts the calls of `work()` that have not
  returned; the code has no such counter. `waited` is `now - start` of
  `waitForStop`. A second `start()` is the one of `test/service/Scheduler.test.ts`.
- **Process.** `program` tells `main.ts`, which starts the server once and exits, from
  a test, which starts and stops it again and lets the port be free or not by
  itself. An instance of `RollupServer` has a fixed number N of schedulers, at least
  one: an instance of `Main` follows the files that enable N of them (in `MCMain`
  two), and every other file up to where it is refused. `exit` is the code of the
  process; nothing happens after it.
- **Files.** A field of a file is left out (`Undefined`) or has a value, of which is
  known whether it is falsy and, for an address, whether it is one. A section may be
  left out or be `Null`. The file of `MCMain` gives every field a value, but in one
  section.
- **Client.** `Respond` is the answer of the server on its way; the client waits
  for it without a timeout. `awaited` is the handler it waits for. When the client is
  restarted (`RestartClient`) or its connection breaks (`BreakConnection`), the server goes
  on with the request, and the client sends the next one to another handler: nothing in
  `RollupRouter.ts:270-288` keeps the two apart.
- **Types of heights.** A height read from the database is a number, one that Node has
  created or read from the contract is a bigint (`heightType`). `RollupStorage.ts:159`
  converts, `LastBlockInfo.ts:39` does not. `Block.createBlock` of the library rollup-pm-sdk
  adds 1n to the height of the previous block, which throws for a number
  (`WorkCreateThrows`); comparisons (`LastBlockInfo.ts:87`) take both. The library is external:
  that it adds a bigint follows from how `Node` and the tests call it, with -1n for "no block".
- Operators whose comment starts with "Faulty variant" are bugs on purpose. Each
  is put in the place of the definition after it to see that a property fails.

## 3. The runs

| Run | Configuration | Question | Result |
|---|---|---|---|
| `contract` | `MCRollUp.cfg` | is the array a chain, and is every read answered exactly when it should, whatever the owner sends? | holds |
| `pipeline` | `MCBlockPipeline.cfg` | with any two faults of nine kinds: one chain, published in order, nothing lost, nothing deleted early, what is sent the contract's next block or one it has, the ledger implemented? | holds |
| `server` | `MCServerPipeline.cfg` | one request at a time over the whole server, with one crash, stop or failing call: does what was acknowledged stay, while blocks are made of it? is a number in the chain once, and in order? does a stop under a `work()` spoil a block? is a number told before it is recorded? is the ledger with acknowledgements implemented? | it stays; once, and up to twice more for a fault; no; no; yes |
| `server_live` | `MCServerLive.cfg` | with one fault of nine kinds: is everything settled published in the end, and the table emptied? does no transaction wait behind a nonce that none has? | holds, but for what `number_height` shows |
| `client` | `MCRollupClient.cfg` | three of seven faults: lost answers, broken connections, restarts of either side, failing calls; a `work()` before `onStart` is over; a request that was given up in service next to a later one: is a number skipped, or told before it is recorded? does the client count ahead, and is the next number received? | no; at most one ahead; yes, from any number but 0 |
| `process` | `MCMain.cfg` | files of many forms, every failure of the start, two SIGINTs, stop and start again: does it serve or exit? does only what the file enables run? one `work()` at a time, `stop()` ends, nothing left behind? | holds |
| `slow_start` | `MCSlowStart.cfg` | are only published rows deleted, if `onStart` takes longer than a tick? | violated |
| `number_height` | `MCNumberHeight.cfg` | is everything published, if the server crashes once? | violated |
| `nonce_gap` | `MCNonceGap.cfg` | is everything published, if the read of the nonce fails once? | violated |
| `router_lost_ack` | `MCRouterLostAck.cfg` | does an acknowledged transaction stay, if two requests overlap? | violated |
| `client_zero` | `MCClientZero.cfg` | does the client get on from the number 0, if one answer is lost? | violated |
| `stop_timeout` | `MCStopTimeout.cfg` | does `waitForStop` keep to its timeout, also when SIGINT comes during the start? | violated |

**Bounds.** `MaxTxSeq` transactions, `MaxBlocks` blocks, `MaxTxs` per block,
`MaxPending` pending, `MaxFaults` faults per behaviour. In `pipeline`, three
transactions with two per block give full and partial blocks and a restart
between them; each fault may lead to one more block, and four blocks leave room
for a copied block that is published and pruned. Two pending transactions allow
a resend, a replacement, a gap and a full pool. Two faults are enough for each
failure followed by a crash, and for a send that fails followed by a nonce that
cannot be read. `Uint64Max` is one above the number of blocks, so the sentinel is next to the
heights reached. `MaxBlocks` is also the number of rows that can be inserted:
where it is reached, the block maker's step is disabled and what waits in the
pool stays there, which does not break a safety property; in `server_live`
one fault adds at most two blocks to the two that the transactions need, so the bound
of four is not reached before they are stored. `NonceBound` in `SendBlock` is above all
nonces reached with `MaxFaults` failures and a full pool.
In `server` three numbers are needed: the block under which a stop assigns
`prev_hash` and `prev_height` may be wrong only in the one made after it, and two come
before, one that the contract has and one that it has not. With one fault a number may be
in three blocks (`RepeatsNeedFaults`), and the fourth block is the one that would break
that. Two bodies let a number be offered with two transactions; they are interchangeable (`MCSymmetry`), which is sound as
the run checks no liveness and `ImplementsSequencedLedger` by steps only. One fault is
enough for each failure or stop by itself, with a crash in its place; combinations are
checked in `pipeline` (two faults), where requests do not overlap, and proved for any
number. One handler is the client that waits for its answer, which `OneClient` says in
the proofs; `router_lost_ack` shows what two do.
In `client` two handlers are a request that was given up and the next one. With three
faults the given up one may meet the next in each of its steps, with the field lost by a
restart, and both may be given up. `NoGap` and `NeverAhead` are checked there, with requests that overlap: their
mutant counts the field on instead of assigning it, which no requests one after the other
tell apart. For requests of any number and order they are proved (`NoSequenceSkipped`).
In the runs of the client the number space is the bound: `Advances` leaves out the
last two numbers, after which the instance has no transaction to send. In `process`
and `stop_timeout` `Timeout` is 3 and `WorkTime`, how long a `work()` may run on while
`stop()` waits, is below it: 60000 s stand against the seconds that a `work()` takes.
In `stop_timeout` it is 0, so that the wait is not for a `work()`.
Deadlock is not checked, as the instances end when their transactions are used
up and nothing is left to do.

**Fairness** (`FairSpec` of `BlockPipeline`, `ServerFairSpec`). Weak fairness of each scheduler: cron ticks every
second and calls `work()` as long as the process runs, and an awaited call
returns or fails. Weak fairness of mining the next nonce. No fairness of
a new request, of a crash, of a SIGINT, or of any fault; their number is finite. A
request in service goes on to its end, so does a stop, and somebody starts the server
again after it: without that nothing would be published any more. Every failed
`work()` is followed by another tick, so no stronger fairness is needed.
`ClientFairSpec`: the client ticks, the server serves every request, each handler by
itself, and what is awaited returns. `MainFairSpec`: what `main.ts` awaits returns or fails, an
awaited `onStart` and `work()` return, and each `stop()` goes on (its polling timer
fires, and time passes); cron need not tick, and nobody has to stop the server. In
`pipeline` there is no fairness, as it checks safety only.

**Violations.** Each is about a statement of the repository, quoted in
`PROJECT.json`:

1. *slow_start.* `Scheduler.start` schedules the ticks before it awaits
   `onStart`. A tick in a new period may then create a block after "no block"
   (height 0, null hash) although blocks exist. With block 0 pruned, its row is
   inserted; the contract never takes it; the next pruning deletes it, with its
   transactions.
2. *number_height.* The server crashes when the database has a block that the contract has
   not. `LastBlockInfo.getInfoByStorage` answers its height as sqlite gives it, so that
   `prev_height` is a number, and the next `Block.createBlock` throws, again with every tick.
   The blocks in the table are still sent, but none is made, until the server is started
   again with a contract that has caught up (or `stop()` calls `onStart`).
3. *nonce_gap.* `SendBlock.work` sets the nonce back by a read after a failed
   `add`. If that read fails, the nonce stays one ahead; every later send
   succeeds as a queued transaction, so nothing sets it back.
4. *router_lost_ack.* Two requests with one number pass the comparison
   before either has written; the second replaces the first, and both get 200.
   The client that stops waiting for an answer and sends a new transaction under
   the same number produces this.
5. *client_zero.* `Client.getSequence` tests the number for truth, and 0 is false:
   a client that has not seen the 200 for number 0 keeps sending it.
6. *stop_timeout.* A SIGINT while the schedulers are being started may pass a
   scheduler before it is started; `stop()` then waits for a scheduler that nobody
   stops any more, and ends only at the timeout, for which `waitForStop` documents
   milliseconds and compares seconds.

`pipeline` excludes a slow start, which 1 is about, and the fault `dbRead`:
`getInfoByStorage` answers `undefined` for any error too, which is the answer for an empty
table, and `NodeKnowsLastBlock` does not hold then. With no block in the contract the
block maker starts from the beginning; every insert fails on the key as long as the row
of block 0 is there, and once it is pruned a second block 0 goes the way of the one in 1.
The run does include `resync`, the fault of 3: safety does not depend on it.
`server_live` has the crash that 2 is about: its `PublishedOrStuck` says that everything
settled is published, or else the height stays a number for good. It
excludes `resync` and `drop`, without which `NoNonceGap` holds. What
remains of safety under both is proved: the blocks that are sent, and the contract,
stay right (section 4, any start).

## 4. The proofs

TLAPS checks all of them for every value of the constants.

**Contract** (`RollUp_proofs`). `RollUpInv`, the conjunction of the types,
`ChainLinked` and `SizeAgrees`, is inductive. `AddExtends` says what a call of
`add` that is accepted does. `ReadsExact` follows from `SizeAgrees`; `HashLookup` from
`MapNewest`, which says that the map has the height of the newest header of each hash.

**Block making** (`SendBlock_proofs`), for both pipelines, under `NormalStart`: no tick
before `onStart` is over, and a readable database at the start; all other faults, and
any number of them. None of the safety properties is inductive: that Node does
not fork after a crash depends on the row of the newest block being there, which
depends on the pruning, which depends on what the contract answered, which
depends on what was sent. `CoreInv` names these: `Linear` (rows
inserted are a chain), `Prefix` (the contract has a prefix of them), `Kept` (the
database has all from the contract's last on), `Sending` (what is pending or held
by the sender was created, and a height answered is never ahead of the
contract), `Starting` and `Building` (what Node knows while it starts
and while it builds) and `Removing` (where a transaction is). One lemma per kind of step
(`CoreNode`, `CoreSend`, `CoreChain`, `CoreRestart`) shows that it is kept; `CoreFrame` is for
steps that leave the blocks alone.

**Any start** (`SendBlock_proofs`). Without `NormalStart` the rows may fork and blocks may be
lost, as the run `slow_start` shows. What the contract gets is right all
the same, and `SoundInv` says why. A block may have been made after any block that was once the
last (`Told`); but such a predecessor is then below the contract's last block, or "no block", or
has its row still (`OnChain`). In the first two cases the new block has a height that the contract
is past, or is the first one. In the third the row keeps every other block of its height out
(`Stored`, the key of the table). The rows from the contract's last block on are not
deleted, those from the height that `work()` has asked for included (`KeptFrom`,
`InContract`): `SendBlock` deletes by an old height, and an old height only deletes less. So what is pending
or held by the sender is the contract's next block, with its row still there, or one the
contract has (`Due`, `OnTheWay`). From it, for both pipelines, with every start, stop and
fault: `PipelineSendsNext` and `ServerSendsNext`; the types (`PipelineTypeCorrect`,
`ServerTypeCorrect`); and `PipelineDrivesContract` and `ServerDrivesContract`, that the
pipeline implements `RollUpSpec`, so that what is proved of the contract by itself holds where
it is used (`PipelineContractChain`).

**Nonces** (`SendBlock_proofs`). `Gapless` says that the nonces of the chain's pool are distinct
and follow the mined ones without a gap, and that all below the signer's are used, except
between a failed call and the reading of the chain's count. It is inductive when that reading
does not fail and the chain forgets nothing (`"resync"` and `"drop"` are not in `Faults`), and gives
`PipelineLeavesNoNonceGap` and `ServerLeavesNoNonceGap`. Both conditions are needed: without the
first the run `nonce_gap` stops publishing, without the second a hole stays where the forgotten
one was.

**Pipeline** (`BlockPipeline_proofs`). `IInv` is `CoreInv` with `Pooled` (what was received
is in the pool or in a row) and `Knows` (Node has the last block in its fields).
From it: `NodeNeverForks`, `ContractHoldsPrefix`, `PrunedRowsArePublished`,
`NewestRowStays`, `NodeResumes`, `NothingReceivedIsLost`, and
`PipelineImplementsLedger`, the refinement: each step is one of `BlockLedger` or
a stutter. Two more need an invariant beside it: `BlocksInOrder` (`Ordered`: whatever Node
takes has all that was received before it in the blocks made or with it) and
`CopiesAreBounded` (`Copied`: the blocks a transaction is in, and one more while it waits,
are no more than one and one for each fault).

**HTTP interface** (`RollupRouter_proofs`). `RouterInv` is inductive for any set
of handlers: each request in service goes on from a number that is recorded.
It gives `NoSequenceSkipped` and `SequenceIsRecorded`. Under `OneClient` (one
handler) `Alone` is inductive with it, and gives `AcknowledgedStays`,
`RestartExpectsSame` and `SequenceIncreases`.

**Whole server** (`ServerPipeline_proofs`). The lemmas on the actions of the HTTP
interface are stated for a pool that others take from, as long as what leaves it is in a
block: `Taken` does not shrink (`Placed` says where a transaction that was offered is).
With the invariant of the pipeline's own part that gives `ServerSkipsNothing`
and `ServerNeverAhead` for any number of requests at the same time. Under `OneClient`:
`ServerKeepsAcknowledged`, `ServerExpectsSame`, `ServerSequenceIncreases`, and
`ServerImplementsLedger`, the refinement. Its invariant `RefInv` says that `settled` is
what the row `setting` counts, that a number which is offered and not settled is the
next one (`Settling`), and that whatever Node takes has all settled numbers before it in
the blocks made or in what it takes with it (`Ordering`, `Preceded`): the order in which
`pool.get` reads the table is what makes that hold over failed removals, crashes and
stops. `ServerRepeatsNeedFaults` counts, for each number, the blocks it is in (`Places`), the
transactions that may still come into a block (`Waiting`) and whether the number is open to
be offered again (`Open`): only a fault adds to their sum, a crash up to two.
Under `NormalStart`, `CoreInv` holds for the whole server as well. A stop assigns `prev_hash`
and `prev_height` under a `work()`; `Stopping` says why that does not spoil a block: what the
first read of `onStart` found is still the last block while Node has not inserted its row,
and after it no `work()` begins before the process is a new one. `ChainInv` is the
conjunction, and gives `ServerBuildsOnLast` and `ServerOneChain`, and with
`OneClient` `ServerAckedKept`: what is acknowledged outlives the pruning. `ServerKeepsRows` is
`PrunedIsPublished` and `NewestRowKept` of the pipeline, in the whole server.

**Client** (`RollupClient_proofs`), for any number of handlers. A step of the client and the
server is one of the HTTP interface, or leaves it alone, so `RouterInv` holds, and with it
`ClientIsServed` (`NoGap`, `NeverAhead`), whatever the client gives up. `Counting` adds what
the client has counted and is about to count: the request it waits for has the number after
it, or one that `onStart` has seen in between, which is the one number by which it may be ahead
(`Ahead`); requests it has given up do not matter to it, as all that is recorded stays
(`Has`). From it `ClientCountsNotAhead`, and the types. `PatientClientKeeps` is about what does
not hold for every client: `AckedNotLost` and `FieldAgrees`, under `Patient`, that the client
gives no request up unless the server is restarted. Then it has one request in service
(`AloneStep`), and both hold over lost answers, failing calls and restarts of the server.
Without `Patient` TLC refutes both with two handlers: the client sends a number with
another transaction, and the request it gave up replaces it.

**Process** (`Main_proofs`). Each step of `Main` is one of `RollupServer` or leaves it
alone (`MainImplementsServer`), so what is proved of start and stop holds in the process
(`ProcessOneWork`, `ProcessStopIsClean`, both under `Orderly`).
`ContractDeployedFirst` has an invariant of its own: that the server has not been started
before its phase.
`OnlyEnabledSchedulersTick` rests on `ScheduleInv`: the schedulers that are constructed are those
the configuration enables, in the order of `main.ts`, and the configuration enables what the file
does, as no default does. `MainOneWork` needs no `Orderly`: `main.ts` starts the server once
(`OneStartOneWork`). `ProcessTypeCorrect` has the types, from both modules.

**Life of the server** (`RollupServer_proofs`), under `Orderly`: no SIGINT before
the start is over, and no `work()` that outlasts the timeout. That nothing is left
when `stop()` is over depends on what each call of `stop()`, at each place in its two
loops, has asked of the schedulers it has passed (`Obeyed`), on `is_working`
(`Counted`, `Ended`), and on the wait being shorter than the timeout (`InTime`); that
a start finds the schedulers idle depends on it in turn (`Calm`). From the invariant
`IInv`: `OneWorkAtATime` and `StopIsClean`. Two results do without `Orderly`, so with a SIGINT
at any time and a `work()` of any length: `LifecycleTypeCorrect`, and `OneStartOneWork`, that a
server which is started once never runs two `work()` of a scheduler at a time, as only a second
`start()` resets `is_working` under a `work()`.

The assumptions are those on the constants: the bounds are natural numbers, there are enough
hashes and heights for `MaxBlocks` blocks, and the section of the schedulers in a file has the
fields of `ISchedulerConfig` or is missing (`MainAssumption`).

Only model-checked: the liveness properties (`PublishedOrStuck`, `EventuallyEmptied`,
`Advances`, `StartDecides`, `StopEnds`), as liveness under fairness is out of the prover's reach.
Every safety property that a passing run checks is proved. Of a slow start no more is claimed
than under "any start", and of an early stop that `work()` is not doubled and that the timeout
ends it. The cases with several requests at a time, in which an acknowledged transaction may be
replaced, also those of one client that gives a request up, have what `router_lost_ack` leaves: no number is skipped, and none is told that is
not recorded.

## 5. Not modelled

- Validation of parameters and signatures, authorisation: they answer before any
  state is read.
- Logging, amounts, gas price, YAML, HTTP and IPFS as protocols.
- A SIGINT between the construction of the server and the end of its start in
  `ServerPipeline` (`RollupServer` has it, with `EarlyStop`), and in the same module more
  than one call of `stop()`.
- Reorganisations of the chain. A row that was deleted is then gone.
- `statement.run` without a callback in `insertTx`: whether a failing insert is
  noticed depends on the sqlite3 library. `insertTx` fails as a whole here.
- Two servers on one database. The redeployment of the contract outside production
  with a database that persists: `Main` has the deployment, the pipelines keep their
  contract over a restart, as in production. A database whose first blocks were pruned
  cannot serve a new contract, and the code makes no provision for it.
- That a block is published after the chain dropped its transaction: the signer
  is ahead then, and is set back only when a send fails.

## 6. Plan

Done: the contract, the block pipeline with its refinement, the HTTP interface, the whole
server with its refinement, the client, the life of the server, the process and its
configuration, and proofs of all safety properties that the runs check. Next, in this order:

1. `Amount`: `make`, `convert` and `toBOAString` as functions on numbers, against
   the value they stand for (also for negative amounts and for 0 decimals).
2. The client with the whole server, in place of the HTTP interface alone: its refinement
   to `SequencedLedger` by the theorems on `OneClient`.
3. A reorganisation of the chain as a fault of `SendBlock`, with the properties that still
   hold under it.
