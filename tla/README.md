# A TLA+ model of core-eng

This directory holds a formal model of the sBTC system of this repository: the relay, the HTTP
messages it is reached with and its clients, the FROST signers and their coordinator, the Stacks
coordinator from the peg queue to both chains, and the signer's API. TLC checks the model on small
instances, and TLAPS proves its central properties for all sizes.

`PROJECT.json` lists the components, the runs, the source lines of every definition, the hazards and
the theorems. Each run is `tlc -workers 2 -config <cfg> <module>`; proofs are checked with
`tlapm <module>.tla`.

## The system

| Part | State | Operations | Talks to |
|---|---|---|---|
| relay-server | queue of messages, highwater mark per client; memory only | POST appends, GET returns the first unread message and moves the mark | everybody, over HTTP |
| HTTP codec (`yarpc/src/http`), `ProxyState` | what has been read of a message | `read`, `write`, `call` | relay and its callers |
| network clients (`frost-signer/src/net.rs`) | `in_queue` | `send_message` (retries until its backoff ends), `poll`, `next_message` | relay |
| FROST signer (`signing_round.rs`, `signer.rs`) | state machine, commitments, shares, polynomial, nonce, key share; memory only | one handler per message type, the end of each phase after every message; `verify_msg` before all of them | coordinator and signers, through the relay |
| FROST coordinator (`frost-coordinator`) | round id, public shares, nonces, signature shares, aggregate key; memory only | `run_distributed_key_generation`, `sign_message` | signers, through the relay |
| peg queue (`sqlite_peg_queue.rs`) | table of operations with a status, last processed height; SQLite | `from_connection`, `poll`, `sbtc_op`, `acknowledge` | Stacks node, run loop |
| Stacks coordinator (`stacks-coordinator/src/coordinator.rs`) | the key and its public shares (contract, file, memory), fee, cached nonce, the operation in hand | `try_from`, `load_dkg_data`, `run`, `process_queue`, `peg_in`, `peg_out`, `try_broadcast_transaction` | Stacks node, Bitcoin node, FROST coordinator, data directory |
| Stacks node client, `sbtc-alpha` contract | cached nonce; mempool, coordinator and key of the contract | `next_nonce`, `broadcast_transaction`, read-only calls | Stacks chain |
| Bitcoin node client, wallet | watch-only wallet, UTXOs | `load_wallet`, `list_unspent`, `fulfill_peg_out`, `broadcast_transaction` | Bitcoin chain |
| `stacks-signer-api` | five tables; SQLite, on file or in memory | REST routes, commands `run`, `simulator`, `swagger` | its database |
| `sbtc-mini` contracts, command-line tools, test helpers | (not modelled) | | |

What is hard in it:

* Messages are never acknowledged end to end. A POST whose response is lost is posted again; a GET
  whose response is lost has already moved the mark, so one client misses a message that all
  others get; the relay forgets everything when it restarts. A connection may break in the middle of a
  request or of a response.
* Every signer posts and reads on its own, so the shares of one phase arrive in any order, and
  late ones after others have gone on. Neither signers nor coordinator compare a `dkg_id`, a
  `sign_id` or a status with what they expect; correctness rests on the total order of the relay
  and on who waits for whom.
* A command can time out and leave its answers in the relay for the next command.
* A signer signs with the nonce it happens to have. That no nonce serves two signatures is a
  property of the whole protocol and not of a handler.
* The peg queue must hand out each operation at most once although the process may stop between
  any two SQL statements, blocks are polled again, and insertion resets the status of a row.
* An operation is a burn or a mint on one chain and a payment on the other, and a key is a round among the
  signers, a file and a contract call. The process may stop between any two of these, and an answer may be lost
  after what it answers has happened.
* The client counts nonces by itself: a number left out would hold up every transaction after it.
* Requests to the signer's API read and write by separate statements, and are served concurrently.

## Modules

    TotalOrder          the log as its clients see it: Publish, Deliver
      Broadcast         what the relay promises
      FrostNet          messages being posted and verified, faults, bounds
        SigningRound    a signer
        FrostCoordinator
          Frost         the composed system and its properties
            MCFrost, MCThreshold
            FrostProofs, FrostNonceProofs, FrostProtocolProofs
    Relay               relay-server and net.rs; implements Broadcast
      RelayProofs
    HttpCodec           HTTP messages of yarpc, symbol by symbol
      RelayWire         relay-server over connections that may break
        MCRelayWire, RelayWireProofs
    PegQueue            peg queue, run loop, Stacks node as it is seen
      MCPegQueue, PegQueueProofs
    NodeClient          Stacks node, contract, cached nonce
    BitcoinNode         wallet, UTXOs, broadcasts
    BitcoinWallet       fulfill_peg_out
    CoordinatorConfig   configuration file and command line
      StacksCoordinator the process over these four
        MCStacksCoordinator, StacksCoordinatorProofs
    SignerApi           the API, its tables, its requests
      MCSignerApi, SignerApiProofs

**Relay.** `queue` and `highwaters` are the fields of `MemState`; `in_queue` is that of
`HttpNetListen`; `sending` is the argument of `HttpNet::send_message` while it retries. The server
handles one connection at a time, so a request is one step there. Faults are separate actions:
`PostResponseLost`, `SendGivesUp`, `PollResponseLost`, `Restart`. The auxiliary variables `posted`,
`received` and `dropped` remember what the properties speak of. `Abstract` maps the relay to
`Broadcast`: the log is `posted`, the position of a client is the last post that `next_message`
gave it. Because this holds, the protocol modules use the log directly.

**HttpCodec, RelayWire.** They justify that a request is one step in Relay. A stream is a sequence of
symbols: separators (line ends, blanks, `:`, `?`, `&`, `=`) and words. `read` is `Message::read` as a function of
what was read so far and the next symbol; `write` is `Message::write`. In RelayWire each call has a connection;
the server reads the connections in the order they were made, applies a request once it is whole, and writes its
response; `Cut` breaks a connection between any two symbols. Next to `ProxyState` there is a client with headers
and capitals of its own (as ureq and curl have). `truth` is the auxiliary copy of `MemState` that the same calls
make directly.

**FrostNet, SigningRound, FrostCoordinator, Frost.** A process takes a message from the log, handles
it in one step and puts what it sends into its `outbox`; it posts these messages one by one before
it takes the next message, so posts of different processes interleave. `process`, `Handle` and
`PhaseEnd` follow `SigningRound::process`; the variable `phase` of the coordinator is the loop it is
blocked in, and each action is one turn of that loop with everything up to the next blocking call.
Cryptography is abstracted to provenance: a polynomial or nonce is the number of its draw, a public
or private share carries that number, a secret key is the map from key ids to the draws that went
into it, and `compute_secrets`, `aggregator_sign` and `proof_verify` (crate `wsts`, external)
succeed exactly when the parts belong together. Whether a curve point is even is a free choice, with
a bound on odd ones. The signature of a message is the process that made it; `verify_msg` looks up, by
the id the message carries, who should have. Key ids count from 1 in some messages and from 0 in others;
`ZeroBased` and `OneBased` keep the two apart. The coordinator does not verify what it reads, in the code and in the
model. `sign_id`, `sign_nonce_id` and `correlation_id` never change in the code and are left out.

**PegQueue.** An operation is one row, that is one pair of `txid` and `burn_header_hash`. The
status column, `last_processed_block_height` and the loop variables of `poll` are variables; `pc`
says where `run`, `poll` or `process_queue` is. The node is modelled by its height and by the
operations of its chain, with reorganisations. `Stop` may happen between any two SQL statements,
`PollOpsInterrupted` in the middle of the inserts of a block. An error that reaches `run` ends the
process in the code and is a stop in the model. `peg_in` and `peg_out` are one step that returns, or
a stop; StacksCoordinator opens that step.

**StacksCoordinator** with NodeClient, BitcoinNode, BitcoinWallet and CoordinatorConfig. `pc` and `self` are
where the process is and what it remembers; every request to a node, every round of the signers and every write of
the file is a step. A start goes through `create_frost_coordinator_from_path` (or `_from_contract`),
`load_dkg_data`, `LoadWallet`, `ImportAddress` and `OpenQueue`; an operation through `TakeOp`, `FulfillPegOut`,
`SignInputs`, then `NextNonce` and one of the answers to a broadcast (`Accepted`, `ConflictingNonce`, `FeeTooLow`,
`Refused`), then `BroadcastBitcoin`. The queue is the one PegQueue describes: an operation is handed out once per
database, and a database in memory ends with the process. `OpenQueue` says from where on: from a start height (taken to
be below every operation), from where the database is, or, with a new one, from the current block. The key of a round of key generation is its number.
`NodeClient` has the mempool, mines in the order of nonces and runs `set-coordinator-data` and
`set-bitcoin-wallet-public-key` of `sbtc-alpha.clar`; it answers a broadcast with any refusal that applies. Two
assumptions are made there: the coordinator's address owns the contract, and the node refuses a transaction whose
nonce waits in the mempool, also one with a higher fee (`Refusals`). `BitcoinNode` has the watch-only wallet. The address is imported with the timestamp
`"now"`, from which Bitcoin Core looks back two hours: `HoursPass`, between two starts, puts what was paid to a key that is not
imported yet into `missed`, and `listunspent` never shows it. `FeeExpected` has 0 in it
because the client reads the fee at the top level of the answer only. `fulfill_peg_out` is a recursive function over the list of
UTXOs; `ExpectedResult` is what it should return, over the set of them. Faults are a request that fails, an answer
that is lost after the transaction was accepted (`AcceptedUnheard`, the second branch of `BroadcastBitcoin`), a
failed round, a file half written, an import that the node refuses in an answer nobody reads (`ImportRefused`), a stop.
`World` has the configurations, command lines and contracts the instances start with.

**SignerApi.** `db` is the five tables. `update_config`, the simulator's program and the routes are sequences of
SQL statements, each a step; `req` has the local state of the requests being served. `add_transaction` is
`REPLACE INTO` with what the schema adds to it: the cascade and the trigger. `cast` and `base` remember
what was accepted; `acked` is the configuration in force, if it was written to its end and not beside another (`alone`),
and `steady` has the requests for it that began since. A database in memory ends with the process; that SQLite may
drop it earlier, when the pool closes its last idle connection, is left out. `paginate_items` is in the arithmetic of a `usize` of `USIZE` values, as a release build computes
it.

## Runs

| Run | Instance | Question |
|---|---|---|
| `relay` | 2 clients, 2 bodies, 3 posts, 2 faults | order and content of what clients are given, no silent skip, refinement of `Broadcast`; every accepted post reaches every polling client, unless a fault took it |
| `relay_wire` | 2 connections, 1 id, 2 contents, 1 broken connection | the bytes make no difference: the server's state and the answers are those of direct calls; only a break makes a call fail; every call returns |
| `frost_dkg_sign` | 2 signers with 2 keys and 1 key, 1 key generation, 1 signature, 1 odd point | key agreement, no message refused by `verify_msg`, signing succeeds, every command returns |
| `frost_rekey` | 2 signers, 2 rounds of key generation, 1 signature | nothing of the first round gets into the second, no signer dies |
| `frost_sign_faults` | a keyed system, 2 signatures; a timeout and a failed send, or a restart, or a repeated post and a lost response | nonces are fresh |
| `frost_threshold` | 3 signers, threshold 2, one down | finding: signing waits for all signers |
| `peg_queue` | 4 rows, 3 transactions, 2 blocks, 2 stops, 1 reorganisation, 1 call denied | at most once, nothing missed, in order, eventually |
| `peg_queue_start_height` | 3 operations, restart with a start height | finding: handed out twice |
| `peg_queue_remined` | 1 transaction in 2 blocks, 1 reorganisation | finding: both rows are handed out |
| `stacks_coordinator` | 7 configurations, up to 3 of 5 operations in each, 2 starts, 1 fault, a rising fee | nonces without a gap, no transaction twice, an operation on both chains or with an error, fulfilments that balance, a burn that is paid, a key that can be signed for, everything settles |
| `signer_api` | 2 requests at a time, 3 in all, 2 transactions, 2 starts, 1 failed statement | a vote for each transaction, no late vote, the last configuration is the one served, pages that add up |
| `signer_api_vote` | the same | finding: two votes are accepted |

Why the bounds are enough for the cases of interest:

* Three posts and two faults let a client miss a message, be behind the other client and have one message twice, in
  a relay that restarts in between.
* Two connections overlap in every way; the contents are the empty one and one with a line end and a colon in
  it, which would be taken for headers by a reader that looks at the content.
* Two signers are the least number whose shares can cross, and three keys on two signers tell the two ways of
  counting apart; two key generations and one odd point are the ways in which a round can follow another; two
  signatures are what one nonce could be used for twice.
* Two blocks and two stops let a block be polled again while its rows are new, pending or half inserted. `MaxUnknown` bounds the
  calls, one per height and kind of operation, that the node has denied and not answered since.
* Two starts and a fault let the process stop anywhere in its first life and go on, or start anew while the key's
  transaction still waits. Users can pay, and hours pass, between the two starts. The operations are a peg-in, two requests whose UTXOs can each cover the other's
  amount, one whose burn cannot be built and one that pays less than the fee it states; the sizes of UTXOs are on
  both sides of the dust limit. `MAX_NONCE_RETRIES` and `MAX_FEE_RETRIES` are 1 and 2, so that each limit is reached.
* Two requests are the least number that can race, the third sees what they left.

The theorems below remove the bounds for the relay and the wire, the peg queue, the signers and their coordinator, the
Stacks coordinator and the API.

`frost_sign_faults` starts (`KeyedInit`) in the state after a key generation in which everybody has read
everything and the relay was restarted, so that the faults can be spent on signing; `FaultMix` says which faults
may come together. Several runs do not check for deadlock: when nobody gives a command, calls or starts a process,
or when a bound is used up, the system is idle. `SYMMETRY` exchanges two signers with their keys, the payloads, or the
API's clients; it is used with safety properties only.

Definitions marked `Mutant` or `A slip` in the modules are no part of the model. Each is a plausible mistake in the
code of the definition after it; put in its place it must violate the property that `PROJECT.json` pairs it with,
which shows that the property can fail on these instances.

### Findings

1. `collect_nonces` waits for all signers, not for the threshold the diagram in
   `stacks-signer/README.md` shows. One signer that is down stops every signature.
2. `stacks-coordinator/README.md` promises at-most-once processing. A start height on the command
   line is applied at every start of the process, so rows that were handed out become new again.
3. The same promise, per Bitcoin transaction: a request that is mined again in another block after a
   reorganisation is another row and is handed out again.
4. `POST /v1/vote` promises CONFLICT once a vote has been cast. Two requests that overlap are both
   answered OK; `LateVoteRefused` shows that only overlapping ones are.

Met while translating, and in the model as the code has it, without a run of their own:

* `fulfill_peg_out` pays the withdrawn amount to the wallet's own script (`bitcoin_wallet.rs:110-114`); the recipient of
  the operation is not read.
* `coordinator_public_key` answers an optional none with an error (`client.rs:391`), so a start on a contract without
  coordinator data fails, although `create_frost_coordinator_from_path` has a branch that would load the data.
* `signer_data` ends with an error for every signer (`client.rs:200`), and asks for the ids 1..n of a contract that counts
  from 0, so `create_frost_coordinator_from_contract` never succeeds; `main` does not reach it.
* The height in the configuration file is never used: `main.rs:21` replaces it by the command line's, also by none.
* `list_unspent` is to return "all utxos from the given address" (`bitcoin_node.rs:15`), but the address is imported with the
  timestamp `"now"` (`bitcoin_node.rs:228`). When a process has announced its key, stopped before the import and is started
  again hours later, what was paid in between is not listed, neither as a fulfilment UTXO nor to cover an amount.
* `POST /v1/config` is to "update the signer's configuration" (`routes/config.rs:48`), and its test compares the lists with the
  posted ones (`routes/config.rs:148-155`). The lists only grow: `update_config` deletes nothing (`db/config.rs:34-50`), so
  those of an earlier configuration stay in force. `LatestConfigServed` shows that what was posted last is there.
* Errors of `update_config` are answered NOT_FOUND (`routes/config.rs:62`) where `routes/config.rs:55` documents
  INTERNAL_SERVER_ERROR.
* Any UTXO of the wallet may cover an amount (`bitcoin_wallet.rs:70`), also the fulfilment UTXO of a request that is still
  to come, which then ends with an error before its burn.
* The file with the public shares is opened without truncation (`coordinator.rs:389`): a second round with a shorter text
  leaves a file that the next start cannot read.

### What faults break

The properties of key generation and signing are checked without faults, apart from `NonceFreshness`.
Setting one of the `Max` constants of `FrostDkgSign.cfg` or `FrostRekey.cfg` to 1 shows what each
fault does, since nothing in the messages distinguishes rounds:

| Property | violated with |
|---|---|
| `SigningSucceeds` | one repeated post, or one timeout or given-up send of the coordinator (the next command takes the late answers) |
| `KeyAgreement` | one repeated post, one lost response, one timeout followed by another round, one restart; not with one send that gives up |
| `SignerStaysUp` | one repeated post (`DkgPrivateBegin` twice), a restart or a timeout followed by another round; a send that gives up ends a signer by itself |
| `NonceFreshness` | holds with each fault by itself and with the mixes checked above; it is violated when a repeated post, a lost response and a timeout come together: a second `SignShareRequest` reaches a signer that never saw the `NonceRequest` before it |

`AtMostOnce` needs `data_directory`: with `Persistent = FALSE` a restart begins with an empty
database. `NothingMissed` leaves out the calls that were answered with an unknown block (`get_burn_ops` takes every body that is
not JSON for that, and the height is saved all the same), and ends with the first reorganisation.

`KeyRecoverable` excludes rounds that replace a key which was already announced. These are the commands `Dkg` and
`DkgSign`, which run a round and save nothing, and a start before the transaction with the key is mined. Without a data
directory a coordinator that was started again has no public shares and cannot sign. That the file can be read is asked
only after the signers' first round, since a later text may be shorter than what it is written over. A peg-out whose burn was
accepted and whose payment failed, or whose process stopped, is not taken up again. `HandledInFull` does not exclude that;
`BurntIsPaid` says that nothing but a fault does it.

### Fairness

* Relay: weak fairness of `PollMessage` and `NextMessage` of each client. `poll_loop` calls them in an
  endless loop. Nothing makes a client post or a fault happen.
* RelayWire: callers go on writing and reading, and so does the server's loop. There is no timeout in the server,
  so a peer that neither sends nor closes would hold up everybody; the model's callers send all they have, or break.
* Frost: weak fairness of "take the next message or post the next answer" for each signer that is up
  and for the coordinator. These are the bodies of their loops. Commands, faults and odd points are
  never forced. A point is odd half of the time, so infinitely many odd ones have probability zero;
  the bound on them stands for that.
* PegQueue: weak fairness of the steps of a running coordinator. `run` is an endless loop. The calls to the Stacks node
  (reqwest) and to the signers have timeouts. Those to the Bitcoin node (ureq) have none: that it answers, or closes the
  connection, is an assumption. Nothing makes a stopped process start again.
* StacksCoordinator: weak fairness of the process's own steps, under the same assumption, and of mining.

## Proofs

**RelayProofs** (any `Client`, `Body`, any bounds; only `RelayAssumption`). The order of what a client
was given cannot be shown by itself: a step of `NextMessage` appends what is in `in_queue`, and a step
of `PollMessage` puts there what the mark points at. The invariant `IInv` therefore says that

* the queue is the end of the sequence of all posts (`QueueInv`), so an index of the queue is a
  position among all posts, also after restarts;
* `in_queue` holds at most one entry, and none when the thread is about to poll (`InQueueInv`), so
  that popping from the end is popping from the front;
* what a client holds is at or behind its mark, in order, with the posted body (`HeldInv`).

`NextIInv` shows that every action keeps it. `TypeCorrect` and `InOrder` follow; `RefinesBroadcast` shows
that initial states map to initial states, that an accepted post is `Publish`, that `next_message` with a
message is `Deliver`, and that all other steps, restarts included, are stutters. `SkipsNothing` is inductive
given `IInv`: a GET moves a mark over exactly the post it returns (`GetPassesOne`), which is then held or
counted as lost, and a restart counts what was above the mark in the queue it forgets.

**RelayWireProofs** (any number of connections and cuts, any ids that are words, any contents, separators and line ends included;
`WireAssumption`, and `NumberAssumption`: numbers are written as words, different ones differently). Three layers.

* The codec. `Split`, `Join` and `url_query` undo what writing does (`SplitOfLine`, `JoinOfThree`, `QueryOfId`). `Passes`
  says what `read` makes of a stretch of a stream: `ReadsLine` and `ReadsContent` go through a line and through a content
  by induction over its symbols, `PassesOn` puts stretches together. A line must not hold a CR, a content may:
  it is read by its length. `Carries` says that a stream is read to its end, not a symbol earlier, as the message it was
  written from; `WriteCarries` shows it of `Message::write`, `OtherCarries` of the other clients' requests.
* A connection. `Follows` relates what has not arrived to what was read so far; each symbol keeps it (`FollowsOn`). So
  a reader is in the middle of a message while symbols are missing, and has exactly the message when none is (`FollowsToEnd`,
  `RequestFollowed`, `ResponseFollowed`).
* The server and the callers. `WireInv` says of each connection (`Good`), by its place in the backlog, which stream is being followed:
  at the head the request, behind it nothing yet, and once the server is done the answer `MemState` gave, or none
  when the connection was broken by then or the GET had no id. One lemma per action; the three theorems follow.

**PegQueueProofs** (any operations, heights and bounds; a database on disk and no start height, as the
findings show these are needed). A row that is polled again becomes new, so at-most-once needs to know that
blocks of handed-out rows are never polled again. `IInv` says that a poll works on the block after the saved
height (`PollHeight`), that handed-out rows are at or below the saved height, and new ones at most one above
it, and not above it while the queue is being processed (`RowHeights`), and that what is still new does not
come before what was handed out (`NewAfterHanded`). From it follow `HandedAtMostOnce`, with reorganisations
and unknown blocks, and `HandedOutInOrder`. `NoBlockMissed` needs two more facts: the loop body has inserted
both kinds of operations of a block, or been denied them, when it saves the height (`Inserts`), and no height is saved before its
block is mined (`LastBelowTip`).

**StacksCoordinatorProofs** (any operations, worlds, fees, limits and bounds). For nonces and keys it takes of the
assumptions only that `None` is not a number. `NoNonceGap` speaks of the mempool, while a gap is made by the client. `NonceInv` adds what the client
knows: all nonces below an accepted one are taken, each once (`TakenNonces`), and the cached nonce is taken unless a
transaction with it is in hand, in which case all below it are (`CachedNonce`). A retry takes the next nonce only after
an answer that says the present one is taken, and every other failure ends the process and with it the cache: this is
why the cache that is never refreshed does no harm. `KeyRecoverable` follows from `KeyInv`: an announced key is
the signers' and, with a data directory, the file's (`KeyAnnounced`), and so is the key a process remembers from the
step on in which it has one (`KeyRemembered`). It uses `NonceInv`, since what is mined must be what was announced. `FileInv` adds that the first text in the file is
written over nothing, so that it can be read.

The rest of the module is about operations (`CoordinatorAssumption`: operations are
their own transaction ids, no operation is the id of a coordinator's transaction, amounts and fees are naturals). `OperationInv` says what the
process holds at each point (`HoldsInv`), that an operation has no more Stacks transactions than it was handed out
for, counting the one in hand (`StacksInv`), and that a fulfilment UTXO holds what was paid and is spent once its request
is fulfilled, so that no request is fulfilled twice (`BitcoinInv`). That a fulfilment which is built spends its UTXO, and only if it holds the fee,
is a fact about the loop in `fulfill_peg_out` for lists of any length. `Selection` is a recursive function for this
reason; `Induction` gets induction over `Nat`, for a set in the place of a predicate, from the library's theorem on
minimal elements, `TurnsExist` shows that the function has a value after every turn, and `SelectionGathers` carries `Gathered`
through the loop.

`FulfilmentsBalance` and `OrderNeverMatters` need sums over sets of UTXOs. They are folds of the community modules, whose
definition takes the elements in an order nobody knows: `SumsAnyOrder` shows by induction over the number of elements
that the order is of no account, and `SumAdds` and `SumOfPart` are all that the rest uses. For the loop this gives that
its total is the amount of the UTXOs consumed so far, that one is consumed for the amount only while the amount is not
covered, and that the loop ends with an error exactly where `ExpectedResult`, which knows only the set, says so. `FulfilmentInv` carries
the result to the broadcast: the inputs of the transaction in hand are UTXOs of the wallet, still unspent, each once, since
nobody else spends them and an output's id and index belong to one UTXO only. That a change below the dust limit is left to the
miner is bounded by `DUST`, which is at least 1 (`DustAssumption`). The action property `BurntIsPaid` follows (`BurnIsPaid`): only the
broadcast and a fault leave the point after the burn (`LeavesBtc`), and the broadcast finds its inputs unspent.

**FrostProofs** (any signers, keys, payloads and bounds, under all faults; `FrostAssumption`). `Inv` adds to the types who
makes which message: what is in the relay under somebody's signature, or waits in an outbox, is a message that this
process makes (`Own`), under its own signer id or one of its own key ids. One lemma per handler shows this of what
`process` returns; `TypeCorrect` and `HonestPostsVerify` follow. The second needs that no key id is listed by two
signers: `public_keys` keeps one of them, and the posts of the other would be refused.

**FrostNonceProofs** (the same, without lost responses). `NonceFreshness` rests on the coordinator and on the relay's
order, not on the signer, so `FreshInv` follows the requests through the log: between two different `SignShareRequest`s
there is a `NonceRequest` (`LogFresh`), what the coordinator is about to post keeps that so (`CoordFresh`), and a share
given with a signer's present nonce answers a request it has read with no `NonceRequest` read since (`SignedFresh`). With a
lost response a signer can miss exactly that `NonceRequest`; this is the counterexample in the table above, and why
the theorem has `spent["lost"] = 0` for a hypothesis. Repeated posts, timeouts, failed sends and restarts are allowed.

**FrostProtocolProofs** (any signers, keys, payloads and commands, until the first fault: the theorems have `NoFault`, that
nothing was repeated, lost, timed out, given up or restarted, for a hypothesis, since the table above shows faults that break each property;
keys and signatures also `KeysDisjoint`). No id is compared anywhere, so the properties rest on everybody
being in the same phase. `Lockstep` says it: each signer still has the request of the phase coming, is gathering shares, has its
answer on the way, or is done, and whoever is done has nothing on its way. It is inductive by itself and gives `SignersStayUp`.
`KeyInv` follows the draws: every share in the log after the last `DkgBegin`, in an outbox, a round or with the coordinator
is of its signer's current draw, and a public share the coordinator has yet to read comes before its signer's
`DkgPublicEnd`, so that when the last of these is read no share is missing (`UnreadDrawn`, `Coverage`). Signers that
end then compute one and the same map (`ComputeKey`), which is `KeysAgree`. `SignInv` adds that the nonces the
coordinator holds are the signers' current ones and that requests and shares on their way fit them; what `signature_shares`
still holds from earlier signatures belongs to signers that are still awaited, and is overwritten before it is used. This
is `SigningNeverFails`.

**SignerApiProofs** (any clients, transactions, files, posted configurations and bounds; `ApiAssumption`, `ConfigAssumption`). The properties
speak of what requests were answered, so `ApiInv` says what every request in the middle of its statements knows, and that it
still holds when it goes on whatever others write: that the row a vote was computed from counted the consensus the
transaction was added with (`Serving`), that each element of a configuration's lists is in its table or in a statement
to come (`Saving`), that the rows a list is read from still have votes. `TablesInv` relates votes, transactions and what was
cast; `ServerInv` says that a vote of the simulator is written on a transaction the same start has added before
(`OfStart`). `ConfigInv` is the part of `LatestConfigServed`: while a configuration is in force nobody is writing one, and
an update that overlaps no other still has to write its row or finds it written, so that the row and the lists it leaves
are its own. `PageOf` does the arithmetic of `paginate_items`: an offset below the length leaves room for the limit, since
a limit on a page above the first is at most the offset.

Every invariant and action property that a passing run checks is also a theorem, under the hypotheses named above. Only
model-checked: all liveness, since the prover does not handle fairness.

## Not modelled

* `sbtc-mini`: the contracts of the next design (token, registry, deposits, withdrawals, stacking pool, hand-off). No
  program here calls them, and a contract call runs alone. `sbtc-wallet-vote.clar` has no code yet;
  `clarity-bitcoin.clar` and `pox-3.clar` are other projects' contracts.
* The rest of `sbtc-alpha`: balances, signer data, the trading halt. The coordinator does not wait for a mint or a
  burn to be mined, so what the contract makes of them has no way back into the model.
* Encoding: transactions of both chains, Clarity values, JSON, TOML, the curve arithmetic. They have no state. The
  retransmission and the fee policy of the Bitcoin node are left out as well.
* `stacks-signer` (a command line around the signer modelled here), `sbtc-cli`, `stacks-doctor`, `test-vectors`,
  `misc/btctool`, `yarpc`'s rpc and js experiments, and the test helpers.

Worth doing next: the life of a withdrawal request over registry and token, which is fulfilled or
reclaimed, never both.
