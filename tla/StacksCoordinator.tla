-------------------------- MODULE StacksCoordinator --------------------------
(***************************************************************************)
(* The stacks-coordinator process: its start (main, TryFrom<&Config>), the *)
(* key it shares with the signers and the contract, and what it does with  *)
(* the operations the peg queue hands out (mint for a peg-in; fulfil, burn *)
(* and pay for a peg-out request).  It runs between a Stacks node          *)
(* (NodeClient), a Bitcoin node (BitcoinNode), the signers and the data    *)
(* directory.                                                              *)
(*                                                                         *)
(* Every request to a node is a step of its own, so that blocks, fees and  *)
(* a stop of the process fall between any two of them.  Every error ends   *)
(* the process: run returns, main logs and returns.  The keys of the       *)
(* successive rounds of key generation are 1, 2, ...                       *)
(***************************************************************************)
EXTENDS NodeClient, BitcoinNode, BitcoinWallet

CONSTANTS
    Op,                  \* operations on the Bitcoin chain
    Detail,              \* Op -> [type, amount, fulfillment_fee, txid, paid, burnable]
    World,               \* what is given: [raw, clis, coordinator, ops], the configuration
                         \* file, the command lines, the contract's coordinator and the
                         \* operations to come
    MAX_NONCE_RETRIES,
    MAX_FEE_RETRIES,
    Signers,             \* the contract's [num_signers, threshold, signers]
    JsonSize,            \* lengths the JSON text of a round's shares may have
    MaxDkg, MaxStarts, MaxFaults  \* bounds

C == INSTANCE CoordinatorConfig

Call == {"set-coordinator-data", "set-bitcoin-wallet-public-key", "mint!", "burn!"}
PegIn(o) == Detail[o].type = "PegIn"

ASSUME CoordinatorAssumption ==
    /\ MAX_NONCE_RETRIES \in Nat /\ MAX_FEE_RETRIES \in Nat
    /\ MaxDkg \in Nat /\ MaxStarts \in Nat /\ MaxFaults \in Nat
    /\ JsonSize \subseteq Nat
    /\ \A o \in Op : Detail[o].txid = o /\ <<"tx", o>> \notin Op
    /\ \A o \in Op : Detail[o].amount \in Nat /\ Detail[o].paid \in Nat
    /\ \A o \in Op : ~PegIn(o) => Detail[o].fulfillment_fee \in Nat
    /\ None \notin Op \cup [call : Call, arg : Op \cup Nat \cup {ADDRESS}]

VARIABLES
    world,       \* the member of World the system is in
    pc,          \* where the process is
    self,        \* what it remembers
    nonce,       \* the nonce in hand while a transaction is being broadcast
    signer_key,  \* the round of key generation the signers hold shares of
    file,        \* dkg_public_shares.json: [key, size, len]
    opened,      \* peg_queue.sqlite has a last processed height
    marked,      \* peg_queue.sqlite: operations handed out, or below the height it
                 \* was first opened at
    requested,   \* operations on the chain
    hands,       \* how often each operation was handed out
    done, cut,   \* operations handled to the end; ended by an error or a stop
    rekeyed,     \* a round ran when a key had already been announced
    starts, faults

procVars == <<pc, self, nonce, next_nonce>>
keyVars == <<signer_key, file, rekeyed>>
queueVars == <<opened, marked, requested, hands, done, cut>>
vars == <<procVars, nodeVars, btcVars, keyVars, queueVars, world, starts, faults>>

NoProcess == [config |-> None, command |-> None, key |-> None, shares |-> None,
              fee |-> None, cur |-> None, task |-> None, marked |-> {},
              nonce_retries |-> 0, fee_retries |-> 0, fulfill_tx |-> None]

InMemory == self.config.data_directory = None
Handed == IF InMemory THEN self.marked ELSE marked   \* not to be handed out (again)

(* Keys the contract has or will have once the mempool is mined.           *)
Announced ==
    ({contract.key} \ {None})
    \cup {t.arg : t \in {u \in Mempool : u.call = "set-bitcoin-wallet-public-key"}}

-----------------------------------------------------------------------------
(* The process ends: what it remembers is gone, the operation in hand is   *)
(* not handed out again.                                                   *)
Exit ==
    /\ pc' = "down"
    /\ self' = NoProcess
    /\ nonce' = None
    /\ next_nonce' = None
    /\ cut' = IF self.cur = None THEN cut ELSE cut \cup {self.cur}
    /\ UNCHANGED <<opened, marked, requested, hands, done>>

(* The next step of the process, with what it remembers.                   *)
Step(label, mem) ==
    /\ pc' = label
    /\ self' = mem
    /\ UNCHANGED <<nonce, next_nonce, queueVars, world, starts, faults>>

Stays == UNCHANGED <<world, starts, faults>>
Fault == faults < MaxFaults /\ faults' = faults + 1 /\ UNCHANGED <<world, starts>>

(* The calls of the contract that the wallet builds transactions for: an   *)
(* operation's, and the two of a start.                                    *)
build_transaction(o) == [call |-> IF PegIn(o) THEN "mint!" ELSE "burn!", arg |-> o]

build_set_bitcoin_wallet_public_key_transaction(public_key) ==
    [call |-> "set-bitcoin-wallet-public-key", arg |-> public_key]

build_set_coordinator_data_transaction(address) ==
    [call |-> "set-coordinator-data", arg |-> address]

-----------------------------------------------------------------------------
(* Starting.  main, then StacksCoordinator::try_from.                      *)
Start(cli) ==
    /\ pc = "down"
    /\ starts < MaxStarts
    /\ starts' = starts + 1
    /\ IF C!Starts(world.raw, cli)
       THEN LET config == C!Configured(world.raw, cli)
            IN  /\ pc' = "coordinator"
                /\ self' = [NoProcess EXCEPT !.config = config, !.command = cli.command,
                                             !.fee = config.transaction_fee]
       ELSE UNCHANGED <<pc, self>>
    /\ UNCHANGED <<nonce, next_nonce, nodeVars, btcVars, keyVars, queueVars, world, faults>>

(* The contract must have coordinator data, if only another's, or the      *)
(* start fails; another's is replaced by a transaction.                    *)
create_frost_coordinator_from_path ==
    /\ pc = "coordinator"
    /\ self.config.signer_config_path # None
    /\ LET loaded == coordinator_public_key(ClarityOptional(contract.coordinator))
       IN  CASE loaded.result = "err" -> Exit /\ Stays
             [] loaded.result = "ok" /\ loaded.value = ADDRESS -> Step("dkg_data", self)
             [] OTHER -> Step("nonce", [self EXCEPT !.task =
                              build_set_coordinator_data_transaction(ADDRESS)])
    /\ UNCHANGED <<nodeVars, btcVars, keyVars>>

(* Reached when try_from is given a configuration that main did not        *)
(* complete.                                                               *)
create_frost_coordinator_from_contract ==
    /\ pc = "coordinator"
    /\ self.config.signer_config_path = None
    /\ IF \/ keys_threshold(Signers.threshold).result = "err"
          \/ coordinator_public_key(ClarityOptional(contract.coordinator)).result = "err"
          \/ public_keys(Signers).result = "err"
       THEN Exit /\ Stays
       ELSE Step("dkg_data", self)
    /\ UNCHANGED <<nodeVars, btcVars, keyVars>>

(* The JSON parser refuses text with something after its end.              *)
Readable == file.key # None /\ file.size = file.len

load_dkg_data ==
    /\ pc = "dkg_data"
    /\ LET xonly_pubkey == bitcoin_wallet_public_key(ClarityOptional(contract.key)).value
       IN  IF xonly_pubkey = None THEN Step("dkg", self)
           ELSE IF InMemory THEN Step("wallet", [self EXCEPT !.key = xonly_pubkey])
           ELSE IF Readable
                THEN Step("wallet", [self EXCEPT !.key = xonly_pubkey, !.shares = file.key])
                ELSE Exit /\ Stays
    /\ UNCHANGED <<nodeVars, btcVars, keyVars>>

(* A round of key generation replaces the shares the signers hold; one     *)
(* that fails has already made them discard the old ones.                  *)
NewRound ==
    /\ signer_key < MaxDkg
    /\ signer_key' = signer_key + 1
    /\ rekeyed' = (rekeyed \/ Announced # {})
    /\ UNCHANGED file

SetKey(mem) ==
    Step("nonce",
         [mem EXCEPT !.task = build_set_bitcoin_wallet_public_key_transaction(mem.key)])

(* A slip: the shares are not saved before the key is announced.           *)
KeyGenerationUnsaved ==
    /\ pc = "dkg"
    /\ NewRound
    /\ SetKey([self EXCEPT !.key = signer_key + 1, !.shares = signer_key + 1])
    /\ UNCHANGED <<nodeVars, btcVars>>

run_distributed_key_generation ==
    /\ pc = "dkg"
    /\ NewRound
    /\ LET mem == [self EXCEPT !.key = signer_key + 1, !.shares = signer_key + 1]
       IN  IF InMemory THEN SetKey(mem) ELSE Step("write", mem)
    /\ UNCHANGED <<nodeVars, btcVars>>

KeyGenerationFails ==
    /\ pc = "dkg"
    /\ NewRound
    /\ Exit /\ Fault
    /\ UNCHANGED <<nodeVars, btcVars>>

(* The file is opened without truncation.                                  *)
Longer(a, b) == IF a > b THEN a ELSE b

write_dkg_public_shares ==
    /\ pc = "write"
    /\ \E size \in JsonSize :
          file' = [key |-> self.key, size |-> size, len |-> Longer(file.len, size)]
    /\ SetKey(self)
    /\ UNCHANGED <<nodeVars, btcVars, signer_key, rekeyed>>

StoppedWhileWriting ==
    /\ pc = "write"
    /\ \E size \in JsonSize : \E n \in 1..(size - 1) :
          file' = [key |-> None, size |-> 0, len |-> Longer(file.len, n)]
    /\ Exit /\ Fault
    /\ UNCHANGED <<nodeVars, btcVars, signer_key, rekeyed>>

LoadWallet ==
    /\ pc = "wallet"
    /\ create_empty_wallet
    /\ Step("import", self)
    /\ UNCHANGED <<nodeVars, keyVars>>

ImportAddress ==
    /\ pc = "import"
    /\ import_address(self.key)
    /\ Step("queue", self)
    /\ UNCHANGED <<nodeVars, keyVars>>

(* The answer has a verdict for each descriptor, which nobody reads: an    *)
(* import that the node refused is taken for done.                         *)
ImportRefused ==
    /\ pc = "import"
    /\ pc' = "queue"
    /\ UNCHANGED <<self, nonce, next_nonce, queueVars, nodeVars, btcVars, keyVars>>
    /\ Fault

(* What the queue leaves out from here on.  A start height given on the    *)
(* command line is below every operation: all are polled, also those that  *)
(* a database has already.  Without one a database that was opened before  *)
(* goes on where it is; a new one starts at the current block, below which *)
(* any of the operations on the chain may be and those of hours ago are.   *)
Old == {o \in requested : \E u \in missed : u.txid = o}

LeftOut ==
    CASE self.config.start_block_height # None -> {{}}
      [] self.config.start_block_height = None /\ ~InMemory /\ opened -> {marked}
      [] OTHER -> {S \in SUBSET requested : Old \subseteq S}

OpenQueue ==
    /\ pc = "queue"
    /\ \E S \in LeftOut :
          /\ self' = IF InMemory THEN [self EXCEPT !.marked = S] ELSE self
          /\ marked' = IF InMemory THEN marked ELSE S
    /\ opened' = (opened \/ ~InMemory)
    /\ pc' = IF self.command = "Run" THEN "idle" ELSE "round"
    /\ UNCHANGED <<nonce, next_nonce, requested, hands, done, cut>> /\ Stays
    /\ UNCHANGED <<nodeVars, btcVars, keyVars>>

(* The commands Dkg and DkgSign: another round, then the process ends.     *)
(* The signature DkgSign makes afterwards changes nothing that is kept.    *)
run_dkg_round ==
    /\ pc = "round"
    /\ NewRound
    /\ Exit /\ Stays
    /\ UNCHANGED <<nodeVars, btcVars>>

-----------------------------------------------------------------------------
(* Broadcasting a Stacks transaction.  During the start any refusal ends   *)
(* the process; try_broadcast_transaction, for operations, retries a       *)
(* conflicting nonce with the next one and a low fee with the fee asked    *)
(* for.                                                                    *)
Retries == self.task.call \in {"mint!", "burn!"}

NextNonce ==
    /\ pc = "nonce"
    /\ \E n \in 0..MaxNonce : take_nonce(n) /\ nonce' = n
    /\ pc' = "broadcast"
    /\ UNCHANGED <<self, nodeVars, btcVars, keyVars, queueVars, world, starts, faults>>

(* A peg-out request whose Stacks address cannot be recovered.             *)
Buildable == self.task.call = "burn!" => Detail[self.task.arg].burnable

BuildFails ==
    /\ pc = "broadcast"
    /\ ~Buildable
    /\ Exit /\ Stays
    /\ UNCHANGED <<nodeVars, btcVars, keyVars>>

Posted(reply) ==
    /\ pc = "broadcast"
    /\ Buildable
    /\ reply \in Replies(nonce, self.fee)

(* The operation is finished with: what belongs to it is dropped.          *)
FinishOp ==
    /\ done' = done \cup {self.cur}
    /\ self' = [self EXCEPT !.cur = None, !.task = None, !.nonce_retries = 0,
                            !.fee_retries = 0, !.fulfill_tx = None]
    /\ UNCHANGED <<opened, marked, requested, hands, cut>>

Accepted ==
    /\ Posted(Ok("accepted"))
    /\ Accept(nonce, self.task.call, self.task.arg)
    /\ UNCHANGED <<account_nonce, required_fee, contract, next_nonce>>
    /\ nonce' = None
    /\ \/ /\ self.task.call = "mint!"
          /\ pc' = "idle"
          /\ FinishOp
       \/ /\ self.task.call # "mint!"
          /\ pc' = CASE self.task.call = "set-coordinator-data" -> "dkg_data"
                     [] self.task.call = "set-bitcoin-wallet-public-key" -> "wallet"
                     [] OTHER -> "btc"
          /\ self' = [self EXCEPT !.task = None]
          /\ UNCHANGED queueVars
    /\ Stays
    /\ UNCHANGED <<btcVars, keyVars>>

(* A slip: an answer that does not arrive is retried like a refusal.       *)
AcceptedUnheardRetried ==
    /\ Posted(Ok("accepted"))
    /\ Accept(nonce, self.task.call, self.task.arg)
    /\ UNCHANGED <<account_nonce, required_fee, contract>>
    /\ pc' = "nonce" /\ Fault
    /\ UNCHANGED <<self, nonce, next_nonce, queueVars, btcVars, keyVars>>

(* The node accepts the transaction but its answer does not arrive.        *)
AcceptedUnheard ==
    /\ Posted(Ok("accepted"))
    /\ Accept(nonce, self.task.call, self.task.arg)
    /\ UNCHANGED <<account_nonce, required_fee, contract>>
    /\ Exit /\ Fault
    /\ UNCHANGED <<btcVars, keyVars>>

(* A slip: the limit is checked before the retry is counted.               *)
ConflictingNonceOnceMore ==
    /\ Posted(Err([kind |-> "ConflictingNonceInMempool"]))
    /\ IF Retries /\ self.nonce_retries <= MAX_NONCE_RETRIES
       THEN Step("nonce", [self EXCEPT !.nonce_retries = @ + 1])
       ELSE Exit /\ Stays
    /\ UNCHANGED <<nodeVars, btcVars, keyVars>>

ConflictingNonce ==
    /\ Posted(Err([kind |-> "ConflictingNonceInMempool"]))
    /\ IF Retries /\ self.nonce_retries + 1 <= MAX_NONCE_RETRIES
       THEN Step("nonce", [self EXCEPT !.nonce_retries = @ + 1])
       ELSE Exit /\ Stays
    /\ UNCHANGED <<nodeVars, btcVars, keyVars>>

(* A slip: every retry takes another nonce.                                *)
FeeTooLowNextNonce ==
    \E e \in FeeExpected :
        /\ Posted(Err([kind |-> "FeeTooLow", expected |-> e]))
        /\ IF Retries /\ self.fee_retries + 1 <= MAX_FEE_RETRIES
           THEN Step("nonce", [self EXCEPT !.fee_retries = @ + 1, !.fee = e])
           ELSE Exit /\ Stays
        /\ UNCHANGED <<nodeVars, btcVars, keyVars>>

FeeTooLow ==
    \E e \in FeeExpected :
        /\ Posted(Err([kind |-> "FeeTooLow", expected |-> e]))
        /\ IF Retries /\ self.fee_retries + 1 <= MAX_FEE_RETRIES
           THEN Step("broadcast", [self EXCEPT !.fee_retries = @ + 1, !.fee = e])
           ELSE Exit /\ Stays
        /\ UNCHANGED <<nodeVars, btcVars, keyVars>>

Refused ==
    /\ Posted(Err([kind |-> "Other"]))
    /\ Exit /\ Stays
    /\ UNCHANGED <<nodeVars, btcVars, keyVars>>

-----------------------------------------------------------------------------
(* Operations.                                                             *)
TakeOp(o) ==
    /\ pc = "idle"
    /\ o \in requested \ Handed
    /\ hands' = [hands EXCEPT ![o] = @ + 1]
    /\ marked' = IF InMemory THEN marked ELSE marked \cup {o}
    /\ LET mem == [self EXCEPT !.cur = o, !.marked = IF InMemory THEN @ \cup {o} ELSE @]
       IN  IF PegIn(o)
           THEN pc' = "nonce" /\ self' = [mem EXCEPT !.task = build_transaction(o)]
           ELSE pc' = "unspent" /\ self' = mem
    /\ UNCHANGED <<nonce, next_nonce, nodeVars, btcVars, keyVars, opened, requested, done, cut,
                   world, starts, faults>>

(* A slip: a request that cannot be fulfilled is dropped as handled.       *)
FulfillPegOutSkips ==
    /\ pc = "unspent"
    /\ \E available \in list_unspent(self.key) :
          LET tx == fulfill_peg_out(Detail[self.cur], self.key, available)
          IN  IF "err" \in DOMAIN tx
              THEN pc' = "idle" /\ FinishOp /\ UNCHANGED <<nonce, next_nonce>> /\ Stays
              ELSE Step("sign", [self EXCEPT !.fulfill_tx = tx])
    /\ UNCHANGED <<nodeVars, btcVars, keyVars>>

FulfillPegOut ==
    /\ pc = "unspent"
    /\ \E available \in list_unspent(self.key) :
          LET tx == fulfill_peg_out(Detail[self.cur], self.key, available)
          IN  IF "err" \in DOMAIN tx THEN Exit /\ Stays
              ELSE Step("sign", [self EXCEPT !.fulfill_tx = tx])
    /\ UNCHANGED <<nodeVars, btcVars, keyVars>>

(* One signing round for each input, all with the same shares: they        *)
(* succeed if the coordinator's shares and its key are the signers'.       *)
SignInputs ==
    /\ pc = "sign"
    /\ IF self.key = signer_key /\ self.shares = signer_key
       THEN Step("nonce", [self EXCEPT !.task = build_transaction(self.cur)])
       ELSE Exit /\ Stays
    /\ UNCHANGED <<nodeVars, btcVars, keyVars>>

BroadcastBitcoin ==
    /\ pc = "btc"
    /\ IF Spendable(self.fulfill_tx)
       THEN /\ broadcast_bitcoin(self.cur, self.fulfill_tx)
            /\ \/ pc' = "idle" /\ FinishOp /\ UNCHANGED <<nonce, next_nonce>> /\ Stays
               \/ Exit /\ Fault                     \* the answer does not arrive
       ELSE Exit /\ Stays /\ UNCHANGED btcVars
    /\ UNCHANGED <<nodeVars, keyVars>>

(* Any request fails (no connection, a timeout, an answer that does not    *)
(* parse, a signing round that ends in an error), or the process stops.    *)
Fail ==
    /\ pc # "down"
    /\ Exit /\ Fault
    /\ UNCHANGED <<nodeVars, btcVars, keyVars>>

(* Users pay the address the contract announces.                           *)
Request(o) ==
    /\ contract.key # None
    /\ o \in world.ops \ requested
    /\ requested' = requested \cup {o}
    /\ Deposit([txid |-> o, vout |-> IF PegIn(o) THEN 1 ELSE 2,
                amount |-> Detail[o].paid, key |-> contract.key])
    /\ UNCHANGED <<procVars, nodeVars, keyVars, opened, marked, hands, done, cut,
                   world, starts, faults>>

-----------------------------------------------------------------------------
Init ==
    /\ NodeInit
    /\ BitcoinInit
    /\ world \in World
    /\ contract = [coordinator |-> world.coordinator, key |-> None]
    /\ pc = "down"
    /\ self = NoProcess
    /\ nonce = None
    /\ signer_key = 0
    /\ file = [key |-> None, size |-> 0, len |-> 0]
    /\ opened = FALSE
    /\ marked = {} /\ requested = {} /\ done = {} /\ cut = {}
    /\ hands = [o \in Op |-> 0]
    /\ rekeyed = FALSE
    /\ starts = 0 /\ faults = 0

Process ==
    \/ create_frost_coordinator_from_path
    \/ create_frost_coordinator_from_contract
    \/ load_dkg_data
    \/ run_distributed_key_generation
    \/ write_dkg_public_shares
    \/ LoadWallet
    \/ ImportAddress
    \/ OpenQueue
    \/ run_dkg_round
    \/ NextNonce
    \/ BuildFails
    \/ Accepted
    \/ ConflictingNonce
    \/ FeeTooLow
    \/ Refused
    \/ \E o \in Op : TakeOp(o)
    \/ FulfillPegOut
    \/ SignInputs
    \/ BroadcastBitcoin

Faults ==
    \/ KeyGenerationFails
    \/ StoppedWhileWriting
    \/ ImportRefused
    \/ AcceptedUnheard
    \/ Fail

MineStep == Mine /\ UNCHANGED <<pc, self, nonce, btcVars, keyVars, queueVars, world, starts, faults>>
RaiseFeeStep ==
    RaiseFee /\ UNCHANGED <<pc, self, nonce, btcVars, keyVars, queueVars, world, starts, faults>>

(* Hours matter while the process is down: a start, from the announcement  *)
(* of a key to its import, takes less.                                     *)
HoursPassStep ==
    /\ pc = "down"
    /\ HoursPass
    /\ UNCHANGED <<procVars, nodeVars, keyVars, queueVars, world, starts, faults>>

Next ==
    \/ \E cli \in world.clis : Start(cli)
    \/ Process
    \/ Faults
    \/ MineStep
    \/ RaiseFeeStep
    \/ HoursPassStep
    \/ \E o \in Op : Request(o)

Spec == Init /\ [][Next]_vars

(* The process goes on: every request comes back, with an answer or an     *)
(* error.  Those to the Stacks node (reqwest) and to the signers have      *)
(* timeouts; that the Bitcoin node answers is an assumption, since ureq    *)
(* waits for a response without a limit.  The Stacks node keeps mining.    *)
FairSpec == Spec /\ WF_vars(Process) /\ WF_vars(MineStep)

-----------------------------------------------------------------------------
Label == {"down", "coordinator", "dkg_data", "dkg", "write", "nonce", "broadcast",
          "wallet", "import", "queue", "round", "idle", "unspent", "sign", "btc"}
OpTxs(o) == {t \in txs : t.call \in {"mint!", "burn!"} /\ t.arg = o}

(* Types of what is kept outside the process, and the shape of the         *)
(* process's own state: a nonce in hand while broadcasting, an             *)
(* operation in hand from TakeOp on, the fulfilment from its building to   *)
(* its broadcast.                                                          *)
TypeOK ==
    /\ pc \in Label
    /\ \A t \in txs : t.nonce \in 0..MaxNonce /\ t.call \in Call
    /\ account_nonce \in 0..(MaxNonce + 1)
    /\ next_nonce \in 0..MaxNonce \cup {None}
    /\ nonce \in 0..MaxNonce \cup {None}
    /\ pc = "broadcast" => nonce # None
    /\ pc \in {"nonce", "broadcast"} <=> self.task # None
    /\ pc \in {"unspent", "sign", "btc"} => self.cur \in Op
    /\ self.cur # None => pc \in {"nonce", "broadcast", "unspent", "sign", "btc"}
    /\ self.fulfill_tx # None => ~PegIn(self.cur)
    /\ self.nonce_retries \in 0..MAX_NONCE_RETRIES
    /\ self.fee_retries \in 0..MAX_FEE_RETRIES
    /\ hands \in [Op -> Nat]
    /\ done \cup cut \cup marked \subseteq requested

(* Transactions are never stuck behind a missing nonce: whatever waits in  *)
(* the mempool, every nonce from the account's up to it waits there too,   *)
(* once.  The cached nonce is counted up without asking the node, retries  *)
(* included, and dropped only with the process.                            *)
NoNonceGap ==
    /\ \A t \in Mempool : \A n \in account_nonce..t.nonce : \E u \in txs : u.nonce = n
    /\ \A t, u \in txs : t.nonce = u.nonce => t = u

(* An operation gets at most as many Stacks transactions as it was handed  *)
(* out times, and at most one Bitcoin transaction however often that was:  *)
(* neither a retry nor an answer that got lost repeats one.                *)
NoRepeatedTransaction ==
    \A o \in Op : /\ Cardinality(OpTxs(o)) <= hands[o]
                  /\ Cardinality({s \in sent : s.op = o}) <= 1

(* An operation that was handled without an error has its transactions on  *)
(* both chains; Bitcoin is never paid for a request whose burn the Stacks  *)
(* node has not accepted.                                                  *)
HandledInFull ==
    /\ \A o \in done : OpTxs(o) # {} /\ (~PegIn(o) => \E s \in sent : s.op = o)
    /\ \A s \in sent : OpTxs(s.op) # {}

(* "if either of the transactions fail to build, neither of them will be   *)
(* broadcast": a peg-out request whose burn cannot be built, or whose      *)
(* fulfilment UTXO does not hold the fee it states, has no transaction on  *)
(* either chain.                                                           *)
UnbuildableIsNotBroadcast ==
    \A o \in Op : ~PegIn(o) /\ (~Detail[o].burnable \/ Detail[o].paid # Detail[o].fulfillment_fee)
                  => OpTxs(o) = {} /\ \A s \in sent : s.op # o

(* The fulfilment built from the UTXOs in whatever order the node lists    *)
(* them is the one the set of them calls for: it spends the fulfilment     *)
(* UTXO, no input twice, only what is still unspent when it is broadcast,  *)
(* none once the amount is covered, and leaves to the miner the fulfilment *)
(* fee and change below the dust limit.                                    *)
FulfilmentBalanced ==
    self.fulfill_tx # None =>
        LET op == Detail[self.cur]
            tx == self.fulfill_tx
            spent == Spends(tx)
            rest == {i \in DOMAIN tx.input : ~IsFulfillmentUtxo(op, tx.input[i])}
            paid == Values(tx.output, DOMAIN tx.output)
            left == Amounts(spent) - paid - op.fulfillment_fee
        IN  /\ Spendable(tx) /\ Cardinality(spent) = Len(tx.input)
            /\ ExpectedResult(op, spent) = "Ok"
            /\ rest # {} => Values(tx.prevouts, rest \ {Max(rest)}) < op.amount
            /\ left \in 0..(DUST - 1) /\ tx.output[2].value = op.amount

(* Whether a request can be fulfilled, and the error if not, depends on    *)
(* which UTXOs the wallet has and not on the order the node lists them in. *)
OrderIrrelevant ==
    pc = "unspent" =>
        \A available \in list_unspent(self.key) :
            LET tx == fulfill_peg_out(Detail[self.cur], self.key, available)
            IN  ExpectedResult(Detail[self.cur], Unspent(self.key)) =
                    IF "err" \in DOMAIN tx THEN tx.err ELSE "Ok"

(* Once the burn of a peg-out is accepted, only a fault keeps the Bitcoin  *)
(* from being paid: the UTXOs that were listed before the signing rounds   *)
(* and the retries of the burn can still be spent when the fulfilment is   *)
(* broadcast, whatever other requests have taken and users have paid.      *)
BurntIsPaid ==
    [][pc = "btc" /\ pc' # "btc" =>
          (\E s \in sent' : s.op = self.cur) \/ faults' > faults]_vars

(* Whatever stops the process and wherever, the signers, the file and the  *)
(* contract agree on the key once the contract has one, so that the next   *)
(* start can sign; unless a round of key generation ran although a key had *)
(* already been announced (the Dkg commands, or a start before the first   *)
(* key's transaction was mined).  The file can be read if no round before  *)
(* this one can have left a longer text under it.                          *)
KeyRecoverable ==
    contract.key # None /\ ~rekeyed =>
        /\ signer_key = contract.key
        /\ world.raw.data_directory # None =>
              file.key = contract.key /\ (signer_key = 1 => Readable)
        /\ self.shares # None => self.shares = signer_key /\ self.key = signer_key

(* Once no more operations and starts come, no operation is left half      *)
(* handled and every transaction the Stacks node accepted has been mined:  *)
(* retries are bounded, and nothing waits behind a nonce that is missing.  *)
EverythingSettles == <>[](self.cur = None /\ Mempool = {})
=============================================================================
