----------------------------- MODULE NodeClient ------------------------------
(***************************************************************************)
(* The Stacks node as the stacks-coordinator's NodeClient uses it, the     *)
(* contract behind it (sbtc-alpha.clar) and the client's own state, the    *)
(* cached nonce.                                                           *)
(*                                                                         *)
(* txs is the set of transactions the node has accepted from the           *)
(* coordinator's address; those below account_nonce are mined, the others  *)
(* wait in the mempool.  A transaction is a nonce, the contract function   *)
(* it calls and that call's argument.                                      *)
(*                                                                         *)
(* The node is external: what it does with a transaction is taken from the *)
(* answers the client tells apart (BroadcastError).  It mines a            *)
(* transaction only when its nonce is the account's, and is taken never to *)
(* replace one that waits by one with a higher fee (see Refusals).         *)
(***************************************************************************)
EXTENDS Integers, FiniteSets

CONSTANTS
    ADDRESS,       \* the coordinator's own public key and address
    None,          \* Option::None
    MaxFee,        \* bound: the highest fee the node asks for
    MaxNonce       \* bound: nonces 0..MaxNonce

ASSUME ClientAssumption ==
    /\ None \notin Nat /\ MaxFee \in Nat /\ MaxNonce \in Nat

VARIABLES
    txs,            \* transactions accepted so far
    account_nonce,  \* the confirmed nonce of the coordinator's address
    required_fee,   \* the fee the node asks for at the moment
    contract,       \* [coordinator, key]: the contract's two optional values
    next_nonce      \* NodeClient.next_nonce

nodeVars == <<txs, account_nonce, required_fee, contract>>

Mempool == {t \in txs : t.nonce >= account_nonce}

-----------------------------------------------------------------------------
(* Reading the contract.  A clarity value is its type and, for an          *)
(* optional, what it holds (None for the optional none).                   *)
ClarityOptional(x) == [type |-> "optional", data |-> x]

Ok(v) == [result |-> "ok", value |-> v]
Err(e) == [result |-> "err", value |-> e]

(* An optional none is reported as malformed, any other type as None.      *)
coordinator_public_key(v) ==
    IF v.type # "optional" THEN Ok(None)
    ELSE IF v.data = None THEN Err("MalformedClarityValue") ELSE Ok(v.data)

bitcoin_wallet_public_key(v) ==
    IF v.type = "optional" THEN Ok(v.data) ELSE Err("MalformedClarityValue")

(* signer_data fills its two maps and then falls through to an error, so   *)
(* public_keys and signer_key_ids fail for every contract with a signer.   *)
signer_data(v) ==
    IF v.type = "optional" /\ v.data = None
    THEN Err("NoSignerData") ELSE Err("MalformedClarityValue")

num_signers(c) == c.num_signers
keys_threshold(v) == IF v.type = "uint" THEN Ok(v.data) ELSE Err("MalformedClarityValue")

(* Signers are read under the ids 1..num_signers; the contract keeps them  *)
(* under 0..num_signers - 1.                                               *)
public_keys(c) ==
    IF \E id \in 1..num_signers(c) :
          signer_data(IF id \in DOMAIN c.signers THEN c.signers[id]
                      ELSE ClarityOptional(None)).result = "err"
    THEN Err("MalformedClarityValue") ELSE Ok(c.signers)

-----------------------------------------------------------------------------
(* next_nonce: the account's nonce on the first call, counted by the       *)
(* client itself from then on.  A slip: the first call counts too.         *)
FollowingNonceFromOne == IF next_nonce = None THEN account_nonce + 1 ELSE next_nonce + 1

FollowingNonce == IF next_nonce = None THEN account_nonce ELSE next_nonce + 1

take_nonce(n) ==
    /\ n = FollowingNonce
    /\ n <= MaxNonce
    /\ next_nonce' = n

(* The node's answer to a transaction: the error kinds of BroadcastError   *)
(* that apply, in no particular order of precedence, or acceptance.  The   *)
(* fee the node asks for is only understood at the top level of the        *)
(* answer; nested in reason_data it is read as 0.                          *)
(*                                                                         *)
(* An assumption about the node: a transaction with a nonce that waits in  *)
(* the mempool is refused whatever its fee, as try_broadcast_transaction   *)
(* expects, which then takes the next nonce.  A node that replaces by fee  *)
(* would accept it where the fee retry of a restarted process has raised   *)
(* the fee, and drop the transaction that waited.                          *)
FeeExpected == {required_fee, 0}

Refusals(n, fee) ==
    (IF n < account_nonce THEN {Err([kind |-> "Other"])} ELSE {})
    \cup {Err([kind |-> "ConflictingNonceInMempool"]) : t \in {u \in Mempool : u.nonce = n}}
    \cup {Err([kind |-> "FeeTooLow", expected |-> e]) :
              e \in {x \in FeeExpected : fee < required_fee}}

Replies(n, fee) == IF Refusals(n, fee) = {} THEN {Ok("accepted")} ELSE Refusals(n, fee)

(* The wallet signs every transaction itself, for the contract and with    *)
(* the nonce it is given; its fee is the wallet's at the time.             *)
build_transaction_signed(call, arg, n) == [nonce |-> n, call |-> call, arg |-> arg]

Accept(n, call, arg) == txs' = txs \cup {build_transaction_signed(call, arg, n)}

-----------------------------------------------------------------------------
(* The contract's functions, run when the transaction is mined.  The       *)
(* sender is always the coordinator's address, which is taken to be the    *)
(* contract's owner; a call that only the coordinator may make is aborted  *)
(* while the contract has other coordinator data, or none.                 *)
is_coordinator == contract.coordinator = ADDRESS

set_coordinator_data(data) == [contract EXCEPT !.coordinator = data]

set_bitcoin_wallet_public_key(public_key) ==
    IF is_coordinator THEN [contract EXCEPT !.key = public_key] ELSE contract

Mine ==
    \E t \in Mempool :
        /\ t.nonce = account_nonce
        /\ account_nonce' = account_nonce + 1
        /\ contract' = CASE t.call = "set-coordinator-data" -> set_coordinator_data(t.arg)
                         [] t.call = "set-bitcoin-wallet-public-key" ->
                               set_bitcoin_wallet_public_key(t.arg)
                         [] OTHER -> contract
        /\ UNCHANGED <<txs, required_fee, next_nonce>>

(* The fee market: the node asks for a higher fee.                         *)
RaiseFee ==
    /\ required_fee < MaxFee
    /\ required_fee' = required_fee + 1
    /\ UNCHANGED <<txs, account_nonce, contract, next_nonce>>

NodeInit ==
    /\ txs = {}
    /\ account_nonce = 0
    /\ required_fee = 1
    /\ next_nonce = None
=============================================================================
