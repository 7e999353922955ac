----------------------------- MODULE BitcoinNode -----------------------------
(***************************************************************************)
(* The Bitcoin node as LocalhostBitcoinNode uses it: a watch-only wallet,  *)
(* the addresses imported into it, the unspent outputs of the chain and    *)
(* its mempool (the coordinator asks for 0 confirmations), and the         *)
(* fulfilments the node has accepted.  An address is the key it belongs    *)
(* to.                                                                     *)
(***************************************************************************)
EXTENDS Naturals, Sequences, SequencesExt

VARIABLES
    wallet,     \* the wallet "stacks_coordinator" exists
    imported,   \* keys whose address the wallet watches
    utxos,      \* unspent outputs: [txid, vout, amount, key]
    missed,     \* outputs that were too old for the import of their key
    sent        \* fulfilments broadcast: [op, input, output]

btcVars == <<wallet, imported, utxos, missed, sent>>

-----------------------------------------------------------------------------
(* createwallet either makes the wallet or is refused because it exists,   *)
(* which load_wallet takes for success; any other refusal is an error.     *)
create_empty_wallet ==
    /\ wallet' = TRUE
    /\ UNCHANGED <<imported, utxos, missed, sent>>

(* importdescriptors with the timestamp "now": the node looks through the  *)
(* blocks of the last two hours and no further, so what is missed when the *)
(* address is imported stays missed.                                       *)
import_address(key) ==
    /\ imported' = imported \cup {key}
    /\ UNCHANGED <<wallet, utxos, missed, sent>>

(* Two hours go by: what was paid to keys not imported by now will be too  *)
(* old for an import.                                                      *)
TooOld == {u \in utxos : u.key \notin imported}

HoursPass ==
    /\ ~(TooOld \subseteq missed)
    /\ missed' = missed \cup TooOld
    /\ UNCHANGED <<wallet, imported, utxos, sent>>

(* listunspent filtered by the wallet's address, in any order, each entry  *)
(* turned into a UTXO by raw_to_utxo.                                      *)
Unspent(key) == IF key \in imported THEN {u \in utxos \ missed : u.key = key} ELSE {}
list_unspent(key) == SetToSeqs(Unspent(key))

(* sendrawtransaction: the node takes a transaction whose inputs are all   *)
(* unspent.  Its outputs to a script can be spent from then on; <<"tx",    *)
(* op>> stands for its id.                                                 *)
Spends(tx) == {u \in utxos : \E i \in DOMAIN tx.input :
                                tx.input[i] = [txid |-> u.txid, vout |-> u.vout]}
Spendable(tx) ==
    \A i \in DOMAIN tx.input :
        \E u \in utxos : tx.input[i] = [txid |-> u.txid, vout |-> u.vout]

Creates(op, tx) ==
    {[txid |-> <<"tx", op>>, vout |-> i - 1, amount |-> tx.output[i].value,
      key |-> tx.output[i].script] : i \in 2..Len(tx.output)}

broadcast_bitcoin(op, tx) ==
    /\ Spendable(tx)
    /\ utxos' = (utxos \ Spends(tx)) \cup Creates(op, tx)
    /\ sent' = sent \cup {[op |-> op, input |-> tx.input, output |-> tx.output]}
    /\ UNCHANGED <<wallet, imported, missed>>

(* A user pays the wallet.                                                 *)
Deposit(u) ==
    /\ utxos' = utxos \cup {u}
    /\ UNCHANGED <<wallet, imported, missed, sent>>

BitcoinInit ==
    /\ wallet = FALSE
    /\ imported = {}
    /\ utxos = {}
    /\ missed = {}
    /\ sent = {}
=============================================================================
