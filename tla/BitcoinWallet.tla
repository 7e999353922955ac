---------------------------- MODULE BitcoinWallet ----------------------------
(***************************************************************************)
(* The Bitcoin wallet of the stacks-coordinator: which unspent outputs a   *)
(* fulfilment of a peg-out request spends and what it pays.  A transaction *)
(* is the record of its inputs (a sequence of UTXOs) and of its outputs.   *)
(* The wallet's script is the key it was made from; DUST is the least      *)
(* value that script may be paid.                                          *)
(***************************************************************************)
EXTENDS Naturals, Sequences, SequencesExt, FiniteSetsExt

CONSTANTS DUST

ASSUME DustAssumption == DUST \in Nat \ {0}

-----------------------------------------------------------------------------
(* The two conversions of a UTXO keep what identifies it and what it is    *)
(* worth: an input refers to (txid, vout), a previous output has a value   *)
(* and a script.  Both fail on text that is not hexadecimal, which a       *)
(* Bitcoin node does not send.  A slip: the index of the output before.    *)
utxo_to_input_before(utxo) == [txid |-> utxo.txid, vout |-> utxo.vout - 1]

utxo_to_input(utxo) == [txid |-> utxo.txid, vout |-> utxo.vout]
utxo_to_output(utxo) == [value |-> utxo.amount, script |-> utxo.key]

IsFulfillmentUtxo(op, utxo) == utxo.txid = op.txid /\ utxo.vout = 2

(* One turn of the loop over the available UTXOs.  "stop" stands for the   *)
(* break and for the early return of MismatchedFulfillmentFee.             *)
Consumed(acc, utxo) ==
    [acc EXCEPT !.input = Append(@, utxo_to_input(utxo)),
                !.prevouts = Append(@, utxo_to_output(utxo))]

(* Slips: the fee is not compared; the loop stops once the amount is met.  *)
ConsumeAnyFee(op, acc, utxo) ==
    IF acc.stop THEN acc
    ELSE IF IsFulfillmentUtxo(op, utxo) THEN [Consumed(acc, utxo) EXCEPT !.found = TRUE]
    ELSE IF acc.total < op.amount
         THEN [Consumed(acc, utxo) EXCEPT !.total = @ + utxo.amount]
    ELSE [acc EXCEPT !.stop = acc.found]

ConsumeStopsEarly(op, acc, utxo) ==
    IF acc.stop THEN acc
    ELSE IF IsFulfillmentUtxo(op, utxo) THEN [Consumed(acc, utxo) EXCEPT !.found = TRUE]
    ELSE IF acc.total < op.amount
         THEN [Consumed(acc, utxo) EXCEPT !.total = @ + utxo.amount]
    ELSE [acc EXCEPT !.stop = TRUE]

Consume(op, acc, utxo) ==
    IF acc.stop THEN acc
    ELSE IF IsFulfillmentUtxo(op, utxo)
         THEN IF utxo.amount # op.fulfillment_fee
              THEN [acc EXCEPT !.stop = TRUE, !.mismatch = TRUE]
              ELSE [Consumed(acc, utxo) EXCEPT !.found = TRUE]
    ELSE IF acc.total < op.amount
         THEN [Consumed(acc, utxo) EXCEPT !.total = @ + utxo.amount]
    ELSE [acc EXCEPT !.stop = acc.found]

(* The loop: turn[i] is what it has gathered after i UTXOs.                *)
NothingSelected ==
    [input |-> <<>>, prevouts |-> <<>>, total |-> 0, found |-> FALSE,
     mismatch |-> FALSE, stop |-> FALSE]

Selection(op, available_utxos) ==
    LET turn[i \in 0..Len(available_utxos)] ==
            IF i = 0 THEN NothingSelected
            ELSE Consume(op, turn[i - 1], available_utxos[i])
    IN  turn[Len(available_utxos)]

(* A slip: change of any size is left to the miner.                        *)
OutputsNoChange(op, key, change) ==
    <<[value |-> 0, script |-> "OP_RETURN"], [value |-> op.amount, script |-> key]>>

(* Output 0 carries the marker, output 1 the withdrawn amount, output 2    *)
(* the change if it clears the dust limit.  Both payments go to the        *)
(* wallet's own script.                                                    *)
Outputs(op, key, change) ==
    <<[value |-> 0, script |-> "OP_RETURN"], [value |-> op.amount, script |-> key]>>
    \o IF change >= DUST THEN <<[value |-> change, script |-> key]>> ELSE <<>>

fulfill_peg_out(op, key, available_utxos) ==
    LET sel == Selection(op, available_utxos)
    IN  CASE sel.mismatch -> [err |-> "MismatchedFulfillmentFee"]
          [] ~sel.mismatch /\ ~sel.found -> [err |-> "MissingFulfillmentUTXO"]
          [] ~sel.mismatch /\ sel.found /\ sel.total < op.amount ->
                [err |-> "InsufficientFunds"]
          [] OTHER -> [input |-> sel.input, prevouts |-> sel.prevouts,
                       output |-> Outputs(op, key, sel.total - op.amount)]

-----------------------------------------------------------------------------
(* What a fulfilment should be, without the loop: over sets, and in no     *)
(* order.                                                                  *)
Amounts(S) == SumFunction([u \in S |-> u.amount])
Values(outs, I) == SumFunction([i \in I |-> outs[i].value])

ExpectedResult(op, utxos) ==
    LET own == {u \in utxos : IsFulfillmentUtxo(op, u)}
    IN  CASE own = {} -> "MissingFulfillmentUTXO"
          [] \E u \in own : u.amount # op.fulfillment_fee -> "MismatchedFulfillmentFee"
          [] own # {} /\ (\A u \in own : u.amount = op.fulfillment_fee)
                /\ Amounts(utxos \ own) < op.amount -> "InsufficientFunds"
          [] OTHER -> "Ok"
=============================================================================
