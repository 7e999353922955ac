------------------------ MODULE MCStacksCoordinator -------------------------
(***************************************************************************)
(* Instances of StacksCoordinator for TLC.                                 *)
(***************************************************************************)
EXTENDS StacksCoordinator

CONSTANTS STRANGER, in1, out1, out2, bad1, bad2

PegOutRequest(o, amount, fee, paid, burnable) ==
    [type |-> "PegOutRequest", txid |-> o, amount |-> amount, fulfillment_fee |-> fee,
     paid |-> paid, burnable |-> burnable]

(* One peg-in, two requests that each could be covered by the other's      *)
(* fulfilment UTXO, one whose Stacks address cannot be recovered and one   *)
(* that pays less than the fee it states.                                  *)
MCDetail ==
    [o \in Op |->
        CASE o = in1  -> [type |-> "PegIn", txid |-> o, amount |-> 4, paid |-> 4]
          [] o = out1 -> PegOutRequest(o, 2, 1, 1, TRUE)
          [] o = out2 -> PegOutRequest(o, 1, 2, 2, TRUE)
          [] o = bad1 -> PegOutRequest(o, 1, 1, 1, FALSE)
          [] o = bad2 -> PegOutRequest(o, 1, 2, 1, TRUE)]

File(dir, ok) ==
    [sbtc_contract |-> ok, stacks_private_key |-> TRUE, stacks_node_rpc_url |-> TRUE,
     bitcoin_node_rpc_url |-> TRUE, signer_config_path |-> None,
     http_relay_url |-> "url", frost_state_file |-> "state", network_private_key |-> "key",
     start_block_height |-> None, data_directory |-> dir, transaction_fee |-> 1]

Line(height, path, command) ==
    [start_block_height |-> height, signer_config |-> path, command |-> command]

Given(raw, clis, coordinator, ops) ==
    [raw |-> raw, clis |-> clis, coordinator |-> coordinator, ops |-> ops]

Run == Line(None, "signer", "Run")

(* A contract with our data, with another coordinator's and with none; a   *)
(* coordinator with a data directory and without; a file, a start height   *)
(* and a missing signer configuration that are refused.                    *)
MCWorld ==
    {Given(File("dir", TRUE), {Run}, ADDRESS, {in1, out1, out2}),
     Given(File("dir", TRUE), {Run, Line(None, "signer", "Dkg"), Line(1, "signer", "Run")},
           ADDRESS, {out1, bad2}),
     Given(File("dir", TRUE), {Run}, STRANGER, {in1, bad1}),
     Given(File(None, TRUE), {Run, Line(1, "signer", "Run")}, ADDRESS, {in1, out1}),
     Given(File("dir", TRUE), {Run, Line(0, "signer", "Run")}, None, {}),
     Given(File("dir", FALSE), {Run, Line(None, None, "Run")}, ADDRESS, {}),
     Given(File("dir", TRUE), {Line(None, None, "Run")}, ADDRESS, {})}

MCSigners ==
    [num_signers |-> 2, threshold |-> [type |-> "uint", data |-> 2],
     signers |-> [id \in 0..1 |-> ClarityOptional([public_key |-> id, key_ids |-> {id + 1}])]]
=============================================================================
