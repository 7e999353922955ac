-------------------------- MODULE CoordinatorConfig --------------------------
(***************************************************************************)
(* The configuration of the stacks-coordinator: what main makes of the     *)
(* configuration file and the command line before it starts anything.  A   *)
(* field that is only parsed is its verdict (TRUE when it parses); an      *)
(* optional field is None when it is absent.  The network and the polling  *)
(* interval, which change no step, are left out.                           *)
(***************************************************************************)
EXTENDS Naturals

CONSTANTS None

parse_contract(raw) == raw.sbtc_contract
parse_stacks_private_key(raw) == raw.stacks_private_key

(* Without a signer configuration the three FROST options must be there.   *)
FrostOptions(raw) ==
    raw.signer_config_path = None =>
        None \notin {raw.http_relay_url, raw.frost_state_file, raw.network_private_key}

Valid(raw) ==
    /\ FrostOptions(raw)
    /\ parse_contract(raw)
    /\ parse_stacks_private_key(raw)
    /\ raw.stacks_node_rpc_url
    /\ raw.bitcoin_node_rpc_url

Config(raw) ==
    [signer_config_path |-> raw.signer_config_path,
     start_block_height |-> raw.start_block_height,
     data_directory |-> raw.data_directory,
     transaction_fee |-> raw.transaction_fee]

(* main refuses a file that does not parse and a start height of 0, and    *)
(* replaces both the signer configuration and the start height by the      *)
(* command line's, which has no start height unless one is given.          *)
Starts(raw, cli) == Valid(raw) /\ cli.start_block_height # 0

Configured(raw, cli) ==
    [Config(raw) EXCEPT !.signer_config_path = cli.signer_config,
                        !.start_block_height = cli.start_block_height]
=============================================================================
