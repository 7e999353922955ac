----------------------------- MODULE MCThreshold -----------------------------
(* The threshold of the signing protocol, with three signers. *)
EXTENDS MCFrost

CONSTANT Threshold      \* keys_threshold, with one key per signer

(***************************************************************************)
(* stacks-signer/README.md, signing round: the coordinator gets            *)
(* NONCE_RESPONSE "(xT)" and goes on to SIGN_SHARE_REQUEST.  So once T     *)
(* signers have answered and the others are down, collect_nonces does not  *)
(* time out waiting for them.                                              *)
(***************************************************************************)
ThresholdSuffices ==
    [][(/\ phase = "nonces"
        /\ pos[COORDINATOR] = Len(log)
        /\ Cardinality(DOMAIN public_nonces) >= Threshold
        /\ \A s \in Signer \ DOMAIN public_nonces : ~alive[s])
          => outcome' # "Timeout"]_vars
=============================================================================
