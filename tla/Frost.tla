-------------------------------- MODULE Frost --------------------------------
(***************************************************************************)
(* The FROST system: one coordinator and its signers over the relay.       *)
(***************************************************************************)
EXTENDS SigningRound, FrostCoordinator

vars == <<netVars, signerVars, coordVars>>

Init == NetInit /\ SignerInit /\ CoordinatorInit

Next ==
    \/ \E s \in Signer : SignerNext(s) /\ UNCHANGED coordVars
    \/ CoordinatorNext /\ UNCHANGED signerVars

Spec == Init /\ [][Next]_vars

(***************************************************************************)
(* The loops of the processes go on: a signer that is up takes the next    *)
(* message and posts its answers, the coordinator does while a command is  *)
(* under way.  Nothing obliges a fault, a command or an odd point to come. *)
(***************************************************************************)
Fairness ==
    /\ \A s \in Signer :
          WF_vars(/\ \/ \E p \in 1..Len(log) : SignerProcess(s, p)
                     \/ SignerPost(s)
                  /\ UNCHANGED coordVars)
    /\ WF_vars(/\ \/ \E p \in 1..Len(log) : CoordinatorReceive(p)
                  \/ CoordinatorPost
               /\ UNCHANGED signerVars)

FairSpec == Spec /\ Fairness

-----------------------------------------------------------------------------
\* f is a map from a part of D to R.
IsMap(f, D, R) == DOMAIN f \subseteq D /\ f \in [DOMAIN f -> R]

\* q is a sequence of P's.
IsSeqOf(q, P(_)) ==
    /\ q \in Seq({q[i] : i \in DOMAIN q})
    /\ \A i \in DOMAIN q : P(q[i])

IsShare(x) ==
    /\ DOMAIN x = {"nonce", "secret", "message", "nonces"}
    /\ x.nonce \in Nat
    /\ IsMap(x.secret, Key, Nat)
    /\ x.message \in Payload
    /\ IsMap(x.nonces, Signer, Nat)

IsMessage(m) ==
    /\ m.dkg_id \in Nat
    /\ \/ m.type \in {"DkgBegin", "DkgPrivateBegin", "NonceRequest"}
       \/ /\ m.type = "DkgPublicShare"
          /\ m.party_id \in Key /\ m.public_share \in Nat
       \/ /\ m.type = "DkgPrivateShares"
          /\ m.key_id \in {ZeroBased(k) : k \in Key} /\ m.private_shares \in Nat
       \/ /\ m.type \in {"DkgPublicEnd", "DkgEnd"}
          /\ m.signer_id \in Signer /\ m.status \in {"Success", "Failure"}
       \/ /\ m.type = "NonceResponse"
          /\ m.signer_id \in Signer /\ m.nonces \in Nat
       \/ /\ m.type = "SignShareRequest"
          /\ IsMap(m.nonce_responses, Signer, Nat) /\ m.message \in Payload
       \/ /\ m.type = "SignShareResponse"
          /\ m.signer_id \in Signer /\ IsShare(m.signature_shares)

IsRound(r) ==
    /\ DOMAIN r = {"state", "dkg_id", "commitments", "shares", "poly",
                   "nonce", "secret"}
    /\ r.state \in State
    /\ {r.dkg_id, r.poly, r.nonce} \subseteq Nat
    /\ \A f \in {r.commitments, r.secret} : IsMap(f, Key, Nat)
    /\ IsMap(r.shares, {ZeroBased(k) : k \in Key}, Nat)

(***************************************************************************)
(* Types: of the messages in the log and waiting to be posted, of the      *)
(* rounds of the signers (in a state that SigningRound::process may leave  *)
(* them in), and of the coordinator's fields.                              *)
(***************************************************************************)
TypeOK ==
    /\ IsSeqOf(log, LAMBDA e : IsMessage(e.msg) /\ e.sig \in Node)
    /\ pos \in [Node -> Nat]
    /\ \A n \in Node : pos[n] <= Len(log)
    /\ DOMAIN outbox = Node
    /\ \A n \in Node : IsSeqOf(outbox[n], IsMessage)
    /\ spent \in [Kind -> Nat]
    /\ DOMAIN round = Signer
    /\ \A s \in Signer : IsRound(round[s])
    /\ alive \in [Signer -> BOOLEAN]
    /\ DOMAIN signed = Signer
    /\ \A s \in Signer : \A x \in signed[s] : IsShare(x)
    /\ phase \in Phase
    /\ current_dkg_id \in Nat
    /\ IsMap(dkg_public_shares, Key, Nat)
    /\ IsMap(aggregate_public_key, Key, Nat)
    /\ IsMap(public_nonces, Signer, Nat)
    /\ DOMAIN signature_shares \subseteq Signer
    /\ \A s \in DOMAIN signature_shares : IsShare(signature_shares[s])
    /\ awaiting \subseteq Signer
    /\ message \in Payload \cup {NoPayload}
    /\ outcome \in Outcome

-----------------------------------------------------------------------------
(* Properties of signing that hold when processes fail and restart. *)

(***************************************************************************)
(* A signer never answers two different SignShareRequests (another message *)
(* or other nonces) with the same nonce: two such answers give away its    *)
(* key.  sign_share_request itself does not see to it (it signs with       *)
(* whatever nonce is current, as often as it is asked); it depends on the  *)
(* coordinator asking for nonces before every request and on the order of  *)
(* the relay, across timeouts, retries and restarts.                       *)
(***************************************************************************)
NonceFreshness ==
    \A s \in Signer : \A a, b \in signed[s] :
        a.nonce = b.nonce => /\ a.message = b.message
                             /\ a.nonces = b.nonces

-----------------------------------------------------------------------------
(* Properties of a system in which no message is repeated or lost and no   *)
(* process gives up or restarts.                                           *)

(***************************************************************************)
(* Nothing an honest process posts is refused by verify_msg, whichever of  *)
(* the three ids of a message (signer, party, key, the last counted from   *)
(* 0) it is looked up by: otherwise a share would be dropped in silence    *)
(* and the round would wait for ever.                                      *)
(***************************************************************************)
PostsVerify == \A p \in DOMAIN log : verify_msg(log[p])

(***************************************************************************)
(* When run_distributed_key_generation returns Ok, every signer holds a    *)
(* key share of the aggregate public key that it returned.  The            *)
(* coordinator does not look at the status in the DkgEnd messages nor at   *)
(* any dkg_id, so this rests on the order in which everybody reads the     *)
(* shares of this and of earlier rounds.                                   *)
(***************************************************************************)
KeyAgreement ==
    outcome = "dkg" =>
        /\ aggregate_public_key = dkg_public_shares
        /\ \A s \in Signer : round[s].secret = aggregate_public_key

(***************************************************************************)
(* No order of the messages makes process return an error, which would end *)
(* start_signing_round: move_to is never asked for a state change that     *)
(* can_move_to rejects.                                                    *)
(***************************************************************************)
SignerStaysUp == \A s \in Signer : alive[s]

(***************************************************************************)
(* sign_message never ends with an error of the aggregator or of           *)
(* proof.verify: the shares, nonces and keys that the coordinator puts     *)
(* together belong together.                                               *)
(***************************************************************************)
SigningSucceeds == outcome \notin {"Aggregator", "SchnorrProofFailed"}

(***************************************************************************)
(* Every command returns: wait_for_public_shares, wait_for_dkg_end,        *)
(* collect_nonces and collect_signature_shares get what they wait for,     *)
(* although the shares of the signers come in any order and each signer    *)
(* looks for the end of a phase only when a message reaches it.            *)
(***************************************************************************)
CommandsReturn == phase # "ready" ~> phase = "ready"
=============================================================================
