-------------------------- MODULE FrostCoordinator --------------------------
(***************************************************************************)
(* frost-coordinator/src/coordinator.rs: the process that drives           *)
(* distributed key generation and signing over the relay.                  *)
(*                                                                         *)
(* phase is the loop the coordinator is blocked in; "ready" is between two *)
(* commands.  The coordinator checks no id of what it receives: whatever   *)
(* has the expected type counts.  The parity of a curve point is a free    *)
(* choice, bounded by Limit["odd"].                                        *)
(***************************************************************************)
EXTENDS FrostNet

CONSTANTS
    Payload,            \* the messages that can be signed
    NoPayload           \* no sign_message yet

VARIABLES
    phase,
    current_dkg_id,
    dkg_public_shares,      \* key id -> public share (its draw)
    public_nonces,          \* signer -> nonce it answered with
    signature_shares,       \* signer -> its share; never cleared
    aggregate_public_key,   \* sum of the public shares, as the map summed
    awaiting,               \* ids_to_await, or signers in collect_signature_shares
    message,                \* argument of the last sign_message
    outcome                 \* what the last command returned

coordVars == <<phase, current_dkg_id, dkg_public_shares, public_nonces,
               signature_shares, aggregate_public_key, awaiting, message,
               outcome>>

Phase == {"ready", "public_shares", "dkg_end", "nonces", "signature_shares"}
Outcome == {"none", "dkg", "signature", "NoAggregatePublicKey", "Aggregator",
            "SchnorrProofFailed", "Timeout", "NetworkError"}

\* Queue a message for the relay; the coordinator reads nothing until it is
\* posted.
Send(m) == outbox' = [outbox EXCEPT ![COORDINATOR] = <<m>>]
SendNothing == UNCHANGED outbox

\* The command returns o; nobody is awaited any more.
Return(o) == phase' = "ready" /\ outcome' = o /\ awaiting' = {}

-----------------------------------------------------------------------------
(* Distributed key generation *)

start_public_shares(dkg_id) ==
    /\ dkg_public_shares' = Empty
    /\ Send([type |-> "DkgBegin", dkg_id |-> dkg_id])

\* run_distributed_key_generation up to the loop of wait_for_public_shares.
StartDkg ==
    /\ phase = "ready"
    /\ Spend({"dkg"})
    /\ current_dkg_id' = current_dkg_id + 1
    /\ start_public_shares(current_dkg_id + 1)
    /\ awaiting' = Signer
    /\ phase' = "public_shares"
    /\ outcome' = "none"
    /\ UNCHANGED <<log, pos, public_nonces, signature_shares,
                   aggregate_public_key, message>>

\* Mutant: a key that is already there is kept.
AggregateKeyEvenOnce ==
    /\ aggregate_public_key' =
          IF aggregate_public_key = Empty THEN dkg_public_shares
                                          ELSE aggregate_public_key
    /\ awaiting' = Signer
    /\ phase' = "dkg_end"
    /\ Send([type |-> "DkgPrivateBegin", dkg_id |-> current_dkg_id])
    /\ UNCHANGED <<dkg_public_shares, current_dkg_id>>

\* The head of the loop, once nobody is awaited: an even key ends the phase
\* and starts the private shares, an odd one starts the round over.
AggregateKeyEven ==
    /\ aggregate_public_key' = dkg_public_shares
    /\ awaiting' = Signer
    /\ phase' = "dkg_end"
    /\ Send([type |-> "DkgPrivateBegin", dkg_id |-> current_dkg_id])
    /\ UNCHANGED <<dkg_public_shares, current_dkg_id>>

AggregateKeyOdd ==
    /\ aggregate_public_key' = dkg_public_shares
    /\ awaiting' = Signer
    /\ start_public_shares(current_dkg_id)
    /\ UNCHANGED <<phase, current_dkg_id>>

\* A turn of wait_for_public_shares that does not empty ids_to_await.
WaitForPublicShares(p) ==
    /\ phase = "public_shares"
    /\ Receive(COORDINATOR, p, {})
    /\ LET m == log[p].msg IN
       \/ /\ m.type = "DkgPublicShare"
          /\ dkg_public_shares' =
                Insert(dkg_public_shares, m.party_id, m.public_share)
          /\ UNCHANGED awaiting
       \/ /\ m.type = "DkgPublicEnd"
          /\ awaiting # {m.signer_id}
          /\ awaiting' = awaiting \ {m.signer_id}
          /\ UNCHANGED dkg_public_shares
       \/ /\ m.type \notin {"DkgPublicShare", "DkgPublicEnd"}
          /\ UNCHANGED <<awaiting, dkg_public_shares>>
    /\ SendNothing
    /\ UNCHANGED <<phase, current_dkg_id, public_nonces, signature_shares,
                   aggregate_public_key, message, outcome>>

\* The last awaited DkgPublicEnd, and the head of the loop after it.
PublicSharesDone(p) ==
    /\ phase = "public_shares"
    /\ log[p].msg.type = "DkgPublicEnd"
    /\ awaiting = {log[p].msg.signer_id}
    /\ \/ Receive(COORDINATOR, p, {}) /\ AggregateKeyEven
       \/ Receive(COORDINATOR, p, {"odd", "dkg"}) /\ AggregateKeyOdd
    /\ UNCHANGED <<public_nonces, signature_shares, message, outcome>>

\* A turn of wait_for_dkg_end.  The status of a DkgEnd is not looked at.
WaitForDkgEnd(p) ==
    /\ phase = "dkg_end"
    /\ Receive(COORDINATOR, p, {})
    /\ LET m == log[p].msg
           left == IF m.type = "DkgEnd" THEN awaiting \ {m.signer_id}
                                        ELSE awaiting
       IN IF left = {}
          THEN Return("dkg")
          ELSE awaiting' = left /\ UNCHANGED <<phase, outcome>>
    /\ SendNothing
    /\ UNCHANGED <<current_dkg_id, dkg_public_shares, public_nonces,
                   signature_shares, aggregate_public_key, message>>

-----------------------------------------------------------------------------
(* Signing *)

NonceRequest == [type |-> "NonceRequest", dkg_id |-> current_dkg_id]

\* sign_message up to the loop of collect_nonces.
StartSign(msg) ==
    /\ phase = "ready"
    /\ Spend({"sign"})
    /\ IF aggregate_public_key = Empty
       THEN /\ Return("NoAggregatePublicKey")
            /\ SendNothing
            /\ UNCHANGED <<public_nonces, message>>
       ELSE /\ public_nonces' = Empty
            /\ Send(NonceRequest)
            /\ message' = msg
            /\ phase' = "nonces"
            /\ outcome' = "none"
            /\ UNCHANGED awaiting
    /\ UNCHANGED <<log, pos, current_dkg_id, dkg_public_shares,
                   signature_shares, aggregate_public_key>>

\* public_nonces after the message m of collect_nonces.
NoncesWith(m) ==
    IF m.type = "NonceResponse"
    THEN Insert(public_nonces, m.signer_id, m.nonces)
    ELSE public_nonces

\* A turn of collect_nonces that does not complete the nonces.
CollectNonces(p) ==
    /\ phase = "nonces"
    /\ Receive(COORDINATOR, p, {})
    /\ DOMAIN NoncesWith(log[p].msg) # Signer
    /\ public_nonces' = NoncesWith(log[p].msg)
    /\ SendNothing
    /\ UNCHANGED <<phase, current_dkg_id, dkg_public_shares, signature_shares,
                   aggregate_public_key, awaiting, message, outcome>>

\* Mutant: public_nonces.clear() is missing.
AggregateNonceOddKeeps ==
    /\ UNCHANGED public_nonces
    /\ Send(NonceRequest)
    /\ UNCHANGED <<phase, awaiting, outcome>>

\* R is odd: compute_aggregate_nonce is called again.
AggregateNonceOdd ==
    /\ public_nonces' = Empty
    /\ Send(NonceRequest)
    /\ UNCHANGED <<phase, awaiting, outcome>>

\* R is even: SignatureAggregator::new wants one commitment per key, then the
\* signers are asked for their shares.
AggregateNonceEven(nonces) ==
    /\ public_nonces' = nonces
    /\ IF DOMAIN dkg_public_shares # Key
       THEN Return("Aggregator") /\ SendNothing
       ELSE /\ Send([type |-> "SignShareRequest", dkg_id |-> current_dkg_id,
                     nonce_responses |-> nonces, message |-> message])
            /\ awaiting' = DOMAIN nonces
            /\ phase' = "signature_shares"
            /\ UNCHANGED outcome

\* The turn of collect_nonces that completes the nonces, and sign_message up
\* to the loop of collect_signature_shares.
NoncesDone(p) ==
    /\ phase = "nonces"
    /\ DOMAIN NoncesWith(log[p].msg) = Signer
    /\ \/ Receive(COORDINATOR, p, {"odd"}) /\ AggregateNonceOdd
       \/ Receive(COORDINATOR, p, {}) /\ AggregateNonceEven(NoncesWith(log[p].msg))
    /\ UNCHANGED <<current_dkg_id, dkg_public_shares, signature_shares,
                   aggregate_public_key, message>>

\* wsts aggregator.sign: the shares add up to a signature under the sum of the
\* commitments only if each signer signed this message for these nonces, with
\* the nonce it published and a key made from these commitments.
aggregator_sign(shares) ==
    \A s \in DOMAIN public_nonces :
        shares[s] = [nonce |-> public_nonces[s], secret |-> dkg_public_shares,
                     message |-> message, nonces |-> public_nonces]

\* proof.verify(&self.aggregate_public_key.x(), msg), on a signature that is
\* valid under the sum of the commitments.
proof_verify == aggregate_public_key = dkg_public_shares

\* What sign_message returns once it has all the shares.
SignResult(shares) ==
    IF ~aggregator_sign(shares) THEN "Aggregator"
    ELSE IF ~proof_verify THEN "SchnorrProofFailed"
    ELSE "signature"

\* A turn of collect_signature_shares, and the end of sign_message.
CollectSignatureShares(p) ==
    /\ phase = "signature_shares"
    /\ Receive(COORDINATOR, p, {})
    /\ LET m == log[p].msg
           new == m.type = "SignShareResponse" /\ m.signer_id \in awaiting
           left == IF new THEN awaiting \ {m.signer_id} ELSE awaiting
           shares == IF new
                     THEN Insert(signature_shares, m.signer_id,
                                 m.signature_shares)
                     ELSE signature_shares
       IN /\ signature_shares' = shares
          /\ IF left = {}
             THEN Return(SignResult(shares))
             ELSE awaiting' = left /\ UNCHANGED <<phase, outcome>>
    /\ SendNothing
    /\ UNCHANGED <<current_dkg_id, dkg_public_shares, public_nonces,
                   aggregate_public_key, message>>

-----------------------------------------------------------------------------
(* Failure *)

\* wait_for_next_message got nothing until its backoff gave up: the relay had
\* nothing for the coordinator, or could not be reached.
CoordinatorTimeout ==
    /\ phase # "ready"
    /\ outbox[COORDINATOR] = << >>
    /\ Spend({"timeout"})
    /\ Return("Timeout")
    /\ UNCHANGED <<log, pos, outbox, current_dkg_id, dkg_public_shares,
                   public_nonces, signature_shares, aggregate_public_key,
                   message>>

\* send_message gave up; the message may have been posted all the same.
CoordinatorSendFails ==
    /\ outbox[COORDINATOR] # << >>
    /\ Spend({"giveup"})
    /\ Return("NetworkError")
    /\ outbox' = [outbox EXCEPT ![COORDINATOR] = << >>]
    /\ UNCHANGED <<log, pos, current_dkg_id, dkg_public_shares, public_nonces,
                   signature_shares, aggregate_public_key, message>>

\* The fields set by Coordinator::new.
NewCoordinator ==
    /\ phase' = "ready"
    /\ current_dkg_id' = 0
    /\ dkg_public_shares' = Empty
    /\ public_nonces' = Empty
    /\ signature_shares' = Empty
    /\ aggregate_public_key' = Empty
    /\ awaiting' = {}
    /\ message' = NoPayload
    /\ outcome' = "none"

\* The process ends and is started again.  The relay goes on from the message
\* after the last one this id was given; one may die between poll and pop.
CoordinatorRestart ==
    /\ Spend({"restart"})
    /\ NewCoordinator
    /\ outbox' = [outbox EXCEPT ![COORDINATOR] = << >>]
    /\ \/ UNCHANGED pos
       \/ Deliver(COORDINATOR, pos[COORDINATOR] + 1)
    /\ UNCHANGED log

CoordinatorPost ==
    /\ PostAnswered(COORDINATOR) \/ PostResponseLost(COORDINATOR)
    /\ UNCHANGED coordVars

CoordinatorInit ==
    /\ phase = "ready"
    /\ current_dkg_id = 0
    /\ dkg_public_shares = Empty
    /\ public_nonces = Empty
    /\ signature_shares = Empty
    /\ aggregate_public_key = Empty
    /\ awaiting = {}
    /\ message = NoPayload
    /\ outcome = "none"

\* The loop of the command under way takes a message.
CoordinatorReceive(p) ==
    \/ WaitForPublicShares(p)
    \/ PublicSharesDone(p)
    \/ WaitForDkgEnd(p)
    \/ CollectNonces(p)
    \/ NoncesDone(p)
    \/ CollectSignatureShares(p)

CoordinatorNext ==
    \/ StartDkg
    \/ \E msg \in Payload : StartSign(msg)
    \/ \E p \in 1..Len(log) : CoordinatorReceive(p)
    \/ CoordinatorPost
    \/ CoordinatorTimeout
    \/ CoordinatorSendFails
    \/ CoordinatorRestart
=============================================================================
