------------------------------ MODULE FrostNet ------------------------------
(***************************************************************************)
(* What the signers and the FROST coordinator share: the relay's log (as   *)
(* module TotalOrder presents it), the messages each process has yet to    *)
(* post, and the bounds on everything that could go on for ever.           *)
(*                                                                         *)
(* A process posts the messages of one handler one at a time and does not  *)
(* take the next message before all are posted (start_signing_round and    *)
(* the coordinator are single threads around a blocking send_message), so  *)
(* the posts of different processes interleave in the log.                 *)
(*                                                                         *)
(* Messages are records tagged with the variant of MessageTypes.  sign_id, *)
(* sign_nonce_id and correlation_id are constants of the code (1, 1 and 0) *)
(* and left out; the signature on a message is the process that made it.   *)
(***************************************************************************)
EXTENDS TotalOrder, FiniteSets

CONSTANTS
    Signer,         \* the signers, 1..=total_signers in the code
    Key,            \* all key ids, 1..=total_keys
    KeyIds,         \* KeyIds[s]: the keys of s, in the order of the config
    COORDINATOR,    \* DEVNET_COORDINATOR_ID
    Limit,          \* bounds, see Kind
    FaultMix        \* sets of faults that may occur in one behaviour

Node == Signer \cup {COORDINATOR}

(***************************************************************************)
(* What is bounded: rounds of key generation (dkg) and commands to sign    *)
(* (sign), odd curve points drawn (odd), and faults: a post repeated       *)
(* because its response was lost (dup), a GET response lost (lost), a wait *)
(* for the next message (timeout) or a send (giveup) that ran out of time, *)
(* a process restarted (restart).                                          *)
(***************************************************************************)
Fault == {"dup", "lost", "timeout", "giveup", "restart"}
Kind == {"dkg", "sign", "odd"} \cup Fault

ASSUME FrostAssumption ==
    /\ IsFiniteSet(Signer) /\ Signer # {}
    /\ IsFiniteSet(Key) /\ Key # {}
    /\ COORDINATOR \notin Signer
    /\ KeyIds \in [Signer -> Seq(Key)]
    /\ \A k \in Key : \E s \in Signer : \E i \in DOMAIN KeyIds[s] : KeyIds[s][i] = k
    /\ Limit \in [Kind -> Nat]
    /\ FaultMix \subseteq SUBSET Fault

VARIABLES
    outbox,         \* outbox[n]: messages n is in the middle of posting
    spent           \* spent[k]: how much of Limit[k] is used

netVars == <<log, pos, outbox, spent>>

NetInit ==
    /\ log = << >>
    /\ pos = [n \in Node |-> 0]
    /\ outbox = [n \in Node |-> << >>]
    /\ spent = [k \in Kind |-> 0]

\* Use one unit of each bound in K.
Spend(K) ==
    /\ \A k \in K : spent[k] < Limit[k]
    /\ spent' = [k \in Kind |-> IF k \in K THEN spent[k] + 1 ELSE spent[k]]
    /\ \E mix \in FaultMix : {k \in Fault : spent'[k] > 0} \subseteq mix

\* f with v inserted at k: HashMap::insert and BTreeMap::insert.
Insert(f, k, v) ==
    [x \in DOMAIN f \cup {k} |-> IF x = k THEN v ELSE f[x]]

\* The empty map.
Empty == << >>

-----------------------------------------------------------------------------
(***************************************************************************)
(* Who must have signed a message.  RawConfig::public_keys maps signer ids *)
(* and key ids to public keys, here to the signer that has the private     *)
(* one; a key id that two signers list goes to one of them (the later).    *)
(***************************************************************************)
public_keys ==
    [signers |-> [s \in Signer |-> s],
     key_ids |-> [k \in Key |->
                    CHOOSE s \in Signer : \E i \in DOMAIN KeyIds[s] : KeyIds[s][i] = k]]

\* Keys are counted from 1 in the configuration, in public_keys and in party_id,
\* and from 0 within wsts and in the key_id of DkgPrivateShares.
ZeroBased(k) == [zero_based |-> k]
OneBased(i) == i.zero_based

FromCoordinator == {"DkgBegin", "DkgPrivateBegin", "NonceRequest", "SignShareRequest"}
FromSigner == {"DkgPublicEnd", "DkgEnd", "NonceResponse", "SignShareResponse"}

\* Mutant: the id in DkgPrivateShares is looked up as it is.
verify_msg_as_sent(e) ==
    CASE e.msg.type \in FromCoordinator -> e.sig = COORDINATOR
      [] e.msg.type \in FromSigner -> /\ e.msg.signer_id \in DOMAIN public_keys.signers
                                     /\ e.sig = public_keys.signers[e.msg.signer_id]
      [] e.msg.type = "DkgPublicShare" -> /\ e.msg.party_id \in DOMAIN public_keys.key_ids
                                          /\ e.sig = public_keys.key_ids[e.msg.party_id]
      [] e.msg.type = "DkgPrivateShares" -> /\ e.msg.key_id \in DOMAIN public_keys.key_ids
                                            /\ e.sig = public_keys.key_ids[e.msg.key_id]

verify_msg(e) ==
    CASE e.msg.type \in FromCoordinator -> e.sig = COORDINATOR
      [] e.msg.type \in FromSigner -> /\ e.msg.signer_id \in DOMAIN public_keys.signers
                                     /\ e.sig = public_keys.signers[e.msg.signer_id]
      [] e.msg.type = "DkgPublicShare" -> /\ e.msg.party_id \in DOMAIN public_keys.key_ids
                                          /\ e.sig = public_keys.key_ids[e.msg.party_id]
      [] e.msg.type = "DkgPrivateShares" ->
            /\ OneBased(e.msg.key_id) \in DOMAIN public_keys.key_ids
            /\ e.sig = public_keys.key_ids[OneBased(e.msg.key_id)]

\* The next message of n, signed.
Signed(n) == [msg |-> Head(outbox[n]), sig |-> n]

-----------------------------------------------------------------------------
\* HttpNet::send_message: the relay accepts the message and answers.
PostAnswered(n) ==
    /\ outbox[n] # << >>
    /\ Publish(Signed(n))
    /\ outbox' = [outbox EXCEPT ![n] = Tail(@)]
    /\ UNCHANGED <<pos, spent>>

\* The relay accepts it but its answer is lost: n will post it again.
PostResponseLost(n) ==
    /\ outbox[n] # << >>
    /\ Spend({"dup"})
    /\ Publish(Signed(n))
    /\ UNCHANGED <<pos, outbox>>

(***************************************************************************)
(* n takes the message at position p of the log: the next one, or the one  *)
(* after it when the response that carried the next one was lost.  For a   *)
(* signer this is poll_loop, the channel and rx.recv together: the channel *)
(* is FIFO, so taking a message from it late is reading the log late.  K   *)
(* is what handling the message uses up besides.                           *)
(***************************************************************************)
Receive(n, p, K) ==
    /\ outbox[n] = << >>
    /\ p <= pos[n] + 2
    /\ Deliver(n, p)
    /\ Spend(IF p = pos[n] + 1 THEN K ELSE K \cup {"lost"})
    /\ UNCHANGED log
=============================================================================
