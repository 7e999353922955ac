---------------------------- MODULE SigningRound ----------------------------
(***************************************************************************)
(* A FROST signer: SigningRound::process and the loop around it in         *)
(* frost-signer/src/signer.rs.                                             *)
(*                                                                         *)
(* The cryptography (crate wsts) is abstracted to who drew what and when:  *)
(* a polynomial, and so a public or private share made from it, is the     *)
(* number of the draw (poly); a nonce is the number of the draw (nonce); a *)
(* secret key is the map from each key id to the draw of the private share *)
(* that went into it; a signature share is the record of what was signed   *)
(* with what.                                                              *)
(***************************************************************************)
EXTENDS FrostNet

VARIABLES
    round,          \* round[s]: the SigningRound of s
    alive,          \* alive[s]: start_signing_round has not returned
    signed          \* auxiliary: signed[s], what s used its nonces for

signerVars == <<round, alive, signed>>

\* States that process can leave a round in (the other two are never entered
\* between messages, or at all).
State == {"Idle", "DkgPublicGather", "DkgPrivateDistribute", "DkgPrivateGather"}

\* Mutant: no way back from DkgPrivateDistribute to another public round.
CanMoveToOnce(from, to) ==
    \/ to = "Idle"
    \/ /\ to = "DkgPublicDistribute"
       /\ from \in {"Idle", "DkgPublicGather"}
    \/ <<from, to>> \in {<<"DkgPublicDistribute", "DkgPublicGather">>,
                         <<"DkgPublicGather", "DkgPrivateDistribute">>,
                         <<"DkgPrivateDistribute", "DkgPrivateGather">>}

\* StateMachine::can_move_to
CanMoveTo(from, to) ==
    \/ to = "Idle"
    \/ /\ to = "DkgPublicDistribute"
       /\ from \in {"Idle", "DkgPublicGather", "DkgPrivateDistribute"}
    \/ <<from, to>> \in {<<"DkgPublicDistribute", "DkgPublicGather">>,
                         <<"DkgPublicGather", "DkgPrivateDistribute">>,
                         <<"DkgPrivateDistribute", "DkgPrivateGather">>}

\* From<&FrostSigner>: poly is a fresh draw of the new process, which has drawn
\* no nonce yet (the numbers of the draws go on, so that none is used twice).
NewRound(poly, nonce) ==
    [state |-> "Idle", dkg_id |-> 1, commitments |-> Empty, shares |-> Empty,
     poly |-> poly, nonce |-> nonce, secret |-> Empty]

-----------------------------------------------------------------------------
(* The handlers: what each does to round r of s, and what it sends. *)

Ok(r, out) == [ok |-> TRUE, round |-> r, out |-> out]
Err(r) == [ok |-> FALSE, round |-> r, out |-> << >>]

\* Mutant: shares.clear() is missing.
reset_keeps_shares(r, dkg_id) ==
    [r EXCEPT !.dkg_id = dkg_id, !.commitments = Empty, !.poly = @ + 1]

reset(r, dkg_id) ==
    [r EXCEPT !.dkg_id = dkg_id, !.commitments = Empty, !.shares = Empty,
              !.poly = @ + 1]

\* Mutant: move_to(DkgPublicGather) is missing.
dkg_begin_stays(s, r, m) ==
    IF CanMoveTo(r.state, "DkgPublicDistribute")
    THEN LET r1 == [reset(r, m.dkg_id) EXCEPT !.state = "DkgPublicDistribute"] IN
         Ok(r1, [i \in DOMAIN KeyIds[s] |->
                    [type |-> "DkgPublicShare", dkg_id |-> r1.dkg_id,
                     party_id |-> KeyIds[s][i], public_share |-> r1.poly]])
    ELSE Err(reset(r, m.dkg_id))

\* dkg_begin and dkg_public_begin: one DkgPublicShare per key of s.
dkg_begin(s, r, m) ==
    IF CanMoveTo(r.state, "DkgPublicDistribute")
    THEN LET r1 == [reset(r, m.dkg_id) EXCEPT !.state = "DkgPublicGather"] IN
         Ok(r1, [i \in DOMAIN KeyIds[s] |->
                    [type |-> "DkgPublicShare", dkg_id |-> r1.dkg_id,
                     party_id |-> KeyIds[s][i], public_share |-> r1.poly]])
    ELSE Err(reset(r, m.dkg_id))

\* One DkgPrivateShares per key of s, encrypted for every other key.  The code
\* goes through a HashMap, in any order; here it is the order of the keys.  The
\* shares of one signer are stored under different keys and counted only, so that
\* it makes no difference which comes first.
dkg_private_begin(s, r) ==
    IF CanMoveTo(r.state, "DkgPrivateGather")
    THEN Ok([r EXCEPT !.state = "DkgPrivateGather"],
            [i \in DOMAIN KeyIds[s] |->
                [type |-> "DkgPrivateShares", dkg_id |-> r.dkg_id,
                 key_id |-> ZeroBased(KeyIds[s][i]), private_shares |-> r.poly]])
    ELSE Err(r)

\* No check of dkg_id or of the state.
dkg_public_share(r, m) ==
    Ok([r EXCEPT !.commitments = Insert(@, m.party_id, m.public_share)], << >>)

dkg_private_shares(r, m) ==
    Ok([r EXCEPT !.shares = Insert(@, m.key_id, m.private_shares)], << >>)

\* Mutant: a nonce that is there is used again.
nonce_request_cached(s, r, m) ==
    Ok([r EXCEPT !.nonce = 1],
       <<[type |-> "NonceResponse", dkg_id |-> m.dkg_id, signer_id |-> s,
          nonces |-> 1]>>)

\* gen_nonces replaces the nonce that the previous request made.
nonce_request(s, r, m) ==
    Ok([r EXCEPT !.nonce = @ + 1],
       <<[type |-> "NonceResponse", dkg_id |-> m.dkg_id, signer_id |-> s,
          nonces |-> r.nonce + 1]>>)

\* frost_signer.sign: what a signature share of s commits to.
Share(r, m) ==
    [nonce |-> r.nonce, secret |-> r.secret,
     message |-> m.message, nonces |-> m.nonce_responses]

\* Signs whatever is asked with whatever nonce is current.
sign_share_request(s, r, m) ==
    Ok(r, IF s \in DOMAIN m.nonce_responses
          THEN <<[type |-> "SignShareResponse", dkg_id |-> m.dkg_id,
                  signer_id |-> s, signature_shares |-> Share(r, m)]>>
          ELSE << >>)

-----------------------------------------------------------------------------
(* The end of a phase, looked for after every message. *)

\* commitments.len() == total_keys
public_shares_done(r) ==
    r.state = "DkgPublicGather" /\ DOMAIN r.commitments = Key

\* Mutant: total_signers for total_keys.
can_dkg_end_signers(r) ==
    /\ r.state = "DkgPrivateGather"
    /\ DOMAIN r.commitments = Key
    /\ Cardinality(DOMAIN r.shares) = Cardinality(Signer)

can_dkg_end(r) ==
    /\ r.state = "DkgPrivateGather"
    /\ DOMAIN r.commitments = Key
    /\ Cardinality(DOMAIN r.shares) = Cardinality(Key)

\* The private shares by the key they come from.
SharesByKey(r) ==
    [k \in {OneBased(i) : i \in DOMAIN r.shares} |-> r.shares[ZeroBased(k)]]

\* wsts compute_secrets: every private share must lie on the polynomial its
\* key committed to; otherwise there is no key.
compute_secrets(r) ==
    IF SharesByKey(r) = r.commitments THEN r.commitments ELSE Empty

End(type, s, r, status) ==
    [type |-> type, dkg_id |-> r.dkg_id, signer_id |-> s, status |-> status]

dkg_public_ended(s, r) == End("DkgPublicEnd", s, r, "Success")

dkg_ended(s, r) ==
    End("DkgEnd", s, r,
        IF SharesByKey(r) = r.commitments THEN "Success" ELSE "Failure")

\* The second half of process, on the result of a handler.
PhaseEnd(s, res) ==
    IF ~res.ok THEN res
    ELSE IF public_shares_done(res.round)
    THEN Ok([res.round EXCEPT !.state = "DkgPrivateDistribute"],
            Append(res.out, dkg_public_ended(s, res.round)))
    ELSE IF can_dkg_end(res.round)
    THEN Ok([res.round EXCEPT !.state = "Idle",
                              !.secret = compute_secrets(res.round)],
            Append(res.out, dkg_ended(s, res.round)))
    ELSE res

Handle(s, r, m) ==
    CASE m.type = "DkgBegin"         -> dkg_begin(s, r, m)
      [] m.type = "DkgPrivateBegin"  -> dkg_private_begin(s, r)
      [] m.type = "DkgPublicShare"   -> dkg_public_share(r, m)
      [] m.type = "DkgPrivateShares" -> dkg_private_shares(r, m)
      [] m.type = "SignShareRequest" -> sign_share_request(s, r, m)
      [] m.type = "NonceRequest"     -> nonce_request(s, r, m)
      [] OTHER                       -> Ok(r, << >>)

\* Mutant: the end of the phase is looked for before the message is handled.
process_checks_first(s, r, m) ==
    LET end == PhaseEnd(s, Ok(r, << >>))
        res == Handle(s, end.round, m)
    IN [res EXCEPT !.out = end.out \o @]

process(s, r, m) == PhaseEnd(s, Handle(s, r, m))

-----------------------------------------------------------------------------
(* The loop of start_signing_round *)

\* rx.recv, process, and the answers queued for posting; an error ends the
\* loop and with it the signer.  poll_loop drops what verify_msg refuses.
SignerProcess(s, p) ==
    /\ alive[s]
    /\ Receive(s, p, {})
    /\ LET m == log[p].msg
           res == IF verify_msg(log[p]) THEN process(s, round[s], m)
                  ELSE Ok(round[s], << >>)
       IN /\ round' = [round EXCEPT ![s] = res.round]
          /\ outbox' = [outbox EXCEPT ![s] = res.out]
          /\ alive' = [alive EXCEPT ![s] = res.ok]
          /\ signed' = IF m.type = "SignShareRequest" /\ verify_msg(log[p])
                          /\ s \in DOMAIN m.nonce_responses
                       THEN [signed EXCEPT ![s] = @ \cup {Share(round[s], m)}]
                       ELSE signed

\* net.send_message(msg)? gives up: the loop returns the error.
SignerSendFails(s) ==
    /\ alive[s]
    /\ outbox[s] # << >>
    /\ Spend({"giveup"})
    /\ alive' = [alive EXCEPT ![s] = FALSE]
    /\ outbox' = [outbox EXCEPT ![s] = << >>]
    /\ UNCHANGED <<log, pos, round, signed>>

\* The process is started again.  Nothing was saved, and the relay still knows
\* what this id has read, the messages left in the old channel included.
SignerRestart(s) ==
    /\ Spend({"restart"})
    /\ \E p \in pos[s]..Len(log) : pos' = [pos EXCEPT ![s] = p]
    /\ round' = [round EXCEPT ![s] = NewRound(@.poly + 1, @.nonce + 1)]
    /\ alive' = [alive EXCEPT ![s] = TRUE]
    /\ outbox' = [outbox EXCEPT ![s] = << >>]
    /\ UNCHANGED <<log, signed>>

SignerPost(s) ==
    /\ alive[s]
    /\ PostAnswered(s) \/ PostResponseLost(s)
    /\ UNCHANGED signerVars

SignerInit ==
    /\ round = [s \in Signer |-> NewRound(0, 0)]
    /\ alive = [s \in Signer |-> TRUE]
    /\ signed = [s \in Signer |-> {}]

SignerNext(s) ==
    \/ \E p \in 1..Len(log) : SignerProcess(s, p)
    \/ SignerPost(s)
    \/ SignerSendFails(s)
    \/ SignerRestart(s)
=============================================================================
