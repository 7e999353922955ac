------------------------------- MODULE MCFrost -------------------------------
EXTENDS Frost, TLC

CONSTANTS s1, s2, s3, k1, k2, k3

\* One key per signer (two or three signers), and a signer with two keys.
OneKeyEach == s1 :> <<k1>> @@ s2 :> <<k2>>
ThreeSigners == s1 :> <<k1>> @@ s2 :> <<k2>> @@ s3 :> <<k3>>
TwoAndOne == s1 :> <<k1, k2>> @@ s2 :> <<k3>>

CONSTANTS MaxDkg, MaxSign, MaxOdd, MaxDup, MaxLost, MaxTimeout, MaxGiveUp,
          MaxRestart
Limits ==
    "dkg" :> MaxDkg @@ "sign" :> MaxSign @@ "odd" :> MaxOdd @@ "dup" :> MaxDup
    @@ "lost" :> MaxLost @@ "timeout" :> MaxTimeout @@ "giveup" :> MaxGiveUp
    @@ "restart" :> MaxRestart

\* Signers with one key each are interchangeable, with their keys; so are the
\* payloads.
Swap == s1 :> s2 @@ s2 :> s1 @@ k1 :> k2 @@ k2 :> k1
Symmetry == {Swap} \cup Permutations(Payload)

-----------------------------------------------------------------------------
(***************************************************************************)
(* A system that has its key: DKG is done, everybody has read everything,  *)
(* and the relay was restarted since, so that its log is empty.            *)
(***************************************************************************)
GroupKey == [k \in Key |-> 1]

KeyedInit ==
    /\ NetInit
    /\ round = [s \in Signer |->
                  [NewRound(1, 0) EXCEPT !.commitments = GroupKey,
                                         !.shares = [i \in {ZeroBased(k) : k \in Key} |-> 1],
                                         !.secret = GroupKey]]
    /\ alive = [s \in Signer |-> TRUE]
    /\ signed = [s \in Signer |-> {}]
    /\ phase = "ready"
    /\ current_dkg_id = 1
    /\ dkg_public_shares = GroupKey
    /\ public_nonces = Empty
    /\ signature_shares = Empty
    /\ aggregate_public_key = GroupKey
    /\ awaiting = {}
    /\ message = NoPayload
    /\ outcome = "dkg"

KeyedSpec == KeyedInit /\ [][Next]_vars
=============================================================================
