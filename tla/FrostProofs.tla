---------------------------- MODULE FrostProofs ----------------------------
(***************************************************************************)
(* The types of the signing rounds, the coordinator and the network, and   *)
(* that verify_msg refuses nothing an honest process posts: for any number *)
(* of signers, keys, payloads and commands, whatever is posted twice, lost, *)
(* timed out, given up or restarted.                                       *)
(***************************************************************************)
EXTENDS Frost, SequenceTheorems, TLAPS

-----------------------------------------------------------------------------
(* Maps and sequences *)

\* A map with no entry.
LEMMA EmptyIsMap ==
    ASSUME NEW D, NEW R
    PROVE  IsMap(Empty, D, R)
BY DEF IsMap, Empty

\* HashMap::insert keeps the types of keys and values.
LEMMA InsertIsMap ==
    ASSUME NEW D, NEW R, NEW f, IsMap(f, D, R), NEW k \in D, NEW v \in R
    PROVE  /\ IsMap(Insert(f, k, v), D, R)
           /\ DOMAIN Insert(f, k, v) = DOMAIN f \cup {k}
BY DEF IsMap, Insert

\* q is a sequence.
IsSeq(q) == q \in Seq({q[i] : i \in DOMAIN q})

\* What the provers need to know of a sequence.
LEMMA SeqFacts ==
    ASSUME NEW q, IsSeq(q)
    PROVE  /\ Len(q) \in Nat
           /\ DOMAIN q = 1..Len(q)
           /\ q = << >> <=> Len(q) = 0
BY DEF IsSeq

\* A sequence over any set is one.
LEMMA SeqOver ==
    ASSUME NEW S, NEW q \in Seq(S)
    PROVE  IsSeq(q)
<1>1. Len(q) \in Nat /\ q \in [1..Len(q) -> {q[i] : i \in DOMAIN q}]
  OBVIOUS
<1> QED
  BY <1>1 DEF IsSeq

\* No messages.
LEMMA EmptyIsSeq == IsSeq(<< >>)
<1>1. << >> \in Seq({})
  OBVIOUS
<1> QED
  BY <1>1, SeqOver, Zenon

\* One message.
LEMMA OneIsSeq ==
    ASSUME NEW e
    PROVE  /\ IsSeq(<<e>>)
           /\ DOMAIN <<e>> = {1}
           /\ <<e>>[1] = e
<1>1. <<e>> \in Seq({e})
  OBVIOUS
<1>2. IsSeq(<<e>>)
  BY <1>1, SeqOver, Zenon
<1> QED
  BY <1>2

\* One message more.
LEMMA AppendIsSeq ==
    ASSUME NEW q, IsSeq(q), NEW e
    PROVE  /\ IsSeq(Append(q, e))
           /\ Len(Append(q, e)) = Len(q) + 1
           /\ DOMAIN Append(q, e) = 1..(Len(q) + 1)
           /\ \A i \in 1..Len(q) : Append(q, e)[i] = q[i]
           /\ Append(q, e)[Len(q) + 1] = e
<1> DEFINE S == {q[i] : i \in DOMAIN q} \cup {e}
<1>1. q \in Seq(S)
  BY DEF IsSeq
<1>2. e \in S
  OBVIOUS
<1> HIDE DEF S
<1>3. Append(q, e) \in Seq(S)
  BY <1>1, <1>2
<1>4. IsSeq(Append(q, e))
  BY <1>3, SeqOver, Zenon
<1> QED
  BY <1>1, <1>2, <1>4

\* One message less.
LEMMA TailIsSeq ==
    ASSUME NEW q, IsSeq(q), q # << >>
    PROVE  /\ IsSeq(Tail(q))
           /\ Len(Tail(q)) = Len(q) - 1
           /\ \A i \in 1..Len(Tail(q)) : i + 1 \in 1..Len(q) /\ Tail(q)[i] = q[i + 1]
           /\ Head(q) = q[1] /\ 1 \in DOMAIN q
<1>1. PICK S : q \in Seq(S)
  BY DEF IsSeq
<1>2. Tail(q) \in Seq(S)
  BY <1>1
<1>3. IsSeq(Tail(q))
  BY <1>2, SeqOver, Zenon
<1>4. Len(Tail(q)) = Len(q) - 1 /\ Len(q) \in Nat \ {0}
  BY <1>1
<1>5. \A i \in 1..Len(Tail(q)) : i + 1 \in 1..Len(q) /\ Tail(q)[i] = q[i + 1]
  BY <1>1, <1>4
<1> QED
  BY <1>1, <1>3, <1>4, <1>5
-----------------------------------------------------------------------------
(* What a signer makes of a message *)

\* k is one of the key ids of signer s.
KeyOf(s, k) == \E i \in DOMAIN KeyIds[s] : KeyIds[s][i] = k

\* m is a message that n, and nobody else, makes.
Own(n, m) ==
    \/ n = COORDINATOR /\ m.type \in FromCoordinator
    \/ n \in Signer /\ m.type \in FromSigner /\ m.signer_id = n
    \/ n \in Signer /\ m.type = "DkgPublicShare" /\ KeyOf(n, m.party_id)
    \/ /\ n \in Signer /\ m.type = "DkgPrivateShares"
       /\ \E k \in Key : m.key_id = ZeroBased(k) /\ KeyOf(n, k)

\* q is a sequence of messages of n.
OwnSeq(n, q) == IsSeq(q) /\ \A i \in DOMAIN q : IsMessage(q[i]) /\ Own(n, q[i])

\* res is a result that process, or a handler, may have for s, and leaves it
\* with nonce n.
Result(s, res, n) ==
    /\ res.ok \in BOOLEAN
    /\ IsRound(res.round) /\ res.round.nonce = n
    /\ OwnSeq(s, res.out)

\* The nonce that message m leaves a round r with.
NonceAfter(r, m) == IF m.type = "NonceRequest" THEN r.nonce + 1 ELSE r.nonce

\* Nothing to post.
LEMMA OwnNothing == ASSUME NEW n PROVE OwnSeq(n, << >>)
BY EmptyIsSeq DEF OwnSeq

\* A message of n to post.
LEMMA OwnOne ==
    ASSUME NEW n, NEW m, IsMessage(m), Own(n, m)
    PROVE  OwnSeq(n, <<m>>)
BY OneIsSeq DEF OwnSeq

\* One message of n more to post.
LEMMA OwnAppend ==
    ASSUME NEW n, NEW q, OwnSeq(n, q), NEW m, IsMessage(m), Own(n, m)
    PROVE  OwnSeq(n, Append(q, m))
<1>1. /\ IsSeq(Append(q, m)) /\ DOMAIN Append(q, m) = 1..(Len(q) + 1)
      /\ \A i \in 1..Len(q) : Append(q, m)[i] = q[i]
      /\ Append(q, m)[Len(q) + 1] = m
  BY AppendIsSeq DEF OwnSeq
<1>2. DOMAIN q = 1..Len(q) /\ Len(q) \in Nat
  BY SeqFacts DEF OwnSeq
<1>3. \A i \in 1..(Len(q) + 1) : i \in 1..Len(q) \/ i = Len(q) + 1
  BY <1>2
<1> QED
  BY <1>1, <1>2, <1>3, Zenon DEF OwnSeq

\* One message per key of s, in the order of the configuration.
LEMMA OwnPerKey ==
    ASSUME NEW s \in Signer, NEW f, DOMAIN f = DOMAIN KeyIds[s],
           f = [i \in DOMAIN f |-> f[i]],
           \A i \in DOMAIN f : IsMessage(f[i]) /\ Own(s, f[i])
    PROVE  OwnSeq(s, f)
<1>1. KeyIds[s] \in Seq(Key)
  BY FrostAssumption
<1>2. Len(KeyIds[s]) \in Nat /\ DOMAIN f = 1..Len(KeyIds[s])
  BY <1>1
<1> DEFINE S == {f[i] : i \in DOMAIN f}
<1>3. f \in [1..Len(KeyIds[s]) -> S]
  BY <1>2
<1>4. f \in Seq(S)
  BY <1>2, <1>3
<1>5. IsSeq(f)
  BY <1>4, SeqOver, Zenon
<1> QED
  BY <1>5 DEF OwnSeq

\* A handler that succeeds.
LEMMA ResultOfOk ==
    ASSUME NEW s, NEW r, IsRound(r), NEW q, OwnSeq(s, q)
    PROVE  Result(s, Ok(r, q), r.nonce)
BY DEF Result, Ok

\* A handler that fails posts nothing.
LEMMA ResultOfErr ==
    ASSUME NEW s, NEW r, IsRound(r)
    PROVE  Result(s, Err(r), r.nonce)
BY OwnNothing DEF Result, Err

\* dkg_begin posts the public shares of the signer's own keys.
LEMMA DkgBeginResult ==
    ASSUME NEW s \in Signer, NEW r, IsRound(r), NEW m, IsMessage(m)
    PROVE  Result(s, dkg_begin(s, r, m), r.nonce)
<1> DEFINE r0 == reset(r, m.dkg_id)
           r1 == [r0 EXCEPT !.state = "DkgPublicGather"]
           out == [i \in DOMAIN KeyIds[s] |->
                    [type |-> "DkgPublicShare", dkg_id |-> r1.dkg_id,
                     party_id |-> KeyIds[s][i], public_share |-> r1.poly]]
<1>1. IsRound(r0) /\ r0.nonce = r.nonce
  BY EmptyIsMap DEF IsRound, reset, IsMessage
<1>2. IsRound(r1) /\ r1.nonce = r0.nonce
  BY <1>1 DEF IsRound, State
<1> HIDE DEF r0, r1
<1>3. OwnSeq(s, out)
  <2>1. ASSUME NEW i \in DOMAIN KeyIds[s]
        PROVE  IsMessage(out[i]) /\ Own(s, out[i])
    <3>1. KeyIds[s][i] \in Key
      BY FrostAssumption
    <3> QED
      BY <1>2, <3>1 DEF IsRound, IsMessage, Own, KeyOf
  <2>2. DOMAIN out = DOMAIN KeyIds[s] /\ out = [i \in DOMAIN out |-> out[i]]
    OBVIOUS
  <2> HIDE DEF out
  <2> QED
    BY <2>1, <2>2, OwnPerKey
<1> HIDE DEF out
<1>4. dkg_begin(s, r, m) = Ok(r1, out) \/ dkg_begin(s, r, m) = Err(r0)
  BY DEF dkg_begin, r0, r1, out
<1> QED
  BY <1>1, <1>2, <1>3, <1>4, ResultOfOk, ResultOfErr, Zenon

\* dkg_private_begin posts the private shares of its own keys.
LEMMA DkgPrivateBeginResult ==
    ASSUME NEW s \in Signer, NEW r, IsRound(r)
    PROVE  Result(s, dkg_private_begin(s, r), r.nonce)
<1> DEFINE r1 == [r EXCEPT !.state = "DkgPrivateGather"]
           out == [i \in DOMAIN KeyIds[s] |->
                    [type |-> "DkgPrivateShares", dkg_id |-> r.dkg_id,
                     key_id |-> ZeroBased(KeyIds[s][i]), private_shares |-> r.poly]]
<1>1. IsRound(r1) /\ r1.nonce = r.nonce
  BY DEF IsRound, State
<1> HIDE DEF r1
<1>2. OwnSeq(s, out)
  <2>1. ASSUME NEW i \in DOMAIN KeyIds[s]
        PROVE  IsMessage(out[i]) /\ Own(s, out[i])
    <3>1. KeyIds[s][i] \in Key
      BY FrostAssumption
    <3> QED
      BY <3>1 DEF IsRound, IsMessage, Own, KeyOf
  <2>2. DOMAIN out = DOMAIN KeyIds[s] /\ out = [i \in DOMAIN out |-> out[i]]
    OBVIOUS
  <2> HIDE DEF out
  <2> QED
    BY <2>1, <2>2, OwnPerKey
<1> HIDE DEF out
<1>3. dkg_private_begin(s, r) = Ok(r1, out) \/ dkg_private_begin(s, r) = Err(r)
  BY DEF dkg_private_begin, r1, out
<1> QED
  BY <1>1, <1>2, <1>3, ResultOfOk, ResultOfErr, Zenon

\* dkg_public_share stores a share.
LEMMA DkgPublicShareResult ==
    ASSUME NEW s \in Signer, NEW r, IsRound(r), NEW m, IsMessage(m),
           m.type = "DkgPublicShare"
    PROVE  Result(s, dkg_public_share(r, m), r.nonce)
<1> DEFINE r1 == [r EXCEPT !.commitments = Insert(@, m.party_id, m.public_share)]
<1>1. m.party_id \in Key /\ m.public_share \in Nat
  BY DEF IsMessage
<1>2. IsMap(Insert(r.commitments, m.party_id, m.public_share), Key, Nat)
  BY <1>1, InsertIsMap DEF IsRound
<1>3. IsRound(r1) /\ r1.nonce = r.nonce
  BY <1>2 DEF IsRound
<1> HIDE DEF r1
<1>4. dkg_public_share(r, m) = Ok(r1, << >>)
  BY DEF dkg_public_share, r1
<1> QED
  BY <1>3, <1>4, OwnNothing, ResultOfOk, Zenon

\* dkg_private_shares stores shares.
LEMMA DkgPrivateSharesResult ==
    ASSUME NEW s \in Signer, NEW r, IsRound(r), NEW m, IsMessage(m),
           m.type = "DkgPrivateShares"
    PROVE  Result(s, dkg_private_shares(r, m), r.nonce)
<1> DEFINE r1 == [r EXCEPT !.shares = Insert(@, m.key_id, m.private_shares)]
<1>1. m.key_id \in {ZeroBased(k) : k \in Key} /\ m.private_shares \in Nat
  BY DEF IsMessage
<1>2. IsMap(Insert(r.shares, m.key_id, m.private_shares), {ZeroBased(k) : k \in Key}, Nat)
  BY <1>1, InsertIsMap DEF IsRound
<1>3. IsRound(r1) /\ r1.nonce = r.nonce
  BY <1>2 DEF IsRound
<1> HIDE DEF r1
<1>4. dkg_private_shares(r, m) = Ok(r1, << >>)
  BY DEF dkg_private_shares, r1
<1> QED
  BY <1>3, <1>4, OwnNothing, ResultOfOk, Zenon

\* nonce_request draws the next nonce and answers under the own id.
LEMMA NonceRequestResult ==
    ASSUME NEW s \in Signer, NEW r, IsRound(r), NEW m, IsMessage(m)
    PROVE  Result(s, nonce_request(s, r, m), r.nonce + 1)
<1> DEFINE r1 == [r EXCEPT !.nonce = @ + 1]
           a == [type |-> "NonceResponse", dkg_id |-> m.dkg_id, signer_id |-> s,
                 nonces |-> r.nonce + 1]
<1>1. IsRound(r1) /\ r1.nonce = r.nonce + 1
  BY DEF IsRound
<1>2. IsMessage(a) /\ Own(s, a)
  BY DEF IsMessage, Own, IsRound, FromSigner
<1> HIDE DEF r1, a
<1>3. nonce_request(s, r, m) = Ok(r1, <<a>>)
  BY DEF nonce_request, r1, a
<1> QED
  BY <1>1, <1>2, <1>3, OwnOne, ResultOfOk, Zenon

\* sign_share_request answers with a share, and keeps the nonce.
LEMMA SignShareRequestResult ==
    ASSUME NEW s \in Signer, NEW r, IsRound(r), NEW m, IsMessage(m),
           m.type = "SignShareRequest"
    PROVE  Result(s, sign_share_request(s, r, m), r.nonce) /\ IsShare(Share(r, m))
<1> DEFINE a == [type |-> "SignShareResponse", dkg_id |-> m.dkg_id,
                 signer_id |-> s, signature_shares |-> Share(r, m)]
<1>1. IsShare(Share(r, m))
  BY DEF Share, IsShare, IsMessage, IsRound
<1>2. IsMessage(a) /\ Own(s, a)
  BY <1>1 DEF IsMessage, Own, FromSigner
<1> HIDE DEF a
<1>3. sign_share_request(s, r, m) = Ok(r, <<a>>) \/ sign_share_request(s, r, m) = Ok(r, << >>)
  BY DEF sign_share_request, a
<1> QED
  BY <1>1, <1>2, <1>3, OwnOne, OwnNothing, ResultOfOk, Zenon

\* No handler but nonce_request draws a nonce.
LEMMA HandleResult ==
    ASSUME NEW s \in Signer, NEW r, IsRound(r), NEW m, IsMessage(m)
    PROVE  Result(s, Handle(s, r, m), NonceAfter(r, m))
<1>1. CASE m.type = "DkgBegin"
  BY <1>1, DkgBeginResult DEF Handle, NonceAfter
<1>2. CASE m.type = "DkgPrivateBegin"
  BY <1>2, DkgPrivateBeginResult DEF Handle, NonceAfter
<1>3. CASE m.type = "DkgPublicShare"
  BY <1>3, DkgPublicShareResult DEF Handle, NonceAfter
<1>4. CASE m.type = "DkgPrivateShares"
  BY <1>4, DkgPrivateSharesResult DEF Handle, NonceAfter
<1>5. CASE m.type = "SignShareRequest"
  BY <1>5, SignShareRequestResult DEF Handle, NonceAfter
<1>6. CASE m.type = "NonceRequest"
  BY <1>6, NonceRequestResult DEF Handle, NonceAfter
<1>7. CASE m.type \notin {"DkgBegin", "DkgPrivateBegin", "DkgPublicShare",
                          "DkgPrivateShares", "SignShareRequest", "NonceRequest"}
  <2>1. Handle(s, r, m) = Ok(r, << >>)
    BY <1>7 DEF Handle
  <2> QED
    BY <1>7, <2>1, OwnNothing, ResultOfOk DEF NonceAfter
<1> QED
  BY <1>1, <1>2, <1>3, <1>4, <1>5, <1>6, <1>7

\* The end of a phase posts what the signer itself has to say.
LEMMA PhaseEndResult ==
    ASSUME NEW s \in Signer, NEW res, NEW n, Result(s, res, n)
    PROVE  Result(s, PhaseEnd(s, res), n)
<1>0. IsRound(res.round) /\ res.round.nonce = n /\ OwnSeq(s, res.out)
  BY DEF Result
<1>1. CASE ~res.ok
  BY <1>1 DEF PhaseEnd
<1>2. CASE res.ok /\ public_shares_done(res.round)
  <2> DEFINE r1 == [res.round EXCEPT !.state = "DkgPrivateDistribute"]
             a == dkg_public_ended(s, res.round)
  <2>1. IsRound(r1) /\ r1.nonce = res.round.nonce
    BY <1>0 DEF IsRound, State
  <2>2. IsMessage(a) /\ Own(s, a)
    BY <1>0 DEF IsMessage, Own, FromSigner, dkg_public_ended, End, IsRound
  <2> HIDE DEF r1, a
  <2>3. PhaseEnd(s, res) = Ok(r1, Append(res.out, a))
    BY <1>2 DEF PhaseEnd, r1, a
  <2>4. OwnSeq(s, Append(res.out, a))
    BY <1>0, <2>2, OwnAppend
  <2> QED
    BY <1>0, <2>1, <2>3, <2>4, ResultOfOk, Zenon
<1>3. CASE res.ok /\ ~public_shares_done(res.round) /\ can_dkg_end(res.round)
  <2> DEFINE r1 == [res.round EXCEPT !.state = "Idle", !.secret = compute_secrets(res.round)]
             a == dkg_ended(s, res.round)
  <2>0. IsMap(compute_secrets(res.round), Key, Nat)
    BY <1>0, EmptyIsMap DEF compute_secrets, IsRound
  <2>1. IsRound(r1) /\ r1.nonce = res.round.nonce
    BY <1>0, <2>0 DEF IsRound, State
  <2>2. IsMessage(a) /\ Own(s, a)
    BY <1>0 DEF IsMessage, Own, FromSigner, dkg_ended, End, IsRound
  <2> HIDE DEF r1, a
  <2>3. PhaseEnd(s, res) = Ok(r1, Append(res.out, a))
    BY <1>3 DEF PhaseEnd, r1, a
  <2>4. OwnSeq(s, Append(res.out, a))
    BY <1>0, <2>2, OwnAppend
  <2> QED
    BY <1>0, <2>1, <2>3, <2>4, ResultOfOk, Zenon
<1>4. CASE res.ok /\ ~public_shares_done(res.round) /\ ~can_dkg_end(res.round)
  BY <1>4 DEF PhaseEnd
<1> QED
  BY <1>1, <1>2, <1>3, <1>4

\* SigningRound::process.
LEMMA ProcessResult ==
    ASSUME NEW s \in Signer, NEW r, IsRound(r), NEW m, IsMessage(m)
    PROVE  Result(s, process(s, r, m), NonceAfter(r, m))
BY HandleResult, PhaseEndResult, Zenon DEF process

-----------------------------------------------------------------------------
(* Types, and who makes which message *)

\* The relay holds messages, each signed by the one that makes it.
LogInv ==
    /\ IsSeq(log)
    /\ \A p \in DOMAIN log :
          /\ IsMessage(log[p].msg)
          /\ log[p].sig \in Node
          /\ Own(log[p].sig, log[p].msg)

\* Nobody has read past the end of the relay.
PosInv ==
    /\ pos \in [Node -> Nat]
    /\ \A n \in Node : pos[n] <= Len(log)

\* What a node has yet to post it made itself.
OutboxInv ==
    /\ DOMAIN outbox = Node
    /\ \A n \in Node : OwnSeq(n, outbox[n])

\* The network.
NetInv == LogInv /\ PosInv /\ OutboxInv /\ spent \in [Kind -> Nat]

\* The signers: rounds between two messages, and the shares they gave.
SignerInv ==
    /\ DOMAIN round = Signer
    /\ \A s \in Signer : IsRound(round[s])
    /\ alive \in [Signer -> BOOLEAN]
    /\ DOMAIN signed = Signer
    /\ \A s \in Signer : \A x \in signed[s] : IsShare(x)

\* A loop of sign_message has the message it is to sign.
CoordInv ==
    /\ phase \in Phase
    /\ current_dkg_id \in Nat
    /\ IsMap(dkg_public_shares, Key, Nat)
    /\ IsMap(aggregate_public_key, Key, Nat)
    /\ IsMap(public_nonces, Signer, Nat)
    /\ DOMAIN signature_shares \subseteq Signer
    /\ \A s \in DOMAIN signature_shares : IsShare(signature_shares[s])
    /\ awaiting \subseteq Signer
    /\ message \in Payload \cup {NoPayload}
    /\ outcome \in Outcome
    /\ phase = "nonces" => message \in Payload

\* The inductive invariant.
Inv == NetInv /\ SignerInv /\ CoordInv

\* It implies the types.
LEMMA InvTypes == Inv => TypeOK
<1> SUFFICES ASSUME Inv PROVE TypeOK
  OBVIOUS
<1>1. IsSeqOf(log, LAMBDA e : IsMessage(e.msg) /\ e.sig \in Node)
  BY DEF Inv, NetInv, LogInv, IsSeqOf, IsSeq
<1>2. \A n \in Node : IsSeqOf(outbox[n], IsMessage)
  BY DEF Inv, NetInv, OutboxInv, OwnSeq, IsSeqOf, IsSeq
<1> QED
  BY <1>1, <1>2 DEF Inv, NetInv, PosInv, OutboxInv, SignerInv, CoordInv, TypeOK

\* A signer that has just been started.
LEMMA NewRoundTypes ==
    ASSUME NEW poly \in Nat, NEW nonce \in Nat
    PROVE  IsRound(NewRound(poly, nonce))
BY EmptyIsMap DEF IsRound, NewRound, State

\* It holds at first.
LEMMA InitInv == Init => Inv
<1> SUFFICES ASSUME Init PROVE Inv
  OBVIOUS
<1>1. NetInv
  <2>1. LogInv
    BY EmptyIsSeq DEF Init, NetInit, LogInv
  <2>2. PosInv
    BY DEF Init, NetInit, PosInv
  <2>3. OutboxInv
    BY OwnNothing DEF Init, NetInit, OutboxInv
  <2> QED
    BY <2>1, <2>2, <2>3 DEF Init, NetInit, NetInv
<1>2. SignerInv
  <2>1. IsRound(NewRound(0, 0))
    BY NewRoundTypes
  <2> QED
    BY <2>1 DEF Init, SignerInit, SignerInv
<1>3. CoordInv
  BY EmptyIsMap DEF Init, CoordinatorInit, CoordInv, Phase, Outcome, Empty
<1> QED
  BY <1>1, <1>2, <1>3 DEF Inv

\* A fault is counted.
LEMMA SpendTypes ==
    ASSUME spent \in [Kind -> Nat], NEW K, Spend(K)
    PROVE  spent' \in [Kind -> Nat]
BY DEF Spend

\* n is left with the messages q to post.
LEMMA OutboxStep ==
    ASSUME OutboxInv, NEW n \in Node, NEW q, OwnSeq(n, q),
           outbox' = [outbox EXCEPT ![n] = q]
    PROVE  OutboxInv'
BY DEF OutboxInv, OwnSeq

\* Only the positions move.
LEMMA MoveStep ==
    ASSUME PosInv, LogInv, NEW n \in Node, NEW p \in pos[n]..Len(log), log' = log,
           pos' = [pos EXCEPT ![n] = p]
    PROVE  PosInv'
<1>1. Len(log) \in Nat
  BY SeqFacts DEF LogInv
<1> QED
  BY <1>1 DEF PosInv

\* A post, whether or not its response arrives.
LEMMA PostStep ==
    ASSUME NetInv, NEW n \in Node, PostAnswered(n) \/ PostResponseLost(n)
    PROVE  NetInv' /\ log' = Append(log, Signed(n))
<1> DEFINE e == Signed(n)
<1>0. log' = Append(log, e) /\ outbox[n] # << >> /\ pos' = pos
  BY DEF PostAnswered, PostResponseLost, Publish
<1>1. IsSeq(outbox[n]) /\ OwnSeq(n, outbox[n])
  BY DEF NetInv, OutboxInv, OwnSeq
<1>2. Head(outbox[n]) = outbox[n][1] /\ 1 \in DOMAIN outbox[n]
  BY <1>0, <1>1, TailIsSeq
<1>3. IsMessage(Head(outbox[n])) /\ Own(n, Head(outbox[n]))
  BY <1>1, <1>2, Zenon DEF OwnSeq
<1>4. e.sig = n /\ IsMessage(e.msg) /\ Own(e.sig, e.msg)
  BY <1>3 DEF Signed
<1> HIDE DEF e
<1>5. /\ IsSeq(log) /\ DOMAIN log = 1..Len(log) /\ Len(log) \in Nat
      /\ IsSeq(Append(log, e)) /\ DOMAIN Append(log, e) = 1..(Len(log) + 1)
      /\ Len(Append(log, e)) = Len(log) + 1
      /\ \A i \in 1..Len(log) : Append(log, e)[i] = log[i]
      /\ Append(log, e)[Len(log) + 1] = e
  BY AppendIsSeq, SeqFacts DEF NetInv, LogInv
<1>6. LogInv'
  <2>1. \A i \in 1..(Len(log) + 1) : i \in 1..Len(log) \/ i = Len(log) + 1
    BY <1>5
  <2>2. \A i \in 1..(Len(log) + 1) :
          /\ IsMessage(Append(log, e)[i].msg)
          /\ Append(log, e)[i].sig \in Node
          /\ Own(Append(log, e)[i].sig, Append(log, e)[i].msg)
    BY <1>4, <1>5, <2>1, Zenon DEF NetInv, LogInv
  <2>3. LogInv' <=> /\ IsSeq(log')
                    /\ \A p \in DOMAIN log' :
                          /\ IsMessage(log'[p].msg)
                          /\ log'[p].sig \in Node
                          /\ Own(log'[p].sig, log'[p].msg)
    BY DEF LogInv, IsSeq, Own, KeyOf, IsMessage
  <2> QED
    BY <1>0, <1>5, <2>2, <2>3, Zenon
<1>7. PosInv'
  BY <1>0, <1>5 DEF NetInv, PosInv
<1>8. OutboxInv' /\ spent' \in [Kind -> Nat]
  <2>1. CASE PostAnswered(n)
    <3>1. OwnSeq(n, Tail(outbox[n]))
      <4>1. /\ IsSeq(Tail(outbox[n]))
            /\ \A i \in DOMAIN Tail(outbox[n]) :
                  i + 1 \in DOMAIN outbox[n] /\ Tail(outbox[n])[i] = outbox[n][i + 1]
        BY <1>0, <1>1, TailIsSeq, SeqFacts
      <4> QED
        BY <1>1, <4>1, Zenon DEF OwnSeq
    <3>2. outbox' = [outbox EXCEPT ![n] = Tail(outbox[n])] /\ spent' = spent
      BY <2>1 DEF PostAnswered
    <3> QED
      BY <3>1, <3>2, OutboxStep DEF NetInv
  <2>2. CASE PostResponseLost(n)
    BY <2>2, SpendTypes DEF PostResponseLost, NetInv, OutboxInv, OwnSeq
  <2> QED
    BY <2>1, <2>2
<1> QED
  BY <1>0, <1>6, <1>7, <1>8 DEF NetInv, e

\* n takes a message; its answers are the caller's affair.
LEMMA ReceiveStep ==
    ASSUME NetInv, NEW n \in Node, NEW p, NEW K, Receive(n, p, K), OutboxInv'
    PROVE  NetInv'
<1>2. log' = log /\ p \in pos[n]..Len(log) /\ pos' = [pos EXCEPT ![n] = p]
  BY SeqFacts DEF Receive, Deliver, NetInv, PosInv, LogInv
<1>3. PosInv'
  BY <1>2, MoveStep DEF NetInv
<1>4. spent' \in [Kind -> Nat]
  BY SpendTypes DEF Receive, NetInv
<1>5. LogInv'
  BY <1>2 DEF NetInv, LogInv
<1> QED
  BY <1>3, <1>4, <1>5 DEF NetInv

\* A signer's step: what it does to its round, and what it leaves alone.
LEMMA SignerProcessInv ==
    ASSUME Inv, NEW s \in Signer, NEW p \in 1..Len(log), SignerProcess(s, p)
    PROVE  NetInv' /\ SignerInv'
<1> DEFINE m == log[p].msg
           res == IF verify_msg(log[p]) THEN process(s, round[s], m)
                  ELSE Ok(round[s], << >>)
<1>0. IsMessage(m) /\ IsRound(round[s]) /\ s \in Node
  BY SeqFacts DEF Inv, NetInv, LogInv, SignerInv, Node
<1>1. Result(s, process(s, round[s], m), NonceAfter(round[s], m))
  BY <1>0, ProcessResult, Zenon
<1>2. Result(s, Ok(round[s], << >>), round[s].nonce)
  BY <1>0, ResultOfOk, OwnNothing, Zenon
<1>3. \E n : Result(s, res, n)
  BY <1>1, <1>2, Zenon
<1>4. res.ok \in BOOLEAN /\ IsRound(res.round) /\ OwnSeq(s, res.out)
  BY <1>3 DEF Result
<1>5. /\ Receive(s, p, {})
      /\ round' = [round EXCEPT ![s] = res.round]
      /\ outbox' = [outbox EXCEPT ![s] = res.out]
      /\ alive' = [alive EXCEPT ![s] = res.ok]
      /\ signed' = IF /\ m.type = "SignShareRequest" /\ verify_msg(log[p])
                      /\ s \in DOMAIN m.nonce_responses
                   THEN [signed EXCEPT ![s] = @ \cup {Share(round[s], m)}]
                   ELSE signed
  BY DEF SignerProcess
<1> HIDE DEF res, m
<1>6. NetInv'
  BY <1>0, <1>4, <1>5, ReceiveStep, OutboxStep DEF Inv, NetInv
<1>7. \A t \in Signer : IsRound(round'[t])
  BY <1>4, <1>5 DEF Inv, SignerInv
<1>8. DOMAIN round' = Signer /\ alive' \in [Signer -> BOOLEAN]
  BY <1>4, <1>5 DEF Inv, SignerInv
<1>9. m.type = "SignShareRequest" => IsShare(Share(round[s], m))
  BY <1>0, SignShareRequestResult
<1>10. DOMAIN signed' = Signer /\ \A t \in Signer : \A x \in signed'[t] : IsShare(x)
  BY <1>5, <1>9 DEF Inv, SignerInv
<1> QED
  BY <1>6, <1>7, <1>8, <1>10 DEF SignerInv, IsRound, IsShare, IsMap

\* Steps of a signer keep the invariant.
LEMMA SignerStep ==
    ASSUME Inv, NEW s \in Signer, SignerNext(s), UNCHANGED coordVars
    PROVE  Inv'
<1>0. s \in Node
  BY DEF Node
<1>1. CoordInv'
  BY DEF Inv, CoordInv, coordVars, IsMap, IsShare
<1>2. CASE \E p \in 1..Len(log) : SignerProcess(s, p)
  BY <1>1, <1>2, SignerProcessInv DEF Inv
<1>3. CASE SignerPost(s)
  <2>1. NetInv'
    BY <1>0, <1>3, PostStep DEF SignerPost, Inv
  <2>2. SignerInv'
    BY <1>3 DEF SignerPost, signerVars, Inv, SignerInv, IsRound, IsShare, IsMap
  <2> QED
    BY <1>1, <2>1, <2>2 DEF Inv
<1>4. CASE SignerSendFails(s)
  <2>1. OutboxInv'
    BY <1>0, <1>4, OwnNothing, OutboxStep DEF SignerSendFails, Inv, NetInv
  <2>2. NetInv'
    BY <1>4, <2>1, SpendTypes DEF SignerSendFails, Inv, NetInv, LogInv, PosInv
  <2>3. SignerInv'
    BY <1>4 DEF SignerSendFails, Inv, SignerInv, IsRound, IsShare, IsMap
  <2> QED
    BY <1>1, <2>2, <2>3 DEF Inv
<1>5. CASE SignerRestart(s)
  <2>1. OutboxInv'
    BY <1>0, <1>5, OwnNothing, OutboxStep DEF SignerRestart, Inv, NetInv
  <2>2. PosInv'
    BY <1>0, <1>5, MoveStep DEF SignerRestart, Inv, NetInv
  <2>3. NetInv'
    BY <1>5, <2>1, <2>2, SpendTypes DEF SignerRestart, Inv, NetInv, LogInv
  <2>4. IsRound(NewRound(round[s].poly + 1, round[s].nonce + 1))
    <3>0. IsRound(round[s])
      BY DEF Inv, SignerInv
    <3>1. round[s].poly + 1 \in Nat /\ round[s].nonce + 1 \in Nat
      BY <3>0 DEF IsRound
    <3> QED
      BY <3>1, NewRoundTypes
  <2>5. SignerInv'
    BY <1>5, <2>4 DEF SignerRestart, Inv, SignerInv
  <2> QED
    BY <1>1, <2>3, <2>5 DEF Inv
<1> QED
  BY <1>2, <1>3, <1>4, <1>5 DEF SignerNext

\* The coordinator takes a message and sends m or nothing.
LEMMA CoordinatorReceives ==
    ASSUME Inv, NEW p, NEW K, Receive(COORDINATOR, p, K),
           \/ SendNothing
           \/ \E m : IsMessage(m) /\ m.type \in FromCoordinator /\ Send(m)
    PROVE  NetInv'
<1>0. COORDINATOR \in Node
  BY DEF Node
<1>1. CASE SendNothing
  <2>1. OutboxInv'
    BY <1>1 DEF SendNothing, Inv, NetInv, OutboxInv, OwnSeq
  <2> QED
    BY <1>0, <2>1, ReceiveStep DEF Inv
<1>2. CASE \E m : IsMessage(m) /\ m.type \in FromCoordinator /\ Send(m)
  <2>1. PICK m : IsMessage(m) /\ m.type \in FromCoordinator /\ Send(m)
    BY <1>2
  <2>2. OwnSeq(COORDINATOR, <<m>>)
    BY <2>1, OwnOne DEF Own
  <2> QED
    BY <1>0, <2>1, <2>2, ReceiveStep, OutboxStep DEF Inv, NetInv, Send
<1> QED
  BY <1>1, <1>2

\* A command of the coordinator starts without reading.
LEMMA CoordinatorSends ==
    ASSUME Inv, NEW K, Spend(K), UNCHANGED <<log, pos>>,
           \/ SendNothing
           \/ \E m : IsMessage(m) /\ m.type \in FromCoordinator /\ Send(m)
    PROVE  NetInv'
<1>0. COORDINATOR \in Node
  BY DEF Node
<1>1. OutboxInv'
  <2>1. CASE SendNothing
    BY <2>1 DEF SendNothing, Inv, NetInv, OutboxInv, OwnSeq
  <2>2. CASE \E m : IsMessage(m) /\ m.type \in FromCoordinator /\ Send(m)
    <3>1. PICK m : IsMessage(m) /\ m.type \in FromCoordinator /\ Send(m)
      BY <2>2
    <3>2. OwnSeq(COORDINATOR, <<m>>)
      BY <3>1, OwnOne DEF Own
    <3> QED
      BY <1>0, <3>1, <3>2, OutboxStep DEF Inv, NetInv, Send
  <2> QED
    BY <2>1, <2>2
<1> QED
  BY <1>1, SpendTypes DEF Inv, NetInv, LogInv, PosInv

\* What DkgBegin, DkgPrivateBegin and NonceRequest carry.
LEMMA PlainMessage ==
    ASSUME NEW type \in {"DkgBegin", "DkgPrivateBegin", "NonceRequest"}, NEW d \in Nat
    PROVE  LET m == [type |-> type, dkg_id |-> d] IN
           IsMessage(m) /\ m.type \in FromCoordinator
BY DEF IsMessage, FromCoordinator

\* run_distributed_key_generation sends DkgBegin.
LEMMA StartDkgInv == Inv /\ StartDkg => NetInv' /\ CoordInv'
<1> SUFFICES ASSUME Inv, StartDkg PROVE NetInv' /\ CoordInv'
  OBVIOUS
<1>1. NetInv'
  <2>1. current_dkg_id + 1 \in Nat
    BY DEF Inv, CoordInv
  <2>2. \E m : IsMessage(m) /\ m.type \in FromCoordinator /\ Send(m)
    BY <2>1, PlainMessage DEF StartDkg, start_public_shares
  <2> QED
    BY <2>2, CoordinatorSends DEF StartDkg
<1>2. IsMap(dkg_public_shares', Key, Nat)
  BY EmptyIsMap DEF StartDkg, start_public_shares
<1>3. CoordInv'
  BY <1>2 DEF Inv, CoordInv, StartDkg, Phase, Outcome, IsShare, IsMap
<1> QED
  BY <1>1, <1>3

\* sign_message sends NonceRequest.
LEMMA StartSignInv ==
    ASSUME Inv, NEW msg \in Payload, StartSign(msg)
    PROVE  NetInv' /\ CoordInv'
<1>1. NetInv'
  <2>1. current_dkg_id \in Nat
    BY DEF Inv, CoordInv
  <2>2. \/ SendNothing
        \/ \E m : IsMessage(m) /\ m.type \in FromCoordinator /\ Send(m)
    BY <2>1, PlainMessage DEF StartSign, NonceRequest
  <2> QED
    BY <2>2, CoordinatorSends DEF StartSign
<1>2. IsMap(public_nonces', Signer, Nat)
  BY EmptyIsMap DEF StartSign, Inv, CoordInv
<1>3. CoordInv'
  BY <1>2 DEF Inv, CoordInv, StartSign, Return, Phase, Outcome, IsShare, IsMap
<1> QED
  BY <1>1, <1>3

\* A public share is waited for.
LEMMA WaitForPublicSharesInv ==
    ASSUME Inv, NEW p \in 1..Len(log), WaitForPublicShares(p)
    PROVE  NetInv' /\ CoordInv'
<1>0. IsMessage(log[p].msg)
  BY SeqFacts DEF Inv, NetInv, LogInv
<1>1. NetInv'
  BY CoordinatorReceives DEF WaitForPublicShares
<1>2. IsMap(dkg_public_shares', Key, Nat)
  <2>1. CASE log[p].msg.type = "DkgPublicShare"
    <3>1. log[p].msg.party_id \in Key /\ log[p].msg.public_share \in Nat
      BY <1>0, <2>1 DEF IsMessage
    <3>2. dkg_public_shares' = Insert(dkg_public_shares, log[p].msg.party_id,
                                      log[p].msg.public_share)
      BY <2>1 DEF WaitForPublicShares
    <3> QED
      BY <3>1, <3>2, InsertIsMap DEF Inv, CoordInv
  <2>2. CASE log[p].msg.type # "DkgPublicShare"
    BY <2>2 DEF Inv, CoordInv, WaitForPublicShares
  <2> QED
    BY <2>1, <2>2
<1>3. awaiting' \subseteq Signer
  BY DEF Inv, CoordInv, WaitForPublicShares
<1>4. CoordInv'
  BY <1>2, <1>3 DEF Inv, CoordInv, WaitForPublicShares, IsShare, IsMap
<1> QED
  BY <1>1, <1>4

\* The last public share makes the aggregate key.
LEMMA PublicSharesDoneInv ==
    ASSUME Inv, NEW p \in 1..Len(log), PublicSharesDone(p)
    PROVE  NetInv' /\ CoordInv'
<1>0. current_dkg_id \in Nat
  BY DEF Inv, CoordInv
<1>1. CASE Receive(COORDINATOR, p, {}) /\ AggregateKeyEven
  <2>1. \E m : IsMessage(m) /\ m.type \in FromCoordinator /\ Send(m)
    BY <1>0, <1>1, PlainMessage DEF AggregateKeyEven
  <2>2. NetInv'
    BY <1>1, <2>1, CoordinatorReceives
  <2>3. CoordInv'
    BY <1>1 DEF Inv, CoordInv, PublicSharesDone, AggregateKeyEven, Phase, IsShare, IsMap
  <2> QED
    BY <2>2, <2>3
<1>2. CASE Receive(COORDINATOR, p, {"odd", "dkg"}) /\ AggregateKeyOdd
  <2>1. \E m : IsMessage(m) /\ m.type \in FromCoordinator /\ Send(m)
    BY <1>0, <1>2, PlainMessage DEF AggregateKeyOdd, start_public_shares
  <2>2. NetInv'
    BY <1>2, <2>1, CoordinatorReceives
  <2>3. CoordInv'
    BY <1>2, EmptyIsMap
    DEF Inv, CoordInv, PublicSharesDone, AggregateKeyOdd, start_public_shares,
        Phase, IsShare, IsMap
  <2> QED
    BY <2>2, <2>3
<1> QED
  BY <1>1, <1>2 DEF PublicSharesDone

\* The end of the round is waited for.
LEMMA WaitForDkgEndInv ==
    ASSUME Inv, NEW p \in 1..Len(log), WaitForDkgEnd(p)
    PROVE  NetInv' /\ CoordInv'
<1>1. NetInv'
  BY CoordinatorReceives DEF WaitForDkgEnd
<1>2. awaiting' \subseteq Signer /\ phase' \in Phase /\ outcome' \in Outcome
  BY DEF Inv, CoordInv, WaitForDkgEnd, Return, Phase, Outcome
<1>3. phase' # "nonces"
  BY DEF WaitForDkgEnd, Return
<1>4. CoordInv'
  BY <1>2, <1>3 DEF Inv, CoordInv, WaitForDkgEnd, IsShare, IsMap
<1> QED
  BY <1>1, <1>4

\* A nonce is added to the ones that are there.
LEMMA NoncesWithTypes ==
    ASSUME Inv, NEW p \in 1..Len(log)
    PROVE  IsMap(NoncesWith(log[p].msg), Signer, Nat)
<1>0. IsMessage(log[p].msg)
  BY SeqFacts DEF Inv, NetInv, LogInv
<1>1. CASE log[p].msg.type = "NonceResponse"
  BY <1>0, <1>1, InsertIsMap DEF NoncesWith, IsMessage, Inv, CoordInv
<1>2. CASE log[p].msg.type # "NonceResponse"
  BY <1>2 DEF NoncesWith, Inv, CoordInv
<1> QED
  BY <1>1, <1>2

\* A nonce is waited for.
LEMMA CollectNoncesInv ==
    ASSUME Inv, NEW p \in 1..Len(log), CollectNonces(p)
    PROVE  NetInv' /\ CoordInv'
<1>1. NetInv'
  BY CoordinatorReceives DEF CollectNonces
<1>2. CoordInv'
  BY NoncesWithTypes DEF Inv, CoordInv, CollectNonces, IsShare, IsMap
<1> QED
  BY <1>1, <1>2

\* The last nonce makes the request for shares.
LEMMA NoncesDoneInv ==
    ASSUME Inv, NEW p \in 1..Len(log), NoncesDone(p)
    PROVE  NetInv' /\ CoordInv'
<1> DEFINE nonces == NoncesWith(log[p].msg)
<1>0. current_dkg_id \in Nat /\ message \in Payload /\ IsMap(nonces, Signer, Nat)
  BY NoncesWithTypes DEF Inv, CoordInv, NoncesDone
<1>1. CASE Receive(COORDINATOR, p, {"odd"}) /\ AggregateNonceOdd
  <2>1. \E m : IsMessage(m) /\ m.type \in FromCoordinator /\ Send(m)
    BY <1>0, <1>1, PlainMessage DEF AggregateNonceOdd, NonceRequest
  <2>2. NetInv'
    BY <1>1, <2>1, CoordinatorReceives
  <2>3. CoordInv'
    BY <1>1, EmptyIsMap
    DEF Inv, CoordInv, NoncesDone, AggregateNonceOdd, Phase, IsShare, IsMap
  <2> QED
    BY <2>2, <2>3
<1>2. CASE Receive(COORDINATOR, p, {}) /\ AggregateNonceEven(nonces)
  <2> HIDE DEF nonces
  <2> DEFINE m == [type |-> "SignShareRequest", dkg_id |-> current_dkg_id,
                   nonce_responses |-> nonces, message |-> message]
  <2>1. IsMessage(m) /\ m.type \in FromCoordinator
    BY <1>0 DEF IsMessage, FromCoordinator
  <2>2. SendNothing \/ Send(m)
    BY <1>2 DEF AggregateNonceEven
  <2> HIDE DEF m
  <2>3. NetInv'
    BY <1>2, <2>1, <2>2, CoordinatorReceives
  <2>4. DOMAIN nonces \subseteq Signer
    BY <1>0 DEF IsMap
  <2>5. CoordInv'
    BY <1>0, <1>2, <2>4
    DEF Inv, CoordInv, NoncesDone, AggregateNonceEven, Return, Phase, Outcome,
        IsShare, IsMap
  <2> QED
    BY <2>3, <2>5
<1> QED
  BY <1>1, <1>2 DEF NoncesDone

\* A share is waited for, and the last ends the round.
LEMMA CollectSignatureSharesInv ==
    ASSUME Inv, NEW p \in 1..Len(log), CollectSignatureShares(p)
    PROVE  NetInv' /\ CoordInv'
<1>0. IsMessage(log[p].msg)
  BY SeqFacts DEF Inv, NetInv, LogInv
<1>1. NetInv'
  BY CoordinatorReceives DEF CollectSignatureShares
<1>2. /\ DOMAIN signature_shares' \subseteq Signer
      /\ \A s \in DOMAIN signature_shares' : IsShare(signature_shares'[s])
  BY <1>0 DEF IsMessage, Inv, CoordInv, CollectSignatureShares, Insert
<1>3. awaiting' \subseteq Signer /\ phase' \in Phase /\ phase' # "nonces"
  BY DEF Inv, CoordInv, CollectSignatureShares, Return, Phase
<1>4. outcome' \in Outcome
  BY DEF Inv, CoordInv, CollectSignatureShares, Return, SignResult, Outcome
<1>5. CoordInv'
  BY <1>2, <1>3, <1>4 DEF Inv, CoordInv, CollectSignatureShares, IsShare, IsMap
<1> QED
  BY <1>1, <1>5

\* A command that fails, and a coordinator that starts again.
LEMMA CoordinatorFailureInv ==
    ASSUME Inv, CoordinatorTimeout \/ CoordinatorSendFails \/ CoordinatorRestart
    PROVE  NetInv' /\ CoordInv'
<1>0. COORDINATOR \in Node
  BY DEF Node
<1>1. CASE CoordinatorTimeout
  <2>1. NetInv'
    BY <1>1, CoordinatorSends DEF CoordinatorTimeout, SendNothing
  <2>2. CoordInv'
    BY <1>1 DEF CoordinatorTimeout, Return, Inv, CoordInv, Phase, Outcome, IsShare, IsMap
  <2> QED
    BY <2>1, <2>2
<1>2. CASE CoordinatorSendFails
  <2>1. OutboxInv'
    BY <1>0, <1>2, OwnNothing, OutboxStep DEF CoordinatorSendFails, Inv, NetInv
  <2>2. NetInv'
    BY <1>2, <2>1, SpendTypes DEF CoordinatorSendFails, Inv, NetInv, LogInv, PosInv
  <2>3. CoordInv'
    BY <1>2 DEF CoordinatorSendFails, Return, Inv, CoordInv, Phase, Outcome, IsShare, IsMap
  <2> QED
    BY <2>2, <2>3
<1>3. CASE CoordinatorRestart
  <2>1. OutboxInv'
    BY <1>0, <1>3, OwnNothing, OutboxStep DEF CoordinatorRestart, Inv, NetInv
  <2>2. PosInv'
    <3>1. CASE UNCHANGED pos
      BY <1>3, <3>1 DEF CoordinatorRestart, Inv, NetInv, PosInv
    <3>2. CASE Deliver(COORDINATOR, pos[COORDINATOR] + 1)
      <4>1. /\ pos[COORDINATOR] + 1 \in pos[COORDINATOR]..Len(log)
            /\ pos' = [pos EXCEPT ![COORDINATOR] = pos[COORDINATOR] + 1]
        BY <1>0, <3>2, SeqFacts DEF Deliver, Inv, NetInv, PosInv, LogInv
      <4> QED
        BY <1>0, <1>3, <4>1, MoveStep DEF CoordinatorRestart, Inv, NetInv
    <3> QED
      BY <1>3, <3>1, <3>2 DEF CoordinatorRestart
  <2>3. NetInv'
    BY <1>3, <2>1, <2>2, SpendTypes DEF CoordinatorRestart, Inv, NetInv, LogInv
  <2>4. CoordInv'
    BY <1>3, EmptyIsMap
    DEF CoordinatorRestart, NewCoordinator, CoordInv, Phase, Outcome, Empty
  <2> QED
    BY <2>3, <2>4
<1> QED
  BY <1>1, <1>2, <1>3

\* Steps of the coordinator keep the invariant.
LEMMA CoordinatorStep ==
    ASSUME Inv, CoordinatorNext, UNCHANGED signerVars
    PROVE  Inv'
<1>0. COORDINATOR \in Node
  BY DEF Node
<1>1. SignerInv'
  BY DEF Inv, SignerInv, signerVars, IsRound, IsShare, IsMap
<1>2. CASE CoordinatorPost
  <2>1. NetInv'
    BY <1>0, <1>2, PostStep DEF CoordinatorPost, Inv
  <2>2. CoordInv'
    BY <1>2 DEF CoordinatorPost, coordVars, Inv, CoordInv, IsShare, IsMap
  <2> QED
    BY <1>1, <2>1, <2>2 DEF Inv
<1>3. CASE \E p \in 1..Len(log) : CoordinatorReceive(p)
  <2>1. PICK p \in 1..Len(log) : CoordinatorReceive(p)
    BY <1>3
  <2>2. NetInv' /\ CoordInv'
    BY <2>1, WaitForPublicSharesInv, PublicSharesDoneInv, WaitForDkgEndInv,
       CollectNoncesInv, NoncesDoneInv, CollectSignatureSharesInv
    DEF CoordinatorReceive
  <2> QED
    BY <1>1, <2>2 DEF Inv
<1>4. CASE StartDkg
  BY <1>1, <1>4, StartDkgInv DEF Inv
<1>5. CASE \E msg \in Payload : StartSign(msg)
  BY <1>1, <1>5, StartSignInv DEF Inv
<1>6. CASE CoordinatorTimeout \/ CoordinatorSendFails \/ CoordinatorRestart
  BY <1>1, <1>6, CoordinatorFailureInv DEF Inv
<1> QED
  BY <1>2, <1>3, <1>4, <1>5, <1>6 DEF CoordinatorNext

\* Every step keeps it.
LEMMA InvStep == Inv /\ [Next]_vars => Inv'
<1> SUFFICES ASSUME Inv, [Next]_vars PROVE Inv'
  OBVIOUS
<1>1. CASE Next
  BY <1>1, SignerStep, CoordinatorStep DEF Next
<1>2. CASE UNCHANGED vars
  <2>1. UNCHANGED <<log, pos, outbox, spent>> /\ UNCHANGED signerVars /\ UNCHANGED coordVars
    BY <1>2 DEF vars, netVars
  <2>2. NetInv'
    BY <2>1 DEF Inv, NetInv, LogInv, PosInv, OutboxInv, OwnSeq
  <2>3. SignerInv'
    BY <2>1 DEF Inv, SignerInv, signerVars, IsRound, IsShare, IsMap
  <2>4. CoordInv'
    BY <2>1 DEF Inv, CoordInv, coordVars, IsShare, IsMap
  <2> QED
    BY <2>2, <2>3, <2>4 DEF Inv
<1> QED
  BY <1>1, <1>2

\* It always holds.
LEMMA AlwaysInv == Spec => []Inv
BY InitInv, InvStep, PTL DEF Spec

(***************************************************************************)
(* Every message in the relay's log or waiting to be posted is one that    *)
(* MessageTypes can hold, no round is left by SigningRound::process in a   *)
(* state that dkg_begin or process only passes through, and the fields of  *)
(* the coordinator hold what its loops expect: with any number of signers  *)
(* and keys, whatever is repeated, lost, timed out or restarted.           *)
(***************************************************************************)
THEOREM TypeCorrect == Spec => []TypeOK
BY AlwaysInv, InvTypes, PTL

\* No key id is listed by two signers.
KeysDisjoint ==
    \A s, t \in Signer : \A i \in DOMAIN KeyIds[s], j \in DOMAIN KeyIds[t] :
        KeyIds[s][i] = KeyIds[t][j] => s = t

\* public_keys gives a key id to the signer that lists it.
LEMMA KeyHolder ==
    ASSUME KeysDisjoint, NEW s \in Signer, NEW k \in Key, KeyOf(s, k)
    PROVE  k \in DOMAIN public_keys.key_ids /\ public_keys.key_ids[k] = s
<1> DEFINE P(t) == \E i \in DOMAIN KeyIds[t] : KeyIds[t][i] = k
           h == CHOOSE t \in Signer : P(t)
<1>1. P(s)
  BY DEF KeyOf
<1>2. h \in Signer /\ P(h)
  BY <1>1
<1>3. h = s
  BY <1>1, <1>2 DEF KeysDisjoint
<1> QED
  BY <1>3 DEF public_keys

\* A message in the relay's log is signed by the one that verify_msg expects.
LEMMA Verifies ==
    ASSUME KeysDisjoint, Inv, NEW p \in DOMAIN log
    PROVE  verify_msg(log[p])
<1> DEFINE n == log[p].sig
           m == log[p].msg
<1>0. IsMessage(m) /\ Own(n, m)
  BY DEF Inv, NetInv, LogInv
<1>1. CASE m.type \in FromCoordinator
  BY <1>0, <1>1 DEF Own, verify_msg, FromCoordinator, FromSigner
<1>2. CASE m.type \in FromSigner
  BY <1>0, <1>2 DEF Own, verify_msg, FromCoordinator, FromSigner, public_keys
<1>3. CASE m.type = "DkgPublicShare"
  <2>1. n \in Signer /\ m.party_id \in Key /\ KeyOf(n, m.party_id)
    BY <1>0, <1>3 DEF Own, IsMessage, FromCoordinator, FromSigner
  <2>2. m.party_id \in DOMAIN public_keys.key_ids /\ public_keys.key_ids[m.party_id] = n
    BY <2>1, KeyHolder
  <2> QED
    BY <1>3, <2>2 DEF verify_msg, FromCoordinator, FromSigner
<1>4. CASE m.type = "DkgPrivateShares"
  <2>1. PICK k \in Key : m.key_id = ZeroBased(k) /\ KeyOf(n, k) /\ n \in Signer
    BY <1>0, <1>4 DEF Own, FromCoordinator, FromSigner
  <2>2. k \in DOMAIN public_keys.key_ids /\ public_keys.key_ids[k] = n
    BY <2>1, KeyHolder
  <2>3. OneBased(m.key_id) = k
    BY <2>1 DEF OneBased, ZeroBased
  <2> QED
    BY <1>4, <2>2, <2>3 DEF verify_msg, FromCoordinator, FromSigner
<1> QED
  BY <1>0, <1>1, <1>2, <1>3, <1>4 DEF IsMessage, FromCoordinator, FromSigner

(***************************************************************************)
(* When no key id is configured for two signers, verify_msg refuses        *)
(* nothing that an honest process posts, by whichever of its ids a message *)
(* is looked up, and whatever is repeated, lost, timed out or restarted.   *)
(* (public_keys gives a key id that two signers list to one of them, so    *)
(* the hypothesis is needed.)                                              *)
(***************************************************************************)
THEOREM HonestPostsVerify == KeysDisjoint => (Spec => []PostsVerify)
<1> SUFFICES ASSUME KeysDisjoint PROVE Spec => []PostsVerify
  OBVIOUS
<1>1. Inv => PostsVerify
  BY Verifies DEF PostsVerify
<1> QED
  BY <1>1, AlwaysInv, PTL
=============================================================================
