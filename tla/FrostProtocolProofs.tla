------------------------ MODULE FrostProtocolProofs ------------------------
(***************************************************************************)
(* FROST with any number of signers, keys, payloads and commands, as long  *)
(* as nothing is repeated, lost, timed out, given up or restarted: signers *)
(* stay up, a key generation ends with everybody holding the key, and a    *)
(* signature is made of what belongs together.                             *)
(*                                                                         *)
(* No id in a message ties it to a round, so all of it rests on everybody  *)
(* being in the same phase: a signer whose request is on its way has       *)
(* nothing else to do, and nothing of the phase is left when the last      *)
(* answer is read (Lockstep).  KeyInv follows the draws of the signers     *)
(* through log, outboxes and rounds, SignInv the nonces and shares.        *)
(***************************************************************************)
EXTENDS FrostProofs, FiniteSetTheorems

-----------------------------------------------------------------------------
(* The phases of a command *)

\* Nothing has been repeated, lost, timed out, given up or restarted.
NoFault == \A k \in Fault : spent[k] = 0

\* The request that opens phase ph; every signer is asked for its share.
Opens(ph, m) ==
    \/ ph = "public_shares" /\ m.type = "DkgBegin"
    \/ ph = "dkg_end" /\ m.type = "DkgPrivateBegin"
    \/ ph = "nonces" /\ m.type = "NonceRequest"
    \/ /\ ph = "signature_shares" /\ m.type = "SignShareRequest"
       /\ DOMAIN m.nonce_responses = Signer

\* The type of the answer that phase ph waits for.
Answers(ph, type) ==
    \/ ph = "public_shares" /\ type = "DkgPublicEnd"
    \/ ph = "dkg_end" /\ type = "DkgEnd"
    \/ ph = "nonces" /\ type = "NonceResponse"
    \/ ph = "signature_shares" /\ type = "SignShareResponse"

\* The state of a round before the request of phase ph, while the shares are
\* gathered, and once it has answered.
Due(ph, state) ==
    \/ ph = "public_shares" /\ state \in {"Idle", "DkgPrivateDistribute"}
    \/ ph = "dkg_end" /\ state = "DkgPrivateDistribute"
    \/ ph \in {"nonces", "signature_shares"} /\ state = "Idle"
Gathers(ph, state) ==
    \/ ph = "public_shares" /\ state = "DkgPublicGather"
    \/ ph = "dkg_end" /\ state = "DkgPrivateGather"
Settled(ph, state) ==
    state = IF ph = "public_shares" THEN "DkgPrivateDistribute" ELSE "Idle"

\* Requests that s has yet to read, answers of s that the coordinator has.
Asks(s) == {p \in DOMAIN log : p > pos[s] /\ log[p].msg.type \in FromCoordinator}
Replies(s) ==
    {p \in DOMAIN log : /\ p > pos[COORDINATOR]
                        /\ log[p].msg.type \in FromSigner
                        /\ log[p].msg.signer_id = s}

\* No message of q is an answer; the last one, and no other, is.
NoAnswer(q) == \A i \in DOMAIN q : q[i].type \notin FromSigner
EndsWithAnswer(q) ==
    /\ q # << >>
    /\ \A i \in DOMAIN q : q[i].type \in FromSigner <=> i = Len(q)

\* The signers the command under way waits for.
Waited == IF phase = "nonces" THEN Signer \ DOMAIN public_nonces ELSE awaiting

\* No request is on its way to s.
Quiet(s) == Asks(s) = {} /\ outbox[COORDINATOR] = << >>

\* How far s is in the phase: the request is on its way, it gathers shares,
\* its answer is on its way, the coordinator has its answer.
Asked(s) ==
    /\ s \in Waited
    /\ Due(phase, round[s].state)
    /\ outbox[s] = << >>
    /\ Replies(s) = {}
    /\ IF outbox[COORDINATOR] # << >> THEN Asks(s) = {} ELSE \E p \in DOMAIN log : Asks(s) = {p}
Working(s) ==
    /\ s \in Waited
    /\ Gathers(phase, round[s].state)
    /\ NoAnswer(outbox[s])
    /\ Replies(s) = {}
    /\ Quiet(s)
Answered(s) ==
    /\ s \in Waited
    /\ Settled(phase, round[s].state)
    /\ \/ outbox[s] = << >> /\ \E p \in DOMAIN log : Replies(s) = {p}
       \/ EndsWithAnswer(outbox[s]) /\ Replies(s) = {}
    /\ Quiet(s)
Finished(s) ==
    /\ s \notin Waited
    /\ Settled(phase, round[s].state)
    /\ outbox[s] = << >>
    /\ Replies(s) = {}
    /\ Quiet(s)

\* Everybody is in the same phase.
Stage(s) == Asked(s) \/ Working(s) \/ Answered(s) \/ Finished(s)
Stages == \A s \in Signer : Stage(s)
RequestsFit ==
    /\ outbox[COORDINATOR] # << >> =>
          /\ outbox[COORDINATOR] = <<Head(outbox[COORDINATOR])>>
          /\ Opens(phase, Head(outbox[COORDINATOR]))
    /\ \A s \in Signer : \A p \in Asks(s) : Opens(phase, log[p].msg)
AnswersFit ==
    /\ \A s \in Signer : \A p \in Replies(s) : Answers(phase, log[p].msg.type)
    /\ \A s \in Signer : \A i \in DOMAIN outbox[s] :
          outbox[s][i].type \in FromSigner => Answers(phase, outbox[s][i].type)
ReadyIsQuiet == phase = "ready" => outbox[COORDINATOR] = << >> /\ awaiting = {}
Lockstep == SignerStaysUp /\ Stages /\ RequestsFit /\ AnswersFit /\ ReadyIsQuiet


-----------------------------------------------------------------------------
(* Steps without faults *)

\* A bound that is spent without a fault is not one of a fault.
LEMMA SpendNoFault ==
    ASSUME spent \in [Kind -> Nat], NEW K, Spend(K), NoFault'
    PROVE  NoFault /\ K \cap Fault = {}
<1>1. \A k \in Fault : k \in Kind /\ spent[k] \in Nat
  BY DEF Kind
<1>2. \A k \in Fault : spent'[k] = IF k \in K THEN spent[k] + 1 ELSE spent[k]
  BY <1>1 DEF Spend
<1> QED
  BY <1>1, <1>2 DEF NoFault

\* Without a fault every message is read in turn.
LEMMA ReceiveInTurn ==
    ASSUME Inv, NEW n \in Node, NEW p, NEW K, Receive(n, p, K), NoFault'
    PROVE  /\ NoFault
           /\ p = pos[n] + 1 /\ p \in DOMAIN log
           /\ outbox[n] = << >> /\ log' = log /\ pos' = [pos EXCEPT ![n] = p]
<1>1. spent \in [Kind -> Nat] /\ pos[n] \in Nat /\ DOMAIN log = 1..Len(log) /\ Len(log) \in Nat
  BY SeqFacts DEF Inv, NetInv, PosInv, LogInv
<1>2. /\ p \in (pos[n] + 1)..Len(log)
      /\ outbox[n] = << >> /\ log' = log /\ pos' = [pos EXCEPT ![n] = p]
      /\ Spend(IF p = pos[n] + 1 THEN K ELSE K \cup {"lost"})
  BY DEF Receive, Deliver
<1>3. NoFault /\ (IF p = pos[n] + 1 THEN K ELSE K \cup {"lost"}) \cap Fault = {}
  BY <1>1, <1>2, SpendNoFault
<1>4. p = pos[n] + 1
  BY <1>3 DEF Fault
<1> QED
  BY <1>1, <1>2, <1>3, <1>4

\* Without a fault every post is answered.
LEMMA PostOnce ==
    ASSUME Inv, NEW n \in Node, PostAnswered(n) \/ PostResponseLost(n), NoFault'
    PROVE  NoFault /\ PostAnswered(n)
<1>1. CASE PostResponseLost(n)
  <2>1. {"dup"} \cap Fault = {}
    BY <1>1, SpendNoFault DEF PostResponseLost, Inv, NetInv
  <2> QED
    BY <2>1 DEF Fault
<1>2. CASE PostAnswered(n)
  BY <1>2 DEF PostAnswered, NoFault
<1> QED
  BY <1>1, <1>2

\* n posts its next message m.
LEMMA PostMoves ==
    ASSUME Inv, NEW n \in Node, PostAnswered(n), NEW m, m = Head(outbox[n])
    PROVE  /\ IsMessage(m) /\ Own(n, m)
           /\ Len(log) + 1 \notin DOMAIN log /\ DOMAIN log' = DOMAIN log \cup {Len(log) + 1}
           /\ \A p \in DOMAIN log : log'[p] = log[p] /\ p < Len(log) + 1
           /\ log'[Len(log) + 1].msg = m
           /\ \A t \in Node : Len(log) + 1 > pos[t]
           /\ pos' = pos /\ outbox' = [outbox EXCEPT ![n] = Tail(outbox[n])]
           /\ IsSeq(outbox[n]) /\ outbox[n] # << >>
<1> DEFINE e == Signed(n)
<1>1. /\ log' = Append(log, e) /\ pos' = pos /\ outbox[n] # << >>
      /\ outbox' = [outbox EXCEPT ![n] = Tail(outbox[n])]
  BY DEF PostAnswered, Publish
<1>2. OwnSeq(n, outbox[n]) /\ IsSeq(outbox[n]) /\ IsSeq(log)
  BY DEF Inv, NetInv, OutboxInv, OwnSeq, LogInv
<1>3. m = outbox[n][1] /\ 1 \in DOMAIN outbox[n]
  BY <1>1, <1>2, TailIsSeq
<1>4. IsMessage(m) /\ Own(n, m)
  BY <1>2, <1>3 DEF OwnSeq
<1>5. e.msg = m
  BY DEF Signed
<1> HIDE DEF e
<1>6. /\ DOMAIN log = 1..Len(log) /\ Len(log) \in Nat
      /\ DOMAIN Append(log, e) = 1..(Len(log) + 1)
      /\ \A i \in 1..Len(log) : Append(log, e)[i] = log[i]
      /\ Append(log, e)[Len(log) + 1] = e
  BY <1>2, AppendIsSeq, SeqFacts
<1>7. \A t \in Node : pos[t] \in Nat /\ pos[t] <= Len(log)
  BY DEF Inv, NetInv, PosInv
<1> QED
  BY <1>1, <1>2, <1>4, <1>5, <1>6, <1>7

\* What a post of m by n adds to what others have yet to read.
LEMMA PostUnread ==
    ASSUME Inv, NEW n \in Node, PostAnswered(n), NEW m, m = Head(outbox[n]),
           NEW s \in Signer
    PROVE  /\ Asks(s)' = IF n = COORDINATOR THEN Asks(s) \cup {Len(log) + 1} ELSE Asks(s)
           /\ Replies(s)' = IF n = s /\ m.type \in FromSigner
                            THEN Replies(s) \cup {Len(log) + 1} ELSE Replies(s)
<1>1. /\ Own(n, m) /\ DOMAIN log' = DOMAIN log \cup {Len(log) + 1}
      /\ Len(log) + 1 \notin DOMAIN log
      /\ \A p \in DOMAIN log : log'[p] = log[p]
      /\ log'[Len(log) + 1].msg = m
      /\ Len(log) + 1 > pos[s] /\ Len(log) + 1 > pos[COORDINATOR]
      /\ pos' = pos
  BY PostMoves DEF Node
<1>2. m.type \in FromCoordinator <=> n = COORDINATOR
  BY <1>1, FrostAssumption DEF Own, FromCoordinator, FromSigner
<1>3. (m.type \in FromSigner /\ m.signer_id = s) <=> (m.type \in FromSigner /\ n = s)
  BY <1>1, FrostAssumption DEF Own, FromCoordinator, FromSigner
<1> DEFINE L == Len(log) + 1
<1> HIDE DEF L
<1>4. Asks(s)' = {p \in DOMAIN log \cup {L} : p > pos[s] /\ log'[p].msg.type \in FromCoordinator}
  BY <1>1 DEF Asks, L
<1>5. Replies(s)' = {p \in DOMAIN log \cup {L} : /\ p > pos[COORDINATOR]
                                                 /\ log'[p].msg.type \in FromSigner
                                                 /\ log'[p].msg.signer_id = s}
  BY <1>1 DEF Replies, L
<1>6. Asks(s)' = IF n = COORDINATOR THEN Asks(s) \cup {L} ELSE Asks(s)
  BY <1>1, <1>2, <1>4 DEF Asks, L
<1>7. Replies(s)' = IF n = s /\ m.type \in FromSigner THEN Replies(s) \cup {L} ELSE Replies(s)
  BY <1>1, <1>3, <1>5 DEF Replies, L
<1> QED
  BY <1>6, <1>7 DEF L

\* n reads the next message.
LEMMA ReadUnread ==
    ASSUME Inv, NEW n \in Node, NEW p, p = pos[n] + 1, p \in DOMAIN log, log' = log,
           pos' = [pos EXCEPT ![n] = p], NEW s \in Signer
    PROVE  /\ Asks(s)' = IF n = s THEN Asks(s) \ {p} ELSE Asks(s)
           /\ Replies(s)' = IF n = COORDINATOR THEN Replies(s) \ {p} ELSE Replies(s)
<1>1. DOMAIN log = 1..Len(log) /\ Len(log) \in Nat /\ pos[n] \in Nat /\ pos \in [Node -> Nat]
  BY SeqFacts DEF Inv, NetInv, PosInv, LogInv
<1>2. \A q \in DOMAIN log : q > p <=> q > pos[n] /\ q # p
  BY <1>1
<1>3. pos'[s] = IF n = s THEN p ELSE pos[s]
  BY <1>1 DEF Node
<1>4. pos'[COORDINATOR] = IF n = COORDINATOR THEN p ELSE pos[COORDINATOR]
  BY <1>1 DEF Node
<1>5. Asks(s)' = {q \in DOMAIN log : q > pos'[s] /\ log[q].msg.type \in FromCoordinator}
  BY DEF Asks
<1>6. Replies(s)' = {q \in DOMAIN log : /\ q > pos'[COORDINATOR]
                                        /\ log[q].msg.type \in FromSigner
                                        /\ log[q].msg.signer_id = s}
  BY DEF Replies
<1>7. Asks(s)' = IF n = s THEN Asks(s) \ {p} ELSE Asks(s)
  BY <1>2, <1>3, <1>5 DEF Asks
<1>8. Replies(s)' = IF n = COORDINATOR THEN Replies(s) \ {p} ELSE Replies(s)
  BY <1>2, <1>4, <1>6 DEF Replies
<1> QED
  BY <1>7, <1>8

\* Answers are posted last.
LEMMA TailNoAnswer ==
    ASSUME NEW q, IsSeq(q), q # << >>, NoAnswer(q)
    PROVE  Head(q).type \notin FromSigner /\ NoAnswer(Tail(q))
<1>1. /\ IsSeq(Tail(q)) /\ Head(q) = q[1] /\ 1 \in DOMAIN q
      /\ \A i \in 1..Len(Tail(q)) : i + 1 \in 1..Len(q) /\ Tail(q)[i] = q[i + 1]
  BY TailIsSeq
<1>2. DOMAIN Tail(q) = 1..Len(Tail(q)) /\ DOMAIN q = 1..Len(q)
  BY <1>1, SeqFacts, Zenon
<1> QED
  BY <1>1, <1>2, Zenon DEF NoAnswer

\* Of messages that end with an answer the first is the answer, or the rest end
\* with it.
LEMMA TailAnswer ==
    ASSUME NEW q, IsSeq(q), EndsWithAnswer(q)
    PROVE  \/ Head(q).type \in FromSigner /\ Tail(q) = << >>
           \/ Head(q).type \notin FromSigner /\ EndsWithAnswer(Tail(q))
<1>0. q # << >>
  BY DEF EndsWithAnswer
<1>1. /\ IsSeq(Tail(q)) /\ Head(q) = q[1] /\ 1 \in DOMAIN q /\ Len(Tail(q)) = Len(q) - 1
      /\ \A i \in 1..Len(Tail(q)) : i + 1 \in 1..Len(q) /\ Tail(q)[i] = q[i + 1]
  BY <1>0, TailIsSeq
<1>2. /\ DOMAIN Tail(q) = 1..Len(Tail(q)) /\ DOMAIN q = 1..Len(q)
      /\ Len(q) \in Nat /\ Len(Tail(q)) \in Nat
      /\ Tail(q) = << >> <=> Len(Tail(q)) = 0
  BY <1>1, SeqFacts, Zenon
<1>3. CASE Len(q) = 1
  BY <1>1, <1>2, <1>3 DEF EndsWithAnswer
<1>4. CASE Len(q) # 1
  <2>1. Head(q).type \notin FromSigner /\ Tail(q) # << >>
    BY <1>1, <1>2, <1>4 DEF EndsWithAnswer
  <2>2. ASSUME NEW i \in DOMAIN Tail(q)
        PROVE  Tail(q)[i].type \in FromSigner <=> i = Len(Tail(q))
    <3>1. i \in 1..Len(Tail(q)) /\ i + 1 \in DOMAIN q /\ Tail(q)[i] = q[i + 1]
      BY <1>1, <1>2
    <3>2. i + 1 = Len(q) <=> i = Len(Tail(q))
      BY <1>1, <1>2, <3>1
    <3> QED
      BY <3>1, <3>2 DEF EndsWithAnswer
  <2> QED
    BY <2>1, <2>2 DEF EndsWithAnswer
<1> QED
  BY <1>3, <1>4

-----------------------------------------------------------------------------
(* What a message does to the stage of a signer *)

\* res leaves the signer gathering, or settled with its answer to post.
Proceeds(ph, res) ==
    /\ res.ok
    /\ \/ Gathers(ph, res.round.state) /\ NoAnswer(res.out)
       \/ /\ Settled(ph, res.round.state)
          /\ EndsWithAnswer(res.out)
          /\ \A i \in DOMAIN res.out :
                res.out[i].type \in FromSigner => Answers(ph, res.out[i].type)

\* A message at the end of a sequence of others.
LEMMA AppendAnswer ==
    ASSUME NEW q, IsSeq(q), NoAnswer(q), NEW m, m.type \in FromSigner,
           NEW ph, Answers(ph, m.type)
    PROVE  /\ EndsWithAnswer(Append(q, m))
           /\ \A i \in DOMAIN Append(q, m) :
                 Append(q, m)[i].type \in FromSigner => Answers(ph, Append(q, m)[i].type)
<1> DEFINE a == Append(q, m)
<1>1. /\ IsSeq(a) /\ Len(a) = Len(q) + 1 /\ DOMAIN a = 1..(Len(q) + 1)
      /\ \A i \in 1..Len(q) : a[i] = q[i]
      /\ a[Len(q) + 1] = m
  BY AppendIsSeq
<1> HIDE DEF a
<1>2. DOMAIN q = 1..Len(q) /\ Len(q) \in Nat /\ (a = << >> <=> Len(a) = 0)
  BY <1>1, SeqFacts, Zenon
<1>3. \A i \in 1..(Len(q) + 1) : i = Len(q) + 1 \/ (i \in 1..Len(q) /\ i # Len(q) + 1)
  BY <1>2
<1>4. a # << >>
  BY <1>1, <1>2
<1>5. \A i \in DOMAIN a : a[i].type \in FromSigner <=> i = Len(a)
  BY <1>1, <1>2, <1>3 DEF NoAnswer
<1>6. \A i \in DOMAIN a : a[i].type \in FromSigner => a[i] = m
  BY <1>1, <1>5
<1> QED
  BY <1>4, <1>5, <1>6 DEF EndsWithAnswer, a

\* One answer alone.
LEMMA OneAnswer ==
    ASSUME NEW m, m.type \in FromSigner, NEW ph, Answers(ph, m.type)
    PROVE  /\ EndsWithAnswer(<<m>>)
           /\ \A i \in DOMAIN <<m>> :
                 <<m>>[i].type \in FromSigner => Answers(ph, <<m>>[i].type)
<1>1. DOMAIN <<m>> = {1} /\ <<m>>[1] = m /\ Len(<<m>>) = 1 /\ <<m>> # << >>
  OBVIOUS
<1> QED
  BY <1>1 DEF EndsWithAnswer

\* The end of a phase is looked for in the states of that phase only.
LEMMA PhaseEndElsewhere ==
    ASSUME NEW s, NEW r, NEW q, r.state \notin {"DkgPublicGather", "DkgPrivateGather"}
    PROVE  PhaseEnd(s, Ok(r, q)) = Ok(r, q)
BY DEF PhaseEnd, Ok, public_shares_done, can_dkg_end

\* The three ways to leave process.
LEMMA PhaseEndCases ==
    ASSUME NEW s, NEW r, NEW q
    PROVE  \/ PhaseEnd(s, Ok(r, q)) = Ok(r, q)
           \/ /\ r.state = "DkgPublicGather" /\ DOMAIN r.commitments = Key
              /\ PhaseEnd(s, Ok(r, q)) =
                    Ok([r EXCEPT !.state = "DkgPrivateDistribute"],
                       Append(q, dkg_public_ended(s, r)))
           \/ /\ r.state = "DkgPrivateGather"
              /\ DOMAIN r.commitments = Key
              /\ Cardinality(DOMAIN r.shares) = Cardinality(Key)
              /\ PhaseEnd(s, Ok(r, q)) =
                    Ok([r EXCEPT !.state = "Idle", !.secret = compute_secrets(r)],
                       Append(q, dkg_ended(s, r)))
BY DEF PhaseEnd, Ok, public_shares_done, can_dkg_end

\* A signer that gathers goes on, or ends the phase with its answer.
LEMMA PhaseEndProceeds ==
    ASSUME NEW ph, NEW s, NEW r, IsRound(r), NEW q, IsSeq(q), NoAnswer(q),
           Gathers(ph, r.state)
    PROVE  Proceeds(ph, PhaseEnd(s, Ok(r, q)))
<1>0. PICK res : res = PhaseEnd(s, Ok(r, q))
  OBVIOUS
<1> SUFFICES Proceeds(ph, res)
  BY <1>0
<1>1. CASE res = Ok(r, q)
  <2>1. res.ok /\ res.round = r /\ res.out = q
    BY <1>1 DEF Ok
  <2> QED
    BY <2>1 DEF Proceeds
<1>2. CASE /\ r.state = "DkgPublicGather"
           /\ res = Ok([r EXCEPT !.state = "DkgPrivateDistribute"],
                       Append(q, dkg_public_ended(s, r)))
  <2> DEFINE m == dkg_public_ended(s, r)
  <2>1. ph = "public_shares"
    BY <1>2 DEF Gathers
  <2>2. m.type \in FromSigner /\ Answers(ph, m.type)
    BY <2>1 DEF dkg_public_ended, End, FromSigner, Answers
  <2>3. res.ok /\ res.round.state = "DkgPrivateDistribute" /\ res.out = Append(q, m)
    BY <1>2 DEF Ok, IsRound
  <2> HIDE DEF m
  <2>4. Settled(ph, res.round.state)
    BY <2>1, <2>3 DEF Settled
  <2> QED
    BY <2>2, <2>3, <2>4, AppendAnswer DEF Proceeds
<1>3. CASE /\ r.state = "DkgPrivateGather"
           /\ res = Ok([r EXCEPT !.state = "Idle", !.secret = compute_secrets(r)],
                       Append(q, dkg_ended(s, r)))
  <2> DEFINE m == dkg_ended(s, r)
  <2>1. ph = "dkg_end"
    BY <1>3 DEF Gathers
  <2>2. m.type \in FromSigner /\ Answers(ph, m.type)
    BY <2>1 DEF dkg_ended, End, FromSigner, Answers
  <2>3. res.ok /\ res.round.state = "Idle" /\ res.out = Append(q, m)
    BY <1>3 DEF Ok, IsRound
  <2> HIDE DEF m
  <2>4. Settled(ph, res.round.state)
    BY <2>1, <2>3 DEF Settled
  <2> QED
    BY <2>2, <2>3, <2>4, AppendAnswer DEF Proceeds
<1> QED
  BY <1>0, <1>1, <1>2, <1>3, PhaseEndCases, Zenon

\* No can_move_to rejects the request of the phase.
LEMMA RequestProceeds ==
    ASSUME NEW s \in Signer, NEW r, IsRound(r), NEW m, IsMessage(m),
           NEW ph, Opens(ph, m), Due(ph, r.state)
    PROVE  Proceeds(ph, process(s, r, m))
<1>1. CASE ph = "public_shares"
  <2>0. m.type = "DkgBegin" /\ r.state \in {"Idle", "DkgPrivateDistribute"}
    BY <1>1 DEF Opens, Due
  <2> DEFINE h == dkg_begin(s, r, m)
  <2>1. /\ h = Ok(h.round, h.out)
        /\ h.round.state = "DkgPublicGather" /\ NoAnswer(h.out)
    BY <2>0 DEF dkg_begin, CanMoveTo, Ok, reset, IsRound, NoAnswer, FromSigner
  <2>2. IsRound(h.round) /\ IsSeq(h.out)
    BY DkgBeginResult DEF Result, OwnSeq
  <2>3. process(s, r, m) = PhaseEnd(s, h)
    BY <2>0 DEF process, Handle
  <2> HIDE DEF h
  <2>4. Gathers(ph, h.round.state)
    BY <1>1, <2>1 DEF Gathers
  <2> QED
    BY <2>1, <2>2, <2>3, <2>4, PhaseEndProceeds
<1>2. CASE ph = "dkg_end"
  <2>0. m.type = "DkgPrivateBegin" /\ r.state = "DkgPrivateDistribute"
    BY <1>2 DEF Opens, Due
  <2> DEFINE h == dkg_private_begin(s, r)
  <2>1. /\ h = Ok(h.round, h.out)
        /\ h.round.state = "DkgPrivateGather" /\ NoAnswer(h.out)
    BY <2>0 DEF dkg_private_begin, CanMoveTo, Ok, IsRound, NoAnswer, FromSigner
  <2>2. IsRound(h.round) /\ IsSeq(h.out)
    BY DkgPrivateBeginResult DEF Result, OwnSeq
  <2>3. process(s, r, m) = PhaseEnd(s, h)
    BY <2>0 DEF process, Handle
  <2> HIDE DEF h
  <2>4. Gathers(ph, h.round.state)
    BY <1>2, <2>1 DEF Gathers
  <2> QED
    BY <2>1, <2>2, <2>3, <2>4, PhaseEndProceeds
<1>3. CASE ph = "nonces"
  <2>0. m.type = "NonceRequest" /\ r.state = "Idle"
    BY <1>3 DEF Opens, Due
  <2> DEFINE a == [type |-> "NonceResponse", dkg_id |-> m.dkg_id, signer_id |-> s,
                   nonces |-> r.nonce + 1]
             r1 == [r EXCEPT !.nonce = @ + 1]
  <2>1. process(s, r, m) = PhaseEnd(s, Ok(r1, <<a>>))
    BY <2>0 DEF process, Handle, nonce_request
  <2>2. r1.state = "Idle" /\ a.type \in FromSigner /\ Answers(ph, a.type)
    BY <1>3, <2>0 DEF IsRound, FromSigner, Answers
  <2> HIDE DEF a, r1
  <2>3. process(s, r, m) = Ok(r1, <<a>>)
    BY <2>1, <2>2, PhaseEndElsewhere
  <2>4. Settled(ph, r1.state)
    BY <1>3, <2>2 DEF Settled
  <2> QED
    BY <2>2, <2>3, <2>4, OneAnswer DEF Proceeds, Ok
<1>4. CASE ph = "signature_shares"
  <2>0. /\ m.type = "SignShareRequest" /\ r.state = "Idle"
        /\ s \in DOMAIN m.nonce_responses
    BY <1>4 DEF Opens, Due
  <2> DEFINE a == [type |-> "SignShareResponse", dkg_id |-> m.dkg_id,
                   signer_id |-> s, signature_shares |-> Share(r, m)]
  <2>1. process(s, r, m) = PhaseEnd(s, Ok(r, <<a>>))
    BY <2>0 DEF process, Handle, sign_share_request
  <2>2. a.type \in FromSigner /\ Answers(ph, a.type)
    BY <1>4, <2>0 DEF FromSigner, Answers
  <2> HIDE DEF a
  <2>3. process(s, r, m) = Ok(r, <<a>>)
    BY <2>0, <2>1, PhaseEndElsewhere
  <2>4. Settled(ph, r.state)
    BY <1>4, <2>0 DEF Settled
  <2> QED
    BY <2>2, <2>3, <2>4, OneAnswer DEF Proceeds, Ok
<1> QED
  BY <1>1, <1>2, <1>3, <1>4 DEF Opens

\* r1 is round r with the share that m may be stored.
Stored(r, m, r1) ==
    /\ IsRound(r1) /\ r1.state = r.state
    /\ r1.poly = r.poly /\ r1.nonce = r.nonce /\ r1.secret = r.secret
    /\ \/ r1 = r
       \/ /\ m.type = "DkgPublicShare" /\ r1.shares = r.shares
          /\ r1.commitments = Insert(r.commitments, m.party_id, m.public_share)
       \/ /\ m.type = "DkgPrivateShares" /\ r1.commitments = r.commitments
          /\ r1.shares = Insert(r.shares, m.key_id, m.private_shares)

\* A share or an answer of another signer is stored, if at all, and may end a
\* phase.
LEMMA OtherMessage ==
    ASSUME NEW s, NEW r, IsRound(r), NEW m, IsMessage(m), m.type \notin FromCoordinator
    PROVE  \E r1 : Stored(r, m, r1) /\ process(s, r, m) = PhaseEnd(s, Ok(r1, << >>))
<1>1. CASE m.type = "DkgPublicShare"
  <2> DEFINE r1 == [r EXCEPT !.commitments = Insert(@, m.party_id, m.public_share)]
  <2>1. process(s, r, m) = PhaseEnd(s, Ok(r1, << >>))
    BY <1>1 DEF process, Handle, dkg_public_share
  <2>2. IsMap(Insert(r.commitments, m.party_id, m.public_share), Key, Nat)
    BY <1>1, InsertIsMap DEF IsRound, IsMessage
  <2>3. /\ r1.state = r.state /\ r1.shares = r.shares /\ IsRound(r1)
        /\ r1.commitments = Insert(r.commitments, m.party_id, m.public_share)
        /\ r1.poly = r.poly /\ r1.nonce = r.nonce /\ r1.secret = r.secret
    BY <2>2 DEF IsRound
  <2> HIDE DEF r1
  <2>4. Stored(r, m, r1)
    BY <1>1, <2>3 DEF Stored
  <2> QED
    BY <2>1, <2>4
<1>2. CASE m.type = "DkgPrivateShares"
  <2> DEFINE r1 == [r EXCEPT !.shares = Insert(@, m.key_id, m.private_shares)]
  <2>1. process(s, r, m) = PhaseEnd(s, Ok(r1, << >>))
    BY <1>2 DEF process, Handle, dkg_private_shares
  <2>2. IsMap(Insert(r.shares, m.key_id, m.private_shares), {ZeroBased(k) : k \in Key}, Nat)
    BY <1>2, InsertIsMap DEF IsRound, IsMessage
  <2>3. /\ r1.state = r.state /\ r1.commitments = r.commitments /\ IsRound(r1)
        /\ r1.shares = Insert(r.shares, m.key_id, m.private_shares)
        /\ r1.poly = r.poly /\ r1.nonce = r.nonce /\ r1.secret = r.secret
    BY <2>2 DEF IsRound
  <2> HIDE DEF r1
  <2>4. Stored(r, m, r1)
    BY <1>2, <2>3 DEF Stored
  <2> QED
    BY <2>1, <2>4
<1>3. CASE m.type \notin {"DkgPublicShare", "DkgPrivateShares"}
  <2>1. process(s, r, m) = PhaseEnd(s, Ok(r, << >>))
    BY <1>3 DEF process, Handle, FromCoordinator
  <2>2. Stored(r, m, r)
    BY DEF Stored
  <2> QED
    BY <2>1, <2>2
<1> QED
  BY <1>1, <1>2, <1>3

\* res leaves the signer in this state, with nothing to post.
Rests(state, res) == res.ok /\ res.out = << >> /\ res.round.state = state

\* For the stage of a signer.
LEMMA OtherProceeds ==
    ASSUME NEW s, NEW r, IsRound(r), NEW m, IsMessage(m), m.type \notin FromCoordinator
    PROVE  /\ \A ph : Gathers(ph, r.state) => Proceeds(ph, process(s, r, m))
           /\ r.state \in {"Idle", "DkgPrivateDistribute"} => Rests(r.state, process(s, r, m))
<1>0. PICK r1 : Stored(r, m, r1) /\ process(s, r, m) = PhaseEnd(s, Ok(r1, << >>))
  BY OtherMessage, Zenon
<1>1. /\ IsRound(r1) /\ r1.state = r.state
      /\ process(s, r, m) = PhaseEnd(s, Ok(r1, << >>))
  BY <1>0 DEF Stored
<1>2. IsSeq(<< >>) /\ NoAnswer(<< >>)
  BY EmptyIsSeq DEF NoAnswer
<1>3. \A ph : Gathers(ph, r.state) => Proceeds(ph, process(s, r, m))
  BY <1>1, <1>2, PhaseEndProceeds
<1>4. r.state \in {"Idle", "DkgPrivateDistribute"} => process(s, r, m) = Ok(r1, << >>)
  BY <1>1, PhaseEndElsewhere
<1>5. Rests(r.state, Ok(r1, << >>))
  BY <1>1 DEF Ok, Rests
<1> QED
  BY <1>3, <1>4, <1>5, Zenon

-----------------------------------------------------------------------------
(* Every step keeps everybody in the same phase *)

\* A signer that a step does not touch stays where it is.
LEMMA SameStage ==
    ASSUME NEW t \in Signer, Stage(t), Asks(t)' = Asks(t), Replies(t)' = Replies(t),
           outbox'[t] = outbox[t], outbox'[COORDINATOR] = outbox[COORDINATOR],
           round'[t].state = round[t].state, phase' = phase, t \in Waited' <=> t \in Waited,
           DOMAIN log \subseteq DOMAIN log'
    PROVE  Stage(t)'
<1>1. Quiet(t)' <=> Quiet(t)
  BY DEF Quiet
<1>2. CASE Asked(t)
  BY <1>2 DEF Asked, Stage
<1>3. CASE Working(t)
  <2>1. NoAnswer(outbox[t])'
    BY <1>3 DEF Working, NoAnswer
  <2> QED
    BY <1>1, <1>3, <2>1 DEF Working, Stage
<1>4. CASE Answered(t)
  <2>1. EndsWithAnswer(outbox[t])' <=> EndsWithAnswer(outbox[t])
    BY DEF EndsWithAnswer
  <2> QED
    BY <1>1, <1>4, <2>1 DEF Answered, Stage
<1>5. CASE Finished(t)
  BY <1>1, <1>5 DEF Finished, Stage
<1> QED
  BY <1>2, <1>3, <1>4, <1>5 DEF Stage

\* A signer takes a message.
LEMMA ProcessLockstep ==
    ASSUME Inv, Lockstep, NEW s \in Signer, NEW p, SignerProcess(s, p),
           UNCHANGED coordVars, NoFault'
    PROVE  Lockstep'
<1> DEFINE m == log[p].msg
<1>0. PICK res : res = IF verify_msg(log[p]) THEN process(s, round[s], m)
                       ELSE Ok(round[s], << >>)
  OBVIOUS
<1>1. /\ Receive(s, p, {})
      /\ round' = [round EXCEPT ![s] = res.round]
      /\ outbox' = [outbox EXCEPT ![s] = res.out]
      /\ alive' = [alive EXCEPT ![s] = res.ok]
  BY <1>0 DEF SignerProcess
<1>2. /\ p = pos[s] + 1 /\ p \in DOMAIN log /\ outbox[s] = << >>
      /\ log' = log /\ pos' = [pos EXCEPT ![s] = p] /\ s \in Node
  BY <1>1, ReceiveInTurn DEF Node
<1>3. IsMessage(m) /\ Own(log[p].sig, m) /\ IsRound(round[s])
  BY <1>2 DEF Inv, NetInv, LogInv, SignerInv
<1>4. /\ DOMAIN outbox = Node /\ DOMAIN round = Signer /\ DOMAIN alive = Signer
      /\ COORDINATOR \in Node /\ s # COORDINATOR /\ Signer \subseteq Node
      /\ pos[s] \in Nat
  BY FrostAssumption DEF Inv, NetInv, OutboxInv, PosInv, SignerInv, Node
<1>5. /\ phase' = phase /\ Waited' = Waited /\ awaiting' = awaiting
      /\ outbox'[COORDINATOR] = outbox[COORDINATOR]
      /\ outbox'[s] = res.out /\ round'[s] = res.round /\ alive'[s] = res.ok
      /\ \A t \in Signer \ {s} : /\ outbox'[t] = outbox[t] /\ round'[t] = round[t]
                                 /\ alive'[t] = alive[t]
  BY <1>1, <1>4 DEF coordVars, Waited
<1>6. \A t \in Signer : /\ Asks(t)' = IF s = t THEN Asks(t) \ {p} ELSE Asks(t)
                        /\ Replies(t)' = Replies(t)
  BY <1>2, <1>4, ReadUnread
<1>7. \A t \in Signer \ {s} : Stage(t)'
  BY <1>2, <1>5, <1>6, SameStage DEF Lockstep, Stages
<1>8. RequestsFit'
  <2>1. \A t \in Signer : \A q \in Asks(t)' : q \in Asks(t)
    BY <1>6
  <2>2. \A t \in Signer : \A q \in Asks(t)' : Opens(phase, log[q].msg)
    BY <2>1 DEF Lockstep, RequestsFit
  <2>3. outbox[COORDINATOR] # << >> =>
          /\ outbox[COORDINATOR] = <<Head(outbox[COORDINATOR])>>
          /\ Opens(phase, Head(outbox[COORDINATOR]))
    BY DEF Lockstep, RequestsFit
  <2> QED
    BY <1>2, <1>5, <2>2, <2>3 DEF RequestsFit
<1> HIDE DEF m
<1>9. ASSUME res.ok, Stage(s)',
             \A i \in DOMAIN res.out :
                res.out[i].type \in FromSigner => Answers(phase, res.out[i].type)
      PROVE  Lockstep'
  <2>1. \A t \in Signer : \A q \in Replies(t)' : Answers(phase, log[q].msg.type)
    BY <1>6 DEF Lockstep, AnswersFit
  <2>2. \A t \in Signer : \A i \in DOMAIN outbox'[t] :
            outbox'[t][i].type \in FromSigner => Answers(phase, outbox'[t][i].type)
    BY <1>5, <1>9 DEF Lockstep, AnswersFit
  <2>3. AnswersFit'
    BY <1>2, <1>5, <2>1, <2>2 DEF AnswersFit
  <2>4. ReadyIsQuiet'
    BY <1>5 DEF Lockstep, ReadyIsQuiet
  <2>5. SignerStaysUp'
    BY <1>5, <1>9 DEF Lockstep, SignerStaysUp
  <2>6. Stages'
    BY <1>7, <1>9 DEF Stages
  <2> QED
    BY <1>8, <2>3, <2>4, <2>5, <2>6 DEF Lockstep
<1>10. ASSUME Proceeds(phase, res), s \in Waited, Replies(s) = {}, Asks(s) \ {p} = {},
              outbox[COORDINATOR] = << >>
       PROVE  Lockstep'
  <2>1. Quiet(s)' /\ Replies(s)' = {} /\ s \in Waited'
    BY <1>5, <1>6, <1>10 DEF Quiet
  <2>2. CASE Gathers(phase, res.round.state) /\ NoAnswer(res.out)
    <3>1. NoAnswer(outbox[s])'
      BY <1>5, <2>2 DEF NoAnswer
    <3>2. Working(s)'
      BY <1>5, <2>1, <2>2, <3>1 DEF Working
    <3> QED
      BY <1>9, <1>10, <2>2, <3>2 DEF Stage, NoAnswer, Proceeds
  <2>3. CASE /\ Settled(phase, res.round.state) /\ EndsWithAnswer(res.out)
             /\ \A i \in DOMAIN res.out :
                   res.out[i].type \in FromSigner => Answers(phase, res.out[i].type)
    <3>1. EndsWithAnswer(outbox[s])'
      BY <1>5, <2>3 DEF EndsWithAnswer
    <3>2. Answered(s)'
      BY <1>5, <2>1, <2>3, <3>1 DEF Answered
    <3> QED
      BY <1>9, <1>10, <2>3, <3>2 DEF Stage, Proceeds
  <2> QED
    BY <1>10, <2>2, <2>3 DEF Proceeds
<1>11. CASE m.type \in FromCoordinator
  <2>1. p \in Asks(s)
    BY <1>2, <1>4, <1>11 DEF Asks, m
  <2>2. Asked(s)
    BY <2>1 DEF Lockstep, Stages, Stage, Working, Answered, Finished, Quiet
  <2>3. /\ outbox[COORDINATOR] = << >> /\ Asks(s) = {p} /\ s \in Waited
        /\ Due(phase, round[s].state) /\ Replies(s) = {}
    BY <2>1, <2>2 DEF Asked
  <2>4. Opens(phase, m)
    BY <2>1 DEF Lockstep, RequestsFit, m
  <2>5. verify_msg(log[p])
    BY <1>3, <1>11 DEF verify_msg, Own, FromCoordinator, FromSigner, m
  <2>6. Proceeds(phase, res)
    BY <1>0, <1>3, <2>3, <2>4, <2>5, RequestProceeds
  <2> QED
    BY <1>10, <2>3, <2>6
<1>12. CASE m.type \notin FromCoordinator
  <2>1. Asks(s)' = Asks(s) /\ Replies(s)' = Replies(s)
    BY <1>6, <1>12 DEF Asks, m
  <2>2. CASE res = Ok(round[s], << >>)
    <3>1. res.ok /\ res.round = round[s] /\ res.out = << >>
      BY <2>2 DEF Ok
    <3>2. Stage(s)'
      BY <1>2, <1>5, <2>1, <3>1, SameStage DEF Lockstep, Stages
    <3> QED
      BY <1>9, <3>1, <3>2
  <2>3. CASE res = process(s, round[s], m)
    <3>1. CASE Working(s)
      <4>1. Proceeds(phase, res)
        BY <1>3, <1>12, <2>3, <3>1, OtherProceeds DEF Working
      <4> QED
        BY <1>10, <3>1, <4>1 DEF Working, Quiet
    <3>2. CASE ~Working(s)
      <4>1. round[s].state \in {"Idle", "DkgPrivateDistribute"}
        BY <3>2 DEF Lockstep, Stages, Stage, Asked, Answered, Finished, Due, Settled
      <4>2. res.ok /\ res.out = << >> /\ res.round.state = round[s].state
        <5>1. Rests(round[s].state, process(s, round[s], m))
          BY <1>3, <1>12, <4>1, OtherProceeds, Zenon
        <5> QED
          BY <2>3, <5>1 DEF Rests
      <4>3. Stage(s)'
        BY <1>2, <1>5, <2>1, <4>2, SameStage DEF Lockstep, Stages
      <4> QED
        BY <1>9, <4>2, <4>3
    <3> QED
      BY <3>1, <3>2
  <2> QED
    BY <1>0, <2>2, <2>3
<1> QED
  BY <1>11, <1>12

\* A signer posts a message.
LEMMA SignerPostLockstep ==
    ASSUME Inv, Lockstep, NEW s \in Signer, PostAnswered(s), UNCHANGED signerVars,
           UNCHANGED coordVars
    PROVE  Lockstep'
<1>0. PICK m, L : m = Head(outbox[s]) /\ L = Len(log) + 1
  OBVIOUS
<1>1. /\ DOMAIN outbox = Node /\ s \in Node /\ COORDINATOR \in Node /\ s # COORDINATOR
      /\ Signer \subseteq Node
  BY FrostAssumption DEF Inv, NetInv, OutboxInv, Node
<1>2. /\ L \notin DOMAIN log /\ DOMAIN log' = DOMAIN log \cup {L}
      /\ \A p \in DOMAIN log : log'[p] = log[p]
      /\ log'[L].msg = m
      /\ outbox' = [outbox EXCEPT ![s] = Tail(outbox[s])]
      /\ IsSeq(outbox[s]) /\ outbox[s] # << >>
  BY <1>0, <1>1, PostMoves
<1>3. \A t \in Signer :
        /\ Asks(t)' = Asks(t)
        /\ Replies(t)' = IF s = t /\ m.type \in FromSigner THEN Replies(t) \cup {L}
                         ELSE Replies(t)
  BY <1>0, <1>1, PostUnread
<1>4. /\ phase' = phase /\ Waited' = Waited /\ awaiting' = awaiting
      /\ outbox'[COORDINATOR] = outbox[COORDINATOR] /\ outbox'[s] = Tail(outbox[s])
      /\ \A t \in Signer \ {s} : outbox'[t] = outbox[t]
      /\ round' = round /\ alive' = alive
  BY <1>1, <1>2 DEF coordVars, signerVars, Waited
<1>5. RequestsFit'
  <2>1. \A t \in Signer : \A q \in Asks(t) : q \in DOMAIN log
    BY DEF Asks
  <2>2. \A t \in Signer : \A q \in Asks(t)' : Opens(phase, log'[q].msg)
    BY <1>2, <1>3, <2>1 DEF Lockstep, RequestsFit
  <2>3. outbox[COORDINATOR] # << >> =>
          /\ outbox[COORDINATOR] = <<Head(outbox[COORDINATOR])>>
          /\ Opens(phase, Head(outbox[COORDINATOR]))
    BY DEF Lockstep, RequestsFit
  <2> QED
    BY <1>4, <2>2, <2>3 DEF RequestsFit
<1>6. ReadyIsQuiet' /\ SignerStaysUp'
  BY <1>4 DEF Lockstep, ReadyIsQuiet, SignerStaysUp
<1>7. m = outbox[s][1] /\ 1 \in DOMAIN outbox[s]
  BY <1>0, <1>2, TailIsSeq
<1>8. \A i \in DOMAIN Tail(outbox[s]) :
         i + 1 \in DOMAIN outbox[s] /\ Tail(outbox[s])[i] = outbox[s][i + 1]
  BY <1>2, TailIsSeq, SeqFacts
<1>9. AnswersFit'
  <2>1. \A t \in Signer : \A q \in Replies(t) : q \in DOMAIN log
    BY DEF Replies
  <2>2. m.type \in FromSigner => Answers(phase, m.type)
    BY <1>7 DEF Lockstep, AnswersFit
  <2>3. \A t \in Signer : \A q \in Replies(t)' : Answers(phase, log'[q].msg.type)
    BY <1>2, <1>3, <2>1, <2>2 DEF Lockstep, AnswersFit
  <2>4. \A i \in DOMAIN Tail(outbox[s]) :
           Tail(outbox[s])[i].type \in FromSigner => Answers(phase, Tail(outbox[s])[i].type)
    BY <1>8 DEF Lockstep, AnswersFit
  <2>5. \A t \in Signer : \A i \in DOMAIN outbox'[t] :
            outbox'[t][i].type \in FromSigner => Answers(phase, outbox'[t][i].type)
    BY <1>4, <2>4 DEF Lockstep, AnswersFit
  <2> QED
    BY <1>4, <2>3, <2>5 DEF AnswersFit
<1>10. \A t \in Signer \ {s} : Stage(t)'
  BY <1>2, <1>3, <1>4, SameStage DEF Lockstep, Stages
<1>11. Stage(s)'
  <2>1. Quiet(s)' <=> Quiet(s)
    BY <1>3, <1>4 DEF Quiet
  <2>2. CASE Working(s)
    <3>1. m.type \notin FromSigner /\ NoAnswer(Tail(outbox[s]))
      BY <1>0, <1>2, <2>2, TailNoAnswer DEF Working
    <3>2. NoAnswer(outbox[s])'
      BY <1>4, <3>1 DEF NoAnswer
    <3> QED
      BY <1>3, <1>4, <2>1, <2>2, <3>1, <3>2 DEF Working, Stage
  <2>3. CASE Answered(s)
    <3>1. EndsWithAnswer(outbox[s]) /\ Replies(s) = {}
      BY <1>2, <2>3 DEF Answered
    <3>2. CASE m.type \in FromSigner /\ Tail(outbox[s]) = << >>
      BY <1>2, <1>3, <1>4, <2>1, <2>3, <3>1, <3>2 DEF Answered, Stage
    <3>3. CASE m.type \notin FromSigner /\ EndsWithAnswer(Tail(outbox[s]))
      <4>1. EndsWithAnswer(outbox[s])'
        BY <1>4, <3>3 DEF EndsWithAnswer
      <4> QED
        BY <1>3, <1>4, <2>1, <2>3, <3>1, <3>3, <4>1 DEF Answered, Stage
    <3> QED
      BY <1>0, <1>2, <3>1, <3>2, <3>3, TailAnswer
  <2> QED
    BY <1>2, <2>2, <2>3 DEF Lockstep, Stages, Stage, Asked, Finished
<1> QED
  BY <1>5, <1>6, <1>9, <1>10, <1>11 DEF Lockstep, Stages

\* The coordinator posts its request.
LEMMA CoordinatorPostLockstep ==
    ASSUME Inv, Lockstep, PostAnswered(COORDINATOR), UNCHANGED signerVars,
           UNCHANGED coordVars
    PROVE  Lockstep'
<1> DEFINE C == COORDINATOR
<1>0. PICK m, L : m = Head(outbox[C]) /\ L = Len(log) + 1
  OBVIOUS
<1>1. DOMAIN outbox = Node /\ C \in Node /\ \A t \in Signer : t \in Node /\ t # C
  BY FrostAssumption DEF Inv, NetInv, OutboxInv, Node
<1>2. /\ L \notin DOMAIN log /\ DOMAIN log' = DOMAIN log \cup {L}
      /\ \A p \in DOMAIN log : log'[p] = log[p]
      /\ log'[L].msg = m
      /\ outbox' = [outbox EXCEPT ![C] = Tail(outbox[C])]
      /\ outbox[C] # << >>
  BY <1>0, <1>1, PostMoves
<1>3. \A t \in Signer : Asks(t)' = Asks(t) \cup {L} /\ Replies(t)' = Replies(t)
  BY <1>0, <1>1, PostUnread
<1>4. outbox[C] = <<m>> /\ Opens(phase, m)
  BY <1>0, <1>2 DEF Lockstep, RequestsFit
<1>5. /\ phase' = phase /\ Waited' = Waited /\ awaiting' = awaiting
      /\ outbox'[C] = << >> /\ \A t \in Signer : outbox'[t] = outbox[t]
      /\ round' = round /\ alive' = alive
  BY <1>1, <1>2, <1>4 DEF coordVars, signerVars, Waited
<1>6. \A t \in Signer : Asked(t) /\ Asks(t) = {}
  BY <1>2 DEF Lockstep, Stages, Stage, Asked, Working, Answered, Finished, Quiet
<1>7. \A t \in Signer : Asks(t)' = {L}
  BY <1>3, <1>6
<1>8. \A t \in Signer : Asked(t)'
  BY <1>2, <1>3, <1>5, <1>6, <1>7 DEF Asked
<1>9. RequestsFit'
  BY <1>2, <1>4, <1>5, <1>7 DEF RequestsFit
<1>10. AnswersFit'
  BY <1>3, <1>5, <1>6 DEF AnswersFit, Asked
<1> QED
  BY <1>5, <1>8, <1>9, <1>10
  DEF Lockstep, Stages, Stage, SignerStaysUp, ReadyIsQuiet

\* A request opens a phase when nothing is under way.
LEMMA OpenLockstep ==
    ASSUME \A s \in Signer : alive'[s], NEW m, Opens(phase', m),
           outbox'[COORDINATOR] = <<m>>,
           \A s \in Signer : /\ Asks(s)' = {} /\ Replies(s)' = {} /\ outbox'[s] = << >>
                             /\ s \in Waited' /\ Due(phase', round'[s].state)
    PROVE  Lockstep'
<1>1. \A s \in Signer : Asked(s)'
  BY DEF Asked
<1>2. RequestsFit'
  BY DEF RequestsFit
<1>3. AnswersFit'
  BY DEF AnswersFit
<1>4. phase' # "ready"
  BY DEF Opens
<1> QED
  BY <1>1, <1>2, <1>3, <1>4 DEF Lockstep, Stages, Stage, SignerStaysUp, ReadyIsQuiet

\* A command returns when nothing is under way.
LEMMA RestLockstep ==
    ASSUME \A s \in Signer : alive'[s], phase' = "ready", awaiting' = {},
           outbox'[COORDINATOR] = << >>,
           \A s \in Signer : /\ Asks(s)' = {} /\ Replies(s)' = {} /\ outbox'[s] = << >>
                             /\ round'[s].state = "Idle"
    PROVE  Lockstep'
<1>1. Waited' = {}
  BY DEF Waited
<1>2. \A s \in Signer : Finished(s)'
  BY <1>1 DEF Finished, Settled, Quiet
<1>3. RequestsFit'
  BY DEF RequestsFit
<1>4. AnswersFit'
  BY DEF AnswersFit
<1> QED
  BY <1>2, <1>3, <1>4 DEF Lockstep, Stages, Stage, SignerStaysUp, ReadyIsQuiet

\* Nothing is under way between two commands.
LEMMA ReadyRests ==
    ASSUME Lockstep, phase = "ready", NEW s \in Signer
    PROVE  /\ alive[s] /\ Asks(s) = {} /\ Replies(s) = {} /\ outbox[s] = << >>
           /\ round[s].state = "Idle" /\ outbox[COORDINATOR] = << >>
<1>1. s \notin Waited
  BY DEF Lockstep, ReadyIsQuiet, Waited
<1>2. Finished(s)
  BY <1>1 DEF Lockstep, Stages, Stage, Asked, Working, Answered
<1> QED
  BY <1>2 DEF Finished, Settled, Quiet, Lockstep, SignerStaysUp

\* A command starts.
LEMMA StartLockstep ==
    ASSUME Inv, Lockstep, UNCHANGED signerVars,
           StartDkg \/ \E msg \in Payload : StartSign(msg)
    PROVE  Lockstep'
<1>1. phase = "ready" /\ log' = log /\ pos' = pos
  BY DEF StartDkg, StartSign
<1>2. \A s \in Signer : Asks(s)' = Asks(s) /\ Replies(s)' = Replies(s)
  BY <1>1 DEF Asks, Replies
<1>3. /\ DOMAIN outbox = Node /\ COORDINATOR \in Node
      /\ \A s \in Signer : s \in Node /\ s # COORDINATOR
  BY FrostAssumption DEF Inv, NetInv, OutboxInv, Node
<1>4. \A s \in Signer : /\ alive'[s] /\ Asks(s)' = {} /\ Replies(s)' = {}
                        /\ outbox[s] = << >> /\ round'[s].state = "Idle"
  BY <1>1, <1>2, ReadyRests DEF signerVars
<1>5. \A m : Send(m) => /\ outbox'[COORDINATOR] = <<m>>
                        /\ \A s \in Signer : outbox'[s] = outbox[s]
  BY <1>3 DEF Send
<1>6. CASE StartDkg
  <2>1. PICK m : m.type = "DkgBegin" /\ Send(m)
    BY <1>6 DEF StartDkg, start_public_shares
  <2>2. phase' = "public_shares" /\ Waited' = Signer
    BY <1>6 DEF StartDkg, Waited
  <2>3. Opens(phase', m) /\ \A s \in Signer : Due(phase', round'[s].state)
    BY <1>4, <2>1, <2>2 DEF Opens, Due
  <2> QED
    BY <1>4, <1>5, <2>1, <2>2, <2>3, OpenLockstep
<1>7. CASE \E msg \in Payload : StartSign(msg)
  <2>1. CASE aggregate_public_key = Empty
    <3>1. phase' = "ready" /\ awaiting' = {} /\ outbox' = outbox
      BY <1>7, <2>1 DEF StartSign, Return, SendNothing
    <3>2. outbox'[COORDINATOR] = << >>
      BY <1>1, <3>1 DEF Lockstep, ReadyIsQuiet
    <3> QED
      BY <1>4, <3>1, <3>2, RestLockstep
  <2>2. CASE aggregate_public_key # Empty
    <3>1. PICK m : m.type = "NonceRequest" /\ Send(m)
      BY <1>7, <2>2 DEF StartSign, NonceRequest
    <3>2. phase' = "nonces" /\ public_nonces' = Empty
      BY <1>7, <2>2 DEF StartSign
    <3>3. Waited' = Signer
      BY <3>2 DEF Waited, Empty
    <3>4. Opens(phase', m) /\ \A s \in Signer : Due(phase', round'[s].state)
      BY <1>4, <3>1, <3>2 DEF Opens, Due
    <3> QED
      BY <1>4, <1>5, <3>1, <3>3, <3>4, OpenLockstep
  <2> QED
    BY <2>1, <2>2
<1> QED
  BY <1>6, <1>7

\* The signers that are waited for after message m has been read.
Left(m) == IF m.type \in FromSigner THEN Waited \ {m.signer_id} ELSE Waited

\* The coordinator reads a message: whoever it still waits for is where it was,
\* and with the others nothing is under way.
LEMMA ReadStages ==
    ASSUME Inv, Lockstep, UNCHANGED signerVars, NEW p, NEW K,
           Receive(COORDINATOR, p, K), NoFault', NEW s \in Signer
    PROVE  /\ p \in DOMAIN log /\ log' = log /\ outbox[COORDINATOR] = << >> /\ alive'[s]
           /\ Asks(s)' = Asks(s) /\ Replies(s)' = Replies(s) \ {p}
           /\ round'[s] = round[s]
           /\ s \in Left(log[p].msg) => s \in Waited /\ Replies(s)' = Replies(s)
           /\ s \notin Left(log[p].msg) =>
                 /\ Asks(s)' = {} /\ Replies(s)' = {} /\ outbox[s] = << >>
                 /\ Settled(phase, round'[s].state)
<1> DEFINE m == log[p].msg
<1>1. /\ p = pos[COORDINATOR] + 1 /\ p \in DOMAIN log /\ log' = log
      /\ outbox[COORDINATOR] = << >> /\ pos' = [pos EXCEPT ![COORDINATOR] = p]
      /\ COORDINATOR \in Node /\ s # COORDINATOR
  BY ReceiveInTurn, FrostAssumption DEF Node
<1>2. Asks(s)' = Asks(s) /\ Replies(s)' = Replies(s) \ {p}
  BY <1>1, ReadUnread
<1>3. round'[s] = round[s] /\ alive'[s]
  BY DEF signerVars, Lockstep, SignerStaysUp
<1>4. p > pos[COORDINATOR]
  BY <1>1 DEF Inv, NetInv, PosInv
<1>5. p \in Replies(s) <=> m.type \in FromSigner /\ m.signer_id = s
  BY <1>1, <1>4 DEF Replies
<1> HIDE DEF m
<1>6. CASE s \in Left(m)
  <2>1. s \in Waited /\ p \notin Replies(s)
    BY <1>5, <1>6 DEF Left
  <2> QED
    BY <1>1, <1>2, <1>3, <1>6, <2>1 DEF m
<1>7. CASE s \notin Left(m)
  <2>1. CASE s \in Waited
    <3>1. p \in Replies(s)
      BY <1>5, <1>7, <2>1 DEF Left
    <3>2. Answered(s) /\ outbox[s] = << >> /\ Replies(s) = {p}
      BY <3>1 DEF Lockstep, Stages, Stage, Asked, Working, Answered, Finished
    <3> QED
      BY <1>1, <1>2, <1>3, <1>7, <3>2 DEF Answered, Quiet, m
  <2>2. CASE s \notin Waited
    <3>1. Finished(s)
      BY <2>2 DEF Lockstep, Stages, Stage, Asked, Working, Answered
    <3> QED
      BY <1>1, <1>2, <1>3, <1>7, <3>1 DEF Finished, Quiet, m
  <2> QED
    BY <2>1, <2>2
<1> QED
  BY <1>6, <1>7 DEF m

\* The phase goes on.
LEMMA ReadLockstep ==
    ASSUME Inv, Lockstep, UNCHANGED signerVars, NEW p, NEW K,
           Receive(COORDINATOR, p, K), NoFault', outbox' = outbox, phase' = phase,
           Waited' = Left(log[p].msg), phase = "ready" => awaiting' = awaiting
    PROVE  Lockstep'
<1>1. \A s \in Signer :
           /\ p \in DOMAIN log /\ log' = log /\ outbox[COORDINATOR] = << >> /\ alive'[s]
           /\ Asks(s)' = Asks(s) /\ Replies(s)' = Replies(s) \ {p}
           /\ round'[s] = round[s]
           /\ s \in Left(log[p].msg) => s \in Waited /\ Replies(s)' = Replies(s)
           /\ s \notin Left(log[p].msg) =>
                 /\ Asks(s)' = {} /\ Replies(s)' = {} /\ outbox[s] = << >>
                 /\ Settled(phase, round'[s].state)
  BY ReadStages
<1>2. log' = log /\ outbox[COORDINATOR] = << >>
  BY <1>1, FrostAssumption
<1>3. ASSUME NEW s \in Signer PROVE Stage(s)'
  <2>1. CASE s \in Left(log[p].msg)
    BY <1>1, <1>2, <2>1, SameStage DEF Lockstep, Stages
  <2>2. CASE s \notin Left(log[p].msg)
    <3>1. Finished(s)'
      BY <1>1, <1>2, <2>2 DEF Finished, Quiet
    <3> QED
      BY <3>1 DEF Stage
  <2> QED
    BY <2>1, <2>2
<1>4. RequestsFit'
  BY <1>1, <1>2 DEF RequestsFit, Lockstep
<1>5. AnswersFit'
  BY <1>1, <1>2 DEF AnswersFit, Lockstep
<1> QED
  BY <1>1, <1>2, <1>3, <1>4, <1>5
  DEF Lockstep, Stages, SignerStaysUp, ReadyIsQuiet

\* The coordinator has read the last answer.
LEMMA LastRead ==
    ASSUME Inv, Lockstep, UNCHANGED signerVars, NEW p, NEW K,
           Receive(COORDINATOR, p, K), NoFault', Left(log[p].msg) \cap Signer = {}
    PROVE  /\ \A s \in Signer : /\ alive'[s] /\ Asks(s)' = {} /\ Replies(s)' = {}
                                /\ outbox[s] = << >> /\ Settled(phase, round'[s].state)
           /\ outbox[COORDINATOR] = << >>
           /\ \A m : Send(m) => /\ outbox'[COORDINATOR] = <<m>>
                                /\ \A s \in Signer : outbox'[s] = outbox[s]
<1>1. \A s \in Signer :
           /\ outbox[COORDINATOR] = << >> /\ alive'[s]
           /\ Asks(s)' = {} /\ Replies(s)' = {} /\ outbox[s] = << >>
           /\ Settled(phase, round'[s].state)
  BY ReadStages
<1>2. outbox[COORDINATOR] = << >>
  BY <1>1, FrostAssumption
<1>3. /\ DOMAIN outbox = Node /\ COORDINATOR \in Node
      /\ \A s \in Signer : s \in Node /\ s # COORDINATOR
  BY FrostAssumption DEF Inv, NetInv, OutboxInv, Node
<1>4. \A m : Send(m) => /\ outbox'[COORDINATOR] = <<m>>
                        /\ \A s \in Signer : outbox'[s] = outbox[s]
  BY <1>3 DEF Send
<1> QED
  BY <1>1, <1>2, <1>4

\* The answer the coordinator reads is the one it waits for.
LEMMA ReadAnswer ==
    ASSUME Inv, Lockstep, NEW p, NEW K, Receive(COORDINATOR, p, K), NoFault',
           log[p].msg.type \in FromSigner
    PROVE  /\ log[p].msg.signer_id \in Signer /\ log[p].msg.signer_id \in Waited
           /\ Answers(phase, log[p].msg.type)
<1> DEFINE m == log[p].msg
<1>1. p = pos[COORDINATOR] + 1 /\ p \in DOMAIN log
  BY ReceiveInTurn DEF Node
<1>2. p > pos[COORDINATOR]
  BY <1>1 DEF Inv, NetInv, PosInv, Node
<1>3. IsMessage(m)
  BY <1>1 DEF Inv, NetInv, LogInv
<1>4. m.signer_id \in Signer
  BY <1>3 DEF IsMessage, FromSigner
<1>5. p \in Replies(m.signer_id)
  BY <1>1, <1>2 DEF Replies
<1>6. Answers(phase, m.type)
  BY <1>4, <1>5 DEF Lockstep, AnswersFit
<1>7. Answered(m.signer_id)
  BY <1>4, <1>5 DEF Lockstep, Stages, Stage, Asked, Working, Finished
<1> QED
  BY <1>4, <1>6, <1>7 DEF Answered

\* wait_for_public_shares
LEMMA WaitForPublicSharesLockstep ==
    ASSUME Inv, Lockstep, UNCHANGED signerVars, NEW p, WaitForPublicShares(p), NoFault'
    PROVE  Lockstep'
<1>1. /\ phase = "public_shares" /\ phase' = phase /\ outbox' = outbox
      /\ Receive(COORDINATOR, p, {})
  BY DEF WaitForPublicShares, SendNothing
<1>2. log[p].msg.type \in FromSigner => log[p].msg.type = "DkgPublicEnd"
  BY <1>1, ReadAnswer DEF Answers
<1>3. Waited' = Left(log[p].msg)
  BY <1>1, <1>2 DEF WaitForPublicShares, Left, Waited, FromSigner
<1> QED
  BY <1>1, <1>3, ReadLockstep

\* and its end
LEMMA PublicSharesDoneLockstep ==
    ASSUME Inv, Lockstep, UNCHANGED signerVars, NEW p, PublicSharesDone(p), NoFault'
    PROVE  Lockstep'
<1>1. PICK K : Receive(COORDINATOR, p, K)
  BY DEF PublicSharesDone
<1>2. phase = "public_shares" /\ Left(log[p].msg) = {}
  BY DEF PublicSharesDone, Left, Waited, FromSigner
<1>3. /\ \A s \in Signer : /\ alive'[s] /\ Asks(s)' = {} /\ Replies(s)' = {}
                           /\ outbox[s] = << >> /\ Settled(phase, round'[s].state)
      /\ \A m : Send(m) => /\ outbox'[COORDINATOR] = <<m>>
                           /\ \A s \in Signer : outbox'[s] = outbox[s]
  BY <1>1, <1>2, LastRead
<1>4. \A s \in Signer : round'[s].state = "DkgPrivateDistribute"
  BY <1>2, <1>3 DEF Settled
<1>5. awaiting' = Signer
  BY DEF PublicSharesDone, AggregateKeyEven, AggregateKeyOdd
<1>6. PICK m : Send(m) /\ Opens(phase', m) /\ phase' \in {"public_shares", "dkg_end"}
  <2>1. CASE AggregateKeyEven
    <3>1. PICK m : m = [type |-> "DkgPrivateBegin", dkg_id |-> current_dkg_id]
      OBVIOUS
    <3> QED
      BY <2>1, <3>1 DEF AggregateKeyEven, Opens
  <2>2. CASE AggregateKeyOdd
    <3>1. PICK m : m = [type |-> "DkgBegin", dkg_id |-> current_dkg_id]
      OBVIOUS
    <3> QED
      BY <1>2, <2>2, <3>1 DEF AggregateKeyOdd, start_public_shares, Opens
  <2> QED
    BY <2>1, <2>2 DEF PublicSharesDone
<1>7. Waited' = Signer /\ \A s \in Signer : Due(phase', round'[s].state)
  BY <1>4, <1>5, <1>6 DEF Waited, Due
<1> QED
  BY <1>3, <1>6, <1>7, OpenLockstep

\* wait_for_dkg_end
LEMMA WaitForDkgEndLockstep ==
    ASSUME Inv, Lockstep, UNCHANGED signerVars, NEW p, WaitForDkgEnd(p), NoFault'
    PROVE  Lockstep'
<1>1. phase = "dkg_end" /\ outbox' = outbox /\ Receive(COORDINATOR, p, {})
  BY DEF WaitForDkgEnd, SendNothing
<1>2. log[p].msg.type \in FromSigner <=> log[p].msg.type = "DkgEnd"
  BY <1>1, ReadAnswer DEF Answers, FromSigner
<1>3. PICK left : left = IF log[p].msg.type = "DkgEnd" THEN awaiting \ {log[p].msg.signer_id}
                         ELSE awaiting
  OBVIOUS
<1>4. Left(log[p].msg) = left
  BY <1>1, <1>2, <1>3 DEF Left, Waited
<1>5. IF left = {} THEN Return("dkg") ELSE awaiting' = left /\ UNCHANGED <<phase, outcome>>
  BY <1>3 DEF WaitForDkgEnd
<1>6. CASE left = {}
  <2>1. /\ \A s \in Signer : /\ alive'[s] /\ Asks(s)' = {} /\ Replies(s)' = {}
                             /\ outbox[s] = << >> /\ Settled(phase, round'[s].state)
        /\ outbox[COORDINATOR] = << >>
    BY <1>1, <1>4, <1>6, LastRead
  <2>2. phase' = "ready" /\ awaiting' = {}
    BY <1>5, <1>6 DEF Return
  <2>3. \A s \in Signer : round'[s].state = "Idle"
    BY <1>1, <2>1 DEF Settled
  <2> QED
    BY <1>1, <2>1, <2>2, <2>3, RestLockstep
<1>7. CASE left # {}
  <2>1. phase' = phase /\ Waited' = left
    BY <1>1, <1>5, <1>7 DEF Waited
  <2> QED
    BY <1>1, <1>4, <2>1, ReadLockstep
<1> QED
  BY <1>6, <1>7

\* What NoncesWith adds.
LEMMA NoncesLeft ==
    ASSUME Inv, Lockstep, NEW p, NEW K, Receive(COORDINATOR, p, K), NoFault',
           phase = "nonces"
    PROVE  /\ Left(log[p].msg) = Signer \ DOMAIN NoncesWith(log[p].msg)
           /\ DOMAIN NoncesWith(log[p].msg) \subseteq Signer
<1>1. log[p].msg.type \in FromSigner <=> log[p].msg.type = "NonceResponse"
  BY ReadAnswer DEF Answers, FromSigner
<1>2. log[p].msg.type \in FromSigner => log[p].msg.signer_id \in Signer
  BY ReadAnswer
<1>3. DOMAIN public_nonces \subseteq Signer
  BY DEF Inv, CoordInv, IsMap
<1> QED
  BY <1>1, <1>2, <1>3 DEF Left, Waited, NoncesWith, Insert

\* collect_nonces
LEMMA CollectNoncesLockstep ==
    ASSUME Inv, Lockstep, UNCHANGED signerVars, NEW p, CollectNonces(p), NoFault'
    PROVE  Lockstep'
<1>1. /\ phase = "nonces" /\ phase' = phase /\ outbox' = outbox
      /\ Receive(COORDINATOR, p, {})
      /\ public_nonces' = NoncesWith(log[p].msg)
  BY DEF CollectNonces, SendNothing
<1>2. Waited' = Left(log[p].msg)
  BY <1>1, NoncesLeft DEF Waited
<1> QED
  BY <1>1, <1>2, ReadLockstep

\* and its end
LEMMA NoncesDoneLockstep ==
    ASSUME Inv, Lockstep, UNCHANGED signerVars, NEW p, NoncesDone(p), NoFault'
    PROVE  Lockstep'
<1>0. PICK nonces : nonces = NoncesWith(log[p].msg)
  OBVIOUS
<1>1. PICK K : Receive(COORDINATOR, p, K)
  BY DEF NoncesDone
<1>2. phase = "nonces" /\ DOMAIN nonces = Signer
  BY <1>0 DEF NoncesDone
<1>3. Left(log[p].msg) = {}
  BY <1>0, <1>1, <1>2, NoncesLeft
<1>4. /\ \A s \in Signer : /\ alive'[s] /\ Asks(s)' = {} /\ Replies(s)' = {}
                           /\ outbox[s] = << >> /\ Settled(phase, round'[s].state)
      /\ outbox[COORDINATOR] = << >>
      /\ \A m : Send(m) => /\ outbox'[COORDINATOR] = <<m>>
                           /\ \A s \in Signer : outbox'[s] = outbox[s]
  BY <1>1, <1>3, LastRead
<1>5. \A s \in Signer : round'[s].state = "Idle"
  BY <1>2, <1>4 DEF Settled
<1>6. CASE AggregateNonceOdd
  <2>1. PICK m : m.type = "NonceRequest" /\ Send(m)
    BY <1>6 DEF AggregateNonceOdd, NonceRequest
  <2>2. phase' = "nonces" /\ public_nonces' = Empty
    BY <1>2, <1>6 DEF AggregateNonceOdd
  <2>3. Waited' = Signer
    BY <2>2 DEF Waited, Empty
  <2>4. Opens(phase', m) /\ \A s \in Signer : Due(phase', round'[s].state)
    BY <1>5, <2>1, <2>2 DEF Opens, Due
  <2> QED
    BY <1>4, <2>1, <2>3, <2>4, OpenLockstep
<1>7. CASE AggregateNonceEven(nonces)
  <2>1. CASE DOMAIN dkg_public_shares # Key
    <3>1. phase' = "ready" /\ awaiting' = {} /\ outbox' = outbox
      BY <1>7, <2>1 DEF AggregateNonceEven, Return, SendNothing
    <3> QED
      BY <1>4, <1>5, <3>1, RestLockstep
  <2>2. CASE DOMAIN dkg_public_shares = Key
    <3>1. PICK m : m = [type |-> "SignShareRequest", dkg_id |-> current_dkg_id,
                        nonce_responses |-> nonces, message |-> message]
      OBVIOUS
    <3>2. Send(m) /\ awaiting' = Signer /\ phase' = "signature_shares"
      BY <1>2, <1>7, <2>2, <3>1 DEF AggregateNonceEven
    <3>3. Waited' = Signer /\ Opens(phase', m) /\ \A s \in Signer : Due(phase', round'[s].state)
      BY <1>2, <1>5, <3>1, <3>2 DEF Waited, Opens, Due
    <3> QED
      BY <1>4, <3>2, <3>3, OpenLockstep
  <2> QED
    BY <2>1, <2>2
<1> QED
  BY <1>0, <1>6, <1>7 DEF NoncesDone

\* collect_signature_shares
LEMMA CollectSignatureSharesLockstep ==
    ASSUME Inv, Lockstep, UNCHANGED signerVars, NEW p, CollectSignatureShares(p), NoFault'
    PROVE  Lockstep'
<1>1. phase = "signature_shares" /\ outbox' = outbox /\ Receive(COORDINATOR, p, {})
  BY DEF CollectSignatureShares, SendNothing
<1>2. PICK new : new <=> /\ log[p].msg.type = "SignShareResponse"
                         /\ log[p].msg.signer_id \in awaiting
  OBVIOUS
<1>3. log[p].msg.type \in FromSigner <=> new
  BY <1>1, <1>2, ReadAnswer DEF Answers, FromSigner, Waited
<1>4. PICK left : left = IF new THEN awaiting \ {log[p].msg.signer_id} ELSE awaiting
  OBVIOUS
<1>5. Left(log[p].msg) = left
  BY <1>1, <1>3, <1>4 DEF Left, Waited
<1>6. \/ left = {} /\ phase' = "ready" /\ awaiting' = {}
      \/ left # {} /\ awaiting' = left /\ phase' = phase
  BY <1>2, <1>4 DEF CollectSignatureShares, Return
<1>7. CASE left = {}
  <2>1. /\ \A s \in Signer : /\ alive'[s] /\ Asks(s)' = {} /\ Replies(s)' = {}
                             /\ outbox[s] = << >> /\ Settled(phase, round'[s].state)
        /\ outbox[COORDINATOR] = << >>
    BY <1>1, <1>5, <1>7, LastRead
  <2>2. \A s \in Signer : round'[s].state = "Idle"
    BY <1>1, <2>1 DEF Settled
  <2> QED
    BY <1>1, <1>6, <1>7, <2>1, <2>2, RestLockstep
<1>8. CASE left # {}
  <2>1. phase' = phase /\ Waited' = left
    BY <1>1, <1>6, <1>8 DEF Waited
  <2> QED
    BY <1>1, <1>5, <2>1, ReadLockstep
<1> QED
  BY <1>7, <1>8

\* Nothing happens.
LEMMA StutterLockstep ==
    ASSUME Lockstep, UNCHANGED vars
    PROVE  Lockstep'
<1>1. /\ log' = log /\ pos' = pos /\ outbox' = outbox /\ round' = round /\ alive' = alive
      /\ phase' = phase /\ awaiting' = awaiting /\ public_nonces' = public_nonces
  BY DEF vars, netVars, signerVars, coordVars
<1>2. \A s \in Signer : Asks(s)' = Asks(s) /\ Replies(s)' = Replies(s)
  BY <1>1 DEF Asks, Replies
<1>3. Waited' = Waited
  BY <1>1 DEF Waited
<1>4. Stages'
  BY <1>1, <1>2, <1>3, SameStage DEF Lockstep, Stages
<1>5. RequestsFit' /\ AnswersFit'
  BY <1>1, <1>2 DEF Lockstep, RequestsFit, AnswersFit
<1> QED
  BY <1>1, <1>4, <1>5 DEF Lockstep, SignerStaysUp, ReadyIsQuiet

\* The steps of a system without faults.
Step ==
    \/ \E s \in Signer : /\ \/ \E p \in 1..Len(log) : SignerProcess(s, p)
                            \/ PostAnswered(s) /\ UNCHANGED signerVars
                         /\ UNCHANGED coordVars
    \/ /\ \/ StartDkg
          \/ \E msg \in Payload : StartSign(msg)
          \/ \E p \in 1..Len(log) : CoordinatorReceive(p)
          \/ PostAnswered(COORDINATOR) /\ UNCHANGED coordVars
       /\ UNCHANGED signerVars

\* Without a fault in it a step is one of these.
LEMMA NoFaultStep ==
    ASSUME Inv, Next, NoFault'
    PROVE  NoFault /\ Step
<1>0. spent \in [Kind -> Nat] /\ COORDINATOR \in Node /\ Signer \subseteq Node
  BY DEF Inv, NetInv, Node
<1>1. CASE \E s \in Signer : SignerNext(s) /\ UNCHANGED coordVars
  <2>1. PICK s \in Signer : SignerNext(s) /\ UNCHANGED coordVars
    BY <1>1
  <2>2. CASE \E p \in 1..Len(log) : SignerProcess(s, p)
    <3>1. PICK p \in 1..Len(log) : SignerProcess(s, p)
      BY <2>2
    <3>2. NoFault
      BY <1>0, <3>1, ReceiveInTurn DEF SignerProcess
    <3> QED
      BY <2>1, <3>1, <3>2 DEF Step
  <2>3. CASE SignerPost(s)
    BY <1>0, <2>1, <2>3, PostOnce DEF SignerPost, Step
  <2>4. CASE SignerSendFails(s)
    <3>1. {"giveup"} \cap Fault = {}
      BY <1>0, <2>4, SpendNoFault DEF SignerSendFails
    <3> QED
      BY <3>1 DEF Fault
  <2>5. CASE SignerRestart(s)
    <3>1. {"restart"} \cap Fault = {}
      BY <1>0, <2>5, SpendNoFault DEF SignerRestart
    <3> QED
      BY <3>1 DEF Fault
  <2> QED
    BY <2>1, <2>2, <2>3, <2>4, <2>5 DEF SignerNext
<1>2. CASE CoordinatorNext /\ UNCHANGED signerVars
  <2>1. CASE StartDkg
    BY <1>0, <1>2, <2>1, SpendNoFault DEF StartDkg, Step
  <2>2. CASE \E msg \in Payload : StartSign(msg)
    BY <1>0, <1>2, <2>2, SpendNoFault DEF StartSign, Step
  <2>3. CASE \E p \in 1..Len(log) : CoordinatorReceive(p)
    <3>1. PICK p \in 1..Len(log) : CoordinatorReceive(p)
      BY <2>3
    <3>2. \E K : Receive(COORDINATOR, p, K)
      BY <3>1 DEF CoordinatorReceive, WaitForPublicShares, PublicSharesDone,
                  WaitForDkgEnd, CollectNonces, NoncesDone, CollectSignatureShares
    <3>3. NoFault
      BY <1>0, <3>2, ReceiveInTurn
    <3> QED
      BY <1>2, <3>1, <3>3 DEF Step
  <2>4. CASE CoordinatorPost
    BY <1>0, <1>2, <2>4, PostOnce DEF CoordinatorPost, Step
  <2>5. CASE CoordinatorTimeout
    <3>1. {"timeout"} \cap Fault = {}
      BY <1>0, <2>5, SpendNoFault DEF CoordinatorTimeout
    <3> QED
      BY <3>1 DEF Fault
  <2>6. CASE CoordinatorSendFails
    <3>1. {"giveup"} \cap Fault = {}
      BY <1>0, <2>6, SpendNoFault DEF CoordinatorSendFails
    <3> QED
      BY <3>1 DEF Fault
  <2>7. CASE CoordinatorRestart
    <3>1. {"restart"} \cap Fault = {}
      BY <1>0, <2>7, SpendNoFault DEF CoordinatorRestart
    <3> QED
      BY <3>1 DEF Fault
  <2> QED
    BY <1>2, <2>1, <2>2, <2>3, <2>4, <2>5, <2>6, <2>7 DEF CoordinatorNext
<1> QED
  BY <1>1, <1>2 DEF Next

\* Each of them keeps everybody in the same phase.
LEMMA LockstepStep ==
    ASSUME Inv, Lockstep, Step, NoFault'
    PROVE  Lockstep'
<1>1. CASE \E s \in Signer : \E p \in 1..Len(log) : SignerProcess(s, p) /\ UNCHANGED coordVars
  BY <1>1, ProcessLockstep
<1>2. CASE \E s \in Signer : PostAnswered(s) /\ UNCHANGED signerVars /\ UNCHANGED coordVars
  BY <1>2, SignerPostLockstep
<1>3. CASE (StartDkg \/ \E msg \in Payload : StartSign(msg)) /\ UNCHANGED signerVars
  BY <1>3, StartLockstep
<1>4. CASE \E p \in 1..Len(log) : CoordinatorReceive(p) /\ UNCHANGED signerVars
  BY <1>4, WaitForPublicSharesLockstep, PublicSharesDoneLockstep, WaitForDkgEndLockstep,
     CollectNoncesLockstep, NoncesDoneLockstep, CollectSignatureSharesLockstep
  DEF CoordinatorReceive
<1>5. CASE PostAnswered(COORDINATOR) /\ UNCHANGED coordVars /\ UNCHANGED signerVars
  BY <1>5, CoordinatorPostLockstep
<1> QED
  BY <1>1, <1>2, <1>3, <1>4, <1>5 DEF Step

\* At the start nothing is under way.
LEMMA InitLockstep == Init => Lockstep
<1> SUFFICES ASSUME Init PROVE Lockstep
  OBVIOUS
<1>1. /\ log = << >> /\ \A n \in Node : outbox[n] = << >>
      /\ \A s \in Signer : alive[s] /\ round[s].state = "Idle"
      /\ phase = "ready" /\ awaiting = {}
  BY DEF Init, NetInit, SignerInit, CoordinatorInit, NewRound
<1>2. \A s \in Signer : Asks(s) = {} /\ Replies(s) = {}
  BY <1>1 DEF Asks, Replies
<1>3. outbox[COORDINATOR] = << >> /\ Signer \subseteq Node
  BY <1>1 DEF Node
<1>4. \A s \in Signer : Finished(s)
  BY <1>1, <1>2, <1>3 DEF Finished, Waited, Settled, Quiet
<1>5. RequestsFit
  BY <1>2, <1>3 DEF RequestsFit
<1>6. AnswersFit
  BY <1>1, <1>2, <1>3 DEF AnswersFit
<1> QED
  BY <1>1, <1>3, <1>4, <1>5, <1>6 DEF Lockstep, SignerStaysUp, Stages, Stage, ReadyIsQuiet

\* Everybody is in the same phase until the first fault.
LEMMA AlwaysLockstep == Spec => [](NoFault => Lockstep)
<1>1. Init => (NoFault => Lockstep)
  BY InitLockstep
<1>2. ASSUME Inv, NoFault => Lockstep, [Next]_vars
      PROVE  (NoFault => Lockstep)'
  <2>1. CASE Next
    BY <1>2, <2>1, NoFaultStep, LockstepStep
  <2>2. CASE UNCHANGED vars
    <3>1. NoFault' => NoFault
      BY <2>2 DEF NoFault, vars, netVars
    <3> QED
      BY <1>2, <2>2, <3>1, StutterLockstep
  <2> QED
    BY <1>2, <2>1, <2>2
<1> QED
  BY <1>1, <1>2, AlwaysInv, PTL DEF Spec

(***************************************************************************)
(* Until the first fault no order of posts and reads makes process return  *)
(* an error: move_to is asked only for changes that can_move_to allows,    *)
(* for any number of signers, keys and commands, and however often a key   *)
(* is odd and the public shares start over.                                *)
(***************************************************************************)
THEOREM SignersStayUp == Spec => [](NoFault => SignerStaysUp)
<1>1. Lockstep => SignerStaysUp
  BY DEF Lockstep
<1> QED
  BY <1>1, AlwaysLockstep, PTL

-----------------------------------------------------------------------------
(* The key: who drew what in the key generation under way *)

\* The signer that has key k, its current draw, and the key made of them.
Owner(k) == public_keys.key_ids[k]
Poly(k) == round[Owner(k)].poly
KeyMap == [k \in Key |-> Poly(k)]

\* s has its draw for the key generation under way.
Fresh(s) == phase = "public_shares" => outbox[COORDINATOR] = << >> /\ Asks(s) = {}

\* v is what the signer of key k drew in the key generation under way.
Drawn(k, v) == Fresh(Owner(k)) /\ v = Poly(k)

\* m is a share of key k, made from the draw v.
PublicShare(m, k, v) == m.type = "DkgPublicShare" /\ m.party_id = k /\ m.public_share = v
AnyShare(m, k, v) ==
    \/ PublicShare(m, k, v)
    \/ m.type = "DkgPrivateShares" /\ m.key_id = ZeroBased(k) /\ m.private_shares = v

\* No DkgBegin comes after position p of the log.
Current(p) ==
    /\ phase = "public_shares" => outbox[COORDINATOR] = << >>
    /\ \A q \in DOMAIN log : q > p => log[q].msg.type # "DkgBegin"

\* Shares in the log after the last DkgBegin, on their way to it, in the rounds
\* that have read it and with the coordinator are of the current draws.
LogDrawn ==
    \A p \in DOMAIN log, k \in Key, v \in Nat :
        AnyShare(log[p].msg, k, v) /\ Current(p) => Drawn(k, v)
OutboxDrawn ==
    \A s \in Signer : \A i \in DOMAIN outbox[s] :
        /\ \A k \in Key, v \in Nat : AnyShare(outbox[s][i], k, v) => Drawn(k, v)
        /\ outbox[s][i].type = "DkgPublicShare" => phase = "public_shares"
RoundDrawn(s) ==
    Fresh(s) =>
        /\ \A k \in DOMAIN round[s].commitments : Drawn(k, round[s].commitments[k])
        /\ \A k \in Key : ZeroBased(k) \in DOMAIN round[s].shares =>
               Drawn(k, round[s].shares[ZeroBased(k)])
RoundsDrawn == \A s \in Signer : RoundDrawn(s)
SharesDrawn == \A k \in DOMAIN dkg_public_shares : Drawn(k, dkg_public_shares[k])

\* A public share that the coordinator has yet to read comes before the answer of
\* its signer, which the coordinator waits for.
UnreadDrawn ==
    \A p \in DOMAIN log, k \in Key, v \in Nat :
        p > pos[COORDINATOR] /\ PublicShare(log[p].msg, k, v) =>
            /\ phase = "public_shares" /\ Owner(k) \in awaiting /\ Drawn(k, v)
            /\ \A q \in Replies(Owner(k)) : p < q

\* A signer that has read DkgBegin posts a public share of each of its keys.
Covered(k) ==
    \/ k \in DOMAIN dkg_public_shares
    \/ \E p \in DOMAIN log : p > pos[COORDINATOR] /\ PublicShare(log[p].msg, k, Poly(k))
    \/ \E i \in DOMAIN outbox[Owner(k)] : PublicShare(outbox[Owner(k)][i], k, Poly(k))
Coverage ==
    phase = "public_shares" => \A k \in Key : Fresh(Owner(k)) => Covered(k)

\* A signer that is past the public shares has all of them.
Committed ==
    \A s \in Signer :
        round[s].state \in {"DkgPrivateDistribute", "DkgPrivateGather"}
            => DOMAIN round[s].commitments = Key

\* The key of the coordinator and of the signers that have ended, while the
\* others end and afterwards.
KeyOnEnd ==
    phase = "dkg_end" =>
        /\ aggregate_public_key = KeyMap /\ dkg_public_shares = KeyMap
        /\ \A s \in Signer : round[s].state = "Idle" => round[s].secret = KeyMap
KeyAfter ==
    phase \in {"ready", "nonces", "signature_shares"} =>
        \/ aggregate_public_key = Empty
        \/ /\ aggregate_public_key = KeyMap /\ dkg_public_shares = KeyMap
           /\ \A s \in Signer : round[s].secret = KeyMap
DkgOutcome == outcome = "dkg" => phase = "ready" /\ aggregate_public_key # Empty

\* The inductive invariant of the key.
KeyInv ==
    /\ LogDrawn /\ OutboxDrawn /\ RoundsDrawn /\ SharesDrawn
    /\ UnreadDrawn /\ Coverage
    /\ Committed /\ KeyOnEnd /\ KeyAfter /\ DkgOutcome

\* The owner of a key is the one signer that lists it.
LEMMA OwnerFacts ==
    ASSUME KeysDisjoint, NEW k \in Key
    PROVE  Owner(k) \in Signer /\ KeyOf(Owner(k), k) /\ \A s \in Signer : KeyOf(s, k) => s = Owner(k)
<1>1. PICK s \in Signer : KeyOf(s, k)
  BY FrostAssumption DEF KeyOf
<1>2. Owner(k) = s
  BY <1>1, KeyHolder DEF Owner
<1>3. \A t \in Signer : KeyOf(t, k) => t = Owner(k)
  BY KeyHolder DEF Owner
<1> QED
  BY <1>1, <1>2, <1>3

\* It makes the shares.
LEMMA ShareOwner ==
    ASSUME KeysDisjoint, NEW n, NEW m, IsMessage(m), Own(n, m), NEW k \in Key, NEW v,
           AnyShare(m, k, v)
    PROVE  n = Owner(k) /\ v \in Nat
<1>1. CASE PublicShare(m, k, v)
  <2>1. n \in Signer /\ KeyOf(n, k) /\ v \in Nat
    BY <1>1 DEF PublicShare, Own, IsMessage, FromCoordinator, FromSigner
  <2> QED
    BY <2>1, OwnerFacts
<1>2. CASE m.type = "DkgPrivateShares" /\ m.key_id = ZeroBased(k) /\ m.private_shares = v
  <2>1. PICK j \in Key : n \in Signer /\ m.key_id = ZeroBased(j) /\ KeyOf(n, j)
    BY <1>2 DEF Own, FromCoordinator, FromSigner
  <2>2. j = k
    BY <1>2, <2>1 DEF ZeroBased
  <2>3. v \in Nat
    BY <1>2 DEF IsMessage
  <2> QED
    BY <2>1, <2>2, <2>3, OwnerFacts
<1> QED
  BY <1>1, <1>2 DEF AnyShare

\* As many private shares as keys are one for each key.
LEMMA FullShares ==
    ASSUME NEW D, D \subseteq {ZeroBased(k) : k \in Key}, Cardinality(D) = Cardinality(Key)
    PROVE  D = {ZeroBased(k) : k \in Key}
<1> DEFINE Z == {ZeroBased(k) : k \in Key}
           f == [k \in Key |-> ZeroBased(k)]
<1>1. f \in Surjection(Key, Z)
  BY DEF Surjection
<1> HIDE DEF f, Z
<1>2. IsFiniteSet(Z) /\ Cardinality(Z) <= Cardinality(Key)
  BY <1>1, FS_Surjection, FrostAssumption
<1>3. /\ Cardinality(D) <= Cardinality(Z)
      /\ Cardinality(Z) = Cardinality(D) => Z = D
  BY <1>2, FS_Subset DEF Z
<1>4. Cardinality(Z) \in Nat /\ Cardinality(Key) \in Nat
  BY <1>2, FS_CardinalityType, FrostAssumption
<1> QED
  BY <1>2, <1>3, <1>4 DEF Z

\* Commitments and private shares of the current draws make the key.
LEMMA ComputeKey ==
    ASSUME NEW r, IsRound(r), DOMAIN r.commitments = Key,
           Cardinality(DOMAIN r.shares) = Cardinality(Key), NEW f, DOMAIN f = Key,
           f = [k \in Key |-> f[k]],
           \A k \in Key : r.commitments[k] = f[k],
           \A k \in Key : ZeroBased(k) \in DOMAIN r.shares => r.shares[ZeroBased(k)] = f[k]
    PROVE  compute_secrets(r) = f
<1>1. DOMAIN r.shares = {ZeroBased(k) : k \in Key}
  BY FullShares DEF IsRound, IsMap
<1>2. {OneBased(i) : i \in DOMAIN r.shares} = Key
  <2>1. \A k \in Key : OneBased(ZeroBased(k)) = k
    BY DEF OneBased, ZeroBased
  <2> QED
    BY <1>1, <2>1
<1>3. SharesByKey(r) = f
  BY <1>1, <1>2 DEF SharesByKey
<1>4. r.commitments = f
  BY DEF IsRound, IsMap
<1> QED
  BY <1>3, <1>4 DEF compute_secrets

-----------------------------------------------------------------------------
(* What a message does to the draws of a signer *)

\* What PhaseEnd makes of round r1 and the messages q.
Closes(s, r1, q, res) ==
    /\ res.round.commitments = r1.commitments /\ res.round.shares = r1.shares
    /\ res.round.poly = r1.poly /\ res.round.nonce = r1.nonce
    /\ \A i \in DOMAIN res.out : \/ i \in DOMAIN q /\ res.out[i] = q[i]
                                 \/ res.out[i].type \in {"DkgPublicEnd", "DkgEnd"}
    /\ \/ res.round.state = r1.state /\ res.round.secret = r1.secret
       \/ /\ r1.state = "DkgPublicGather" /\ res.round.state = "DkgPrivateDistribute"
          /\ DOMAIN r1.commitments = Key /\ res.round.secret = r1.secret
       \/ /\ r1.state = "DkgPrivateGather" /\ res.round.state = "Idle"
          /\ DOMAIN r1.commitments = Key
          /\ Cardinality(DOMAIN r1.shares) = Cardinality(Key)
          /\ res.round.secret = compute_secrets(r1)

\* What a sequence with a message appended holds.
LEMMA AppendOne ==
    ASSUME NEW q, IsSeq(q), NEW m
    PROVE  \A i \in DOMAIN Append(q, m) :
              (i \in DOMAIN q /\ Append(q, m)[i] = q[i]) \/ Append(q, m)[i] = m
<1>1. /\ DOMAIN Append(q, m) = 1..(Len(q) + 1)
      /\ \A i \in 1..Len(q) : Append(q, m)[i] = q[i]
      /\ Append(q, m)[Len(q) + 1] = m
  BY AppendIsSeq
<1>2. DOMAIN q = 1..Len(q) /\ Len(q) \in Nat
  BY SeqFacts
<1>3. \A i \in 1..(Len(q) + 1) : i \in 1..Len(q) \/ i = Len(q) + 1
  BY <1>2
<1> QED
  BY <1>1, <1>2, <1>3, Zenon

\* PhaseEnd touches nothing but the state and the secret, and adds at most an end.
LEMMA PhaseEndCloses ==
    ASSUME NEW s, NEW r1, IsRound(r1), NEW q, IsSeq(q)
    PROVE  Closes(s, r1, q, PhaseEnd(s, Ok(r1, q)))
<1>0. PICK res : res = PhaseEnd(s, Ok(r1, q))
  OBVIOUS
<1> SUFFICES Closes(s, r1, q, res)
  BY <1>0
<1>1. CASE res = Ok(r1, q)
  BY <1>1 DEF Ok, Closes
<1>2. CASE /\ r1.state = "DkgPublicGather" /\ DOMAIN r1.commitments = Key
           /\ res = Ok([r1 EXCEPT !.state = "DkgPrivateDistribute"],
                       Append(q, dkg_public_ended(s, r1)))
  <2> DEFINE m == dkg_public_ended(s, r1)
  <2>1. m.type = "DkgPublicEnd"
    BY DEF dkg_public_ended, End
  <2>2. res.round = [r1 EXCEPT !.state = "DkgPrivateDistribute"] /\ res.out = Append(q, m)
    BY <1>2 DEF Ok
  <2> HIDE DEF m
  <2>3. \A i \in DOMAIN res.out : \/ i \in DOMAIN q /\ res.out[i] = q[i]
                                  \/ res.out[i].type \in {"DkgPublicEnd", "DkgEnd"}
    BY <2>1, <2>2, AppendOne
  <2> QED
    BY <1>2, <2>2, <2>3 DEF Closes, IsRound
<1>3. CASE /\ r1.state = "DkgPrivateGather"
           /\ DOMAIN r1.commitments = Key
           /\ Cardinality(DOMAIN r1.shares) = Cardinality(Key)
           /\ res = Ok([r1 EXCEPT !.state = "Idle", !.secret = compute_secrets(r1)],
                       Append(q, dkg_ended(s, r1)))
  <2> DEFINE m == dkg_ended(s, r1)
  <2>1. m.type = "DkgEnd"
    BY DEF dkg_ended, End
  <2>2. /\ res.round = [r1 EXCEPT !.state = "Idle", !.secret = compute_secrets(r1)]
        /\ res.out = Append(q, m)
    BY <1>3 DEF Ok
  <2> HIDE DEF m
  <2>3. \A i \in DOMAIN res.out : \/ i \in DOMAIN q /\ res.out[i] = q[i]
                                  \/ res.out[i].type \in {"DkgPublicEnd", "DkgEnd"}
    BY <2>1, <2>2, AppendOne
  <2> QED
    BY <1>3, <2>2, <2>3 DEF Closes, IsRound
<1> QED
  BY <1>0, <1>1, <1>2, <1>3, PhaseEndCases, Zenon

\* What a handler other than dkg_begin makes of round r, and the messages q that
\* it posts: private shares of the draw, or an answer.
Handled(s, r, m, r1, q) ==
    /\ IsRound(r1) /\ IsSeq(q) /\ r1.poly = r.poly /\ r1.secret = r.secret
    /\ \/ r1.commitments = r.commitments
       \/ /\ m.type = "DkgPublicShare"
          /\ r1.commitments = Insert(r.commitments, m.party_id, m.public_share)
    /\ \/ r1.shares = r.shares
       \/ /\ m.type = "DkgPrivateShares"
          /\ r1.shares = Insert(r.shares, m.key_id, m.private_shares)
    /\ \/ r1.state = r.state
       \/ r.state = "DkgPrivateDistribute" /\ r1.state = "DkgPrivateGather"
    /\ \A i \in DOMAIN q :
          \/ q[i].type \in FromSigner
          \/ /\ m.type = "DkgPrivateBegin" /\ q[i].type = "DkgPrivateShares"
             /\ q[i].private_shares = r.poly
             /\ \E k \in Key : KeyOf(s, k) /\ q[i].key_id = ZeroBased(k)

\* Every message but DkgBegin is handled so.
LEMMA HandledMessage ==
    ASSUME NEW s \in Signer, NEW r, IsRound(r), NEW m, IsMessage(m), m.type # "DkgBegin",
           NEW ph, m.type \in FromCoordinator => Opens(ph, m) /\ Due(ph, r.state)
    PROVE  \E r1, q : Handled(s, r, m, r1, q) /\ process(s, r, m) = PhaseEnd(s, Ok(r1, q))
<1>1. CASE m.type = "DkgPrivateBegin"
  <2>0. r.state = "DkgPrivateDistribute"
    BY <1>1 DEF FromCoordinator, Opens, Due
  <2> DEFINE r1 == [r EXCEPT !.state = "DkgPrivateGather"]
             q == [i \in DOMAIN KeyIds[s] |->
                     [type |-> "DkgPrivateShares", dkg_id |-> r.dkg_id,
                      key_id |-> ZeroBased(KeyIds[s][i]), private_shares |-> r.poly]]
  <2>1. dkg_private_begin(s, r) = Ok(r1, q)
    BY <2>0 DEF dkg_private_begin, CanMoveTo
  <2>2. IsRound(r1) /\ IsSeq(q)
    <3>1. Result(s, Ok(r1, q), r.nonce)
      BY <2>1, DkgPrivateBeginResult
    <3> QED
      BY <3>1 DEF Result, OwnSeq, Ok
  <2>3. \A i \in DOMAIN q :
          /\ q[i].type = "DkgPrivateShares" /\ q[i].private_shares = r.poly
          /\ \E k \in Key : KeyOf(s, k) /\ q[i].key_id = ZeroBased(k)
    BY FrostAssumption DEF KeyOf
  <2>4. /\ r1.poly = r.poly /\ r1.secret = r.secret /\ r1.commitments = r.commitments
        /\ r1.shares = r.shares /\ r1.state = "DkgPrivateGather"
    BY DEF IsRound
  <2> HIDE DEF r1, q
  <2>5. Handled(s, r, m, r1, q)
    BY <1>1, <2>0, <2>2, <2>3, <2>4 DEF Handled
  <2>6. process(s, r, m) = PhaseEnd(s, Ok(r1, q))
    BY <1>1, <2>1 DEF process, Handle
  <2> QED
    BY <2>5, <2>6
<1>2. CASE m.type = "NonceRequest"
  <2> DEFINE r1 == [r EXCEPT !.nonce = @ + 1]
             a == [type |-> "NonceResponse", dkg_id |-> m.dkg_id, signer_id |-> s,
                   nonces |-> r.nonce + 1]
  <2>1. process(s, r, m) = PhaseEnd(s, Ok(r1, <<a>>))
    BY <1>2 DEF process, Handle, nonce_request
  <2>2. /\ IsRound(r1) /\ r1.poly = r.poly /\ r1.secret = r.secret
        /\ r1.commitments = r.commitments /\ r1.shares = r.shares /\ r1.state = r.state
        /\ a.type \in FromSigner
    BY DEF IsRound, FromSigner
  <2> HIDE DEF r1, a
  <2>3. Handled(s, r, m, r1, <<a>>)
    BY <2>2, OneIsSeq DEF Handled
  <2> QED
    BY <2>1, <2>3
<1>3. CASE m.type = "SignShareRequest"
  <2> DEFINE a == [type |-> "SignShareResponse", dkg_id |-> m.dkg_id,
                   signer_id |-> s, signature_shares |-> Share(r, m)]
  <2>1. s \in DOMAIN m.nonce_responses
    BY <1>3 DEF FromCoordinator, Opens
  <2>2. process(s, r, m) = PhaseEnd(s, Ok(r, <<a>>))
    BY <1>3, <2>1 DEF process, Handle, sign_share_request
  <2>3. a.type \in FromSigner
    BY DEF FromSigner
  <2> HIDE DEF a
  <2>4. Handled(s, r, m, r, <<a>>)
    BY <2>3, OneIsSeq DEF Handled
  <2> QED
    BY <2>2, <2>4
<1>4. CASE m.type \notin FromCoordinator
  <2>1. PICK r1 : Stored(r, m, r1) /\ process(s, r, m) = PhaseEnd(s, Ok(r1, << >>))
    BY <1>4, OtherMessage, Zenon
  <2>2. Handled(s, r, m, r1, << >>)
    BY <2>1, EmptyIsSeq DEF Stored, Handled
  <2> QED
    BY <2>1, <2>2
<1> QED
  BY <1>1, <1>2, <1>3, <1>4 DEF FromCoordinator

\* dkg_begin draws anew, forgets the shares of the last round and posts the
\* public shares of the new draw.
LEMMA BegunRound ==
    ASSUME NEW s \in Signer, NEW r, IsRound(r), NEW m, IsMessage(m), m.type = "DkgBegin",
           r.state \in {"Idle", "DkgPrivateDistribute"}, NEW res, res = process(s, r, m)
    PROVE  /\ res.round.state = "DkgPublicGather" /\ res.round.poly \in Nat
           /\ res.round.commitments = Empty /\ res.round.shares = Empty
           /\ DOMAIN res.out = DOMAIN KeyIds[s]
           /\ \A i \in DOMAIN res.out : PublicShare(res.out[i], KeyIds[s][i], res.round.poly)
<1> DEFINE r1 == [reset(r, m.dkg_id) EXCEPT !.state = "DkgPublicGather"]
           q == [i \in DOMAIN KeyIds[s] |->
                    [type |-> "DkgPublicShare", dkg_id |-> r1.dkg_id,
                     party_id |-> KeyIds[s][i], public_share |-> r1.poly]]
<1>1. process(s, r, m) = PhaseEnd(s, Ok(r1, q))
  BY DEF process, Handle, dkg_begin, CanMoveTo
<1>2. /\ r1.state = "DkgPublicGather" /\ r1.commitments = Empty /\ r1.shares = Empty
      /\ r1.poly \in Nat
  BY DEF reset, IsRound
<1>3. DOMAIN q = DOMAIN KeyIds[s] /\ \A i \in DOMAIN q : PublicShare(q[i], KeyIds[s][i], r1.poly)
  BY DEF PublicShare
<1> HIDE DEF r1, q
<1>4. DOMAIN r1.commitments # Key
  BY <1>2, FrostAssumption DEF Empty
<1>5. res = Ok(r1, q)
  BY <1>1, <1>2, <1>4, PhaseEndCases
<1>6. res.round = r1 /\ res.out = q
  BY <1>5 DEF Ok
<1> QED
  BY <1>2, <1>3, <1>6

-----------------------------------------------------------------------------
(* A signer's step and the key *)

\* What a signer does when it takes message m.
LEMMA TakeMoves ==
    ASSUME KeysDisjoint, Inv, NEW s \in Signer, NEW p, SignerProcess(s, p),
           UNCHANGED coordVars, NoFault',
           NEW m, m = log[p].msg, NEW res, res = process(s, round[s], m)
    PROVE  /\ p = pos[s] + 1 /\ p > pos[s] /\ p \in DOMAIN log /\ log' = log
           /\ outbox[s] = << >> /\ pos'[COORDINATOR] = pos[COORDINATOR]
           /\ IsMessage(m) /\ Own(log[p].sig, m) /\ IsRound(round[s]) /\ IsRound(res.round)
           /\ outbox'[COORDINATOR] = outbox[COORDINATOR]
           /\ outbox'[s] = res.out /\ round'[s] = res.round
           /\ \A t \in Signer : t # s => outbox'[t] = outbox[t] /\ round'[t] = round[t]
           /\ \A t \in Signer : /\ Asks(t)' = IF s = t THEN Asks(t) \ {p} ELSE Asks(t)
                                /\ Replies(t)' = Replies(t)
<1>1. Receive(s, p, {}) /\ s \in Node
  BY DEF SignerProcess, Node
<1>2. /\ p = pos[s] + 1 /\ p \in DOMAIN log /\ outbox[s] = << >>
      /\ log' = log /\ pos' = [pos EXCEPT ![s] = p]
  BY <1>1, ReceiveInTurn
<1>3. verify_msg(log[p])
  BY <1>2, Verifies
<1>4. /\ round' = [round EXCEPT ![s] = res.round]
      /\ outbox' = [outbox EXCEPT ![s] = res.out]
  BY <1>3 DEF SignerProcess
<1>5. IsMessage(m) /\ Own(log[p].sig, m) /\ IsRound(round[s])
  BY <1>2 DEF Inv, NetInv, LogInv, SignerInv
<1>6. IsRound(res.round)
  BY <1>5, ProcessResult DEF Result
<1>7. /\ DOMAIN outbox = Node /\ DOMAIN round = Signer
      /\ COORDINATOR \in Node /\ s # COORDINATOR /\ Signer \subseteq Node
      /\ pos[s] \in Nat /\ pos \in [Node -> Nat]
  BY FrostAssumption DEF Inv, NetInv, OutboxInv, PosInv, SignerInv, Node
<1>8. ASSUME NEW t \in Signer
      PROVE  /\ Asks(t)' = IF s = t THEN Asks(t) \ {p} ELSE Asks(t)
             /\ Replies(t)' = Replies(t)
  <2>1. /\ Asks(t)' = IF s = t THEN Asks(t) \ {p} ELSE Asks(t)
        /\ Replies(t)' = IF s = COORDINATOR THEN Replies(t) \ {p} ELSE Replies(t)
    BY <1>1, <1>2, ReadUnread
  <2> QED
    BY <1>7, <2>1
<1>9. p > pos[s]
  BY <1>2, <1>7
<1>10. pos'[COORDINATOR] = pos[COORDINATOR]
  BY <1>2, <1>7
<1>11. /\ outbox'[COORDINATOR] = outbox[COORDINATOR]
       /\ outbox'[s] = res.out /\ round'[s] = res.round
       /\ \A t \in Signer : t # s => outbox'[t] = outbox[t] /\ round'[t] = round[t]
  BY <1>4, <1>7
<1> QED
  BY <1>2, <1>5, <1>6, <1>8, <1>9, <1>10, <1>11

\* A request reaches a signer that is due.
LEMMA TakesRequest ==
    ASSUME Lockstep, NEW s \in Signer, NEW p \in Asks(s)
    PROVE  /\ Opens(phase, log[p].msg) /\ Due(phase, round[s].state) /\ s \in Waited
           /\ Asks(s) = {p} /\ outbox[COORDINATOR] = << >> /\ Replies(s) = {}
<1>1. Asked(s)
  BY DEF Lockstep, Stages, Stage, Working, Answered, Finished, Quiet
<1>2. Opens(phase, log[p].msg)
  BY DEF Lockstep, RequestsFit
<1> QED
  BY <1>1, <1>2 DEF Asked

\* The parts of the invariant that a signer's step does not touch, given that it
\* leaves the draws of others alone, and its own unless it had none.
LEMMA TakeFrame ==
    ASSUME KeysDisjoint, Inv, Lockstep, KeyInv, NEW s \in Signer, NEW p, SignerProcess(s, p),
           UNCHANGED coordVars, NoFault',
           round'[s].poly = round[s].poly \/ ~Fresh(s),
           \A t \in Signer : Fresh(t) => Fresh(t)'
    PROVE  /\ \A k \in Key, v \in Nat : Drawn(k, v) => Drawn(k, v)'
           /\ LogDrawn' /\ SharesDrawn' /\ UnreadDrawn' /\ DkgOutcome'
           /\ \A k \in Key : Fresh(Owner(k)) /\ Covered(k) => Covered(k)'
<1>1. /\ log' = log /\ outbox[s] = << >> /\ pos'[COORDINATOR] = pos[COORDINATOR]
      /\ outbox'[COORDINATOR] = outbox[COORDINATOR]
      /\ \A t \in Signer : t # s => outbox'[t] = outbox[t] /\ round'[t] = round[t]
      /\ \A t \in Signer : Replies(t)' = Replies(t)
  BY TakeMoves
<1>2. /\ phase' = phase /\ awaiting' = awaiting /\ dkg_public_shares' = dkg_public_shares
      /\ aggregate_public_key' = aggregate_public_key /\ outcome' = outcome
  BY DEF coordVars
<1>3. ASSUME NEW k \in Key, Fresh(Owner(k))
      PROVE  Poly(k)' = Poly(k) /\ Fresh(Owner(k))'
  <2>1. Owner(k) \in Signer /\ Owner(k)' = Owner(k)
    BY OwnerFacts DEF Owner, public_keys
  <2>2. round'[Owner(k)].poly = round[Owner(k)].poly
    BY <1>1, <1>3, <2>1
  <2>3. \A t \in Signer : Fresh(t) => Fresh(t)'
    OBVIOUS
  <2>4. Fresh(Owner(k))'
    BY <1>3, <2>1, <2>3 DEF Fresh, Asks
  <2> QED
    BY <2>1, <2>2, <2>4 DEF Poly
<1>4. \A k \in Key : \A v : Drawn(k, v) => Drawn(k, v)'
  BY <1>3 DEF Drawn
<1>5. \A q : Current(q)' => Current(q)
  BY <1>1, <1>2 DEF Current
<1>6. LogDrawn'
  <2>1. \A q \in DOMAIN log, k \in Key, v \in Nat :
           AnyShare(log[q].msg, k, v) /\ Current(q)' => Drawn(k, v)'
    BY <1>4, <1>5 DEF KeyInv, LogDrawn
  <2> QED
    BY <1>1, <2>1 DEF LogDrawn, AnyShare, PublicShare, ZeroBased
<1>7. SharesDrawn'
  <2>1. DOMAIN dkg_public_shares \subseteq Key
    BY DEF Inv, CoordInv, IsMap
  <2>2. \A k \in DOMAIN dkg_public_shares : Drawn(k, dkg_public_shares[k])
    BY DEF KeyInv, SharesDrawn
  <2>3. \A k \in DOMAIN dkg_public_shares : Fresh(Owner(k))' /\ dkg_public_shares[k] = Poly(k)'
    BY <1>3, <2>1, <2>2 DEF Drawn
  <2> QED
    BY <1>2, <2>3 DEF SharesDrawn, Drawn
<1>8. UnreadDrawn'
  <2>1. \A k \in Key : Owner(k)' = Owner(k) /\ Owner(k) \in Signer
    BY OwnerFacts DEF Owner, public_keys
  <2>2. \A k \in Key : Replies(Owner(k))' = Replies(Owner(k))
    BY <1>1, <2>1 DEF Replies, Owner, public_keys
  <2>3. \A q \in DOMAIN log, k \in Key, v \in Nat :
           q > pos[COORDINATOR] /\ PublicShare(log[q].msg, k, v) =>
            /\ phase = "public_shares" /\ Owner(k) \in awaiting /\ Drawn(k, v)'
            /\ \A i \in Replies(Owner(k))' : q < i
    BY <1>4, <2>2 DEF KeyInv, UnreadDrawn
  <2> QED
    BY <1>1, <1>2, <2>1, <2>3 DEF UnreadDrawn, PublicShare
<1>9. ASSUME NEW k \in Key, Fresh(Owner(k)), Covered(k)
      PROVE  Covered(k)'
  <2>1. Owner(k) \in Signer /\ Owner(k)' = Owner(k) /\ Poly(k)' = Poly(k)
    BY <1>3, <1>9, OwnerFacts DEF Owner, public_keys
  <2>2. CASE k \in DOMAIN dkg_public_shares
    BY <1>2, <2>2 DEF Covered
  <2>3. CASE \E q \in DOMAIN log : q > pos[COORDINATOR] /\ PublicShare(log[q].msg, k, Poly(k))
    BY <1>1, <2>1, <2>3 DEF Covered, PublicShare
  <2>4. CASE \E i \in DOMAIN outbox[Owner(k)] : PublicShare(outbox[Owner(k)][i], k, Poly(k))
    <3>1. Owner(k) # s
      BY <1>1, <2>4
    <3> QED
      BY <1>1, <2>1, <2>4, <3>1 DEF Covered, PublicShare
  <2> QED
    BY <1>9, <2>2, <2>3, <2>4 DEF Covered
<1>10. DkgOutcome'
  BY <1>2 DEF KeyInv, DkgOutcome
<1> QED
  BY <1>4, <1>6, <1>7, <1>8, <1>9, <1>10

\* dkg_begin.
LEMMA BeginKeys ==
    ASSUME KeysDisjoint, Inv, Lockstep, KeyInv, NEW s \in Signer, NEW p, SignerProcess(s, p),
           UNCHANGED coordVars, NoFault', log[p].msg.type = "DkgBegin"
    PROVE  KeyInv'
<1>0. PICK m, res : m = log[p].msg /\ res = process(s, round[s], m)
  OBVIOUS
<1>1. /\ p > pos[s] /\ p \in DOMAIN log /\ log' = log /\ outbox[s] = << >>
      /\ IsMessage(m) /\ IsRound(round[s])
      /\ outbox'[COORDINATOR] = outbox[COORDINATOR]
      /\ outbox'[s] = res.out /\ round'[s] = res.round
      /\ \A t \in Signer : t # s => outbox'[t] = outbox[t] /\ round'[t] = round[t]
      /\ \A t \in Signer : Asks(t)' = IF s = t THEN Asks(t) \ {p} ELSE Asks(t)
  BY <1>0, TakeMoves
<1>2. p \in Asks(s)
  BY <1>1 DEF Asks, FromCoordinator
<1>3. /\ Opens(phase, m) /\ Due(phase, round[s].state)
      /\ Asks(s) = {p} /\ outbox[COORDINATOR] = << >>
  BY <1>0, <1>2, TakesRequest
<1>4. phase = "public_shares" /\ phase' = phase
  BY <1>0, <1>3 DEF Opens, coordVars
<1>5. round[s].state \in {"Idle", "DkgPrivateDistribute"}
  BY <1>3, <1>4 DEF Due
<1>6. /\ res.round.state = "DkgPublicGather" /\ res.round.poly \in Nat
      /\ res.round.commitments = Empty /\ res.round.shares = Empty
      /\ DOMAIN res.out = DOMAIN KeyIds[s]
      /\ \A i \in DOMAIN res.out : PublicShare(res.out[i], KeyIds[s][i], res.round.poly)
  BY <1>0, <1>1, <1>5, BegunRound
<1>7. ~Fresh(s) /\ Fresh(s)'
  BY <1>1, <1>3, <1>4 DEF Fresh
<1>8. \A t \in Signer : t # s => (Fresh(t)' <=> Fresh(t))
  BY <1>1, <1>4 DEF Fresh
<1>9. /\ \A k \in Key, v \in Nat : Drawn(k, v) => Drawn(k, v)'
      /\ LogDrawn' /\ SharesDrawn' /\ UnreadDrawn' /\ DkgOutcome'
      /\ \A k \in Key : Fresh(Owner(k)) /\ Covered(k) => Covered(k)'
  BY <1>7, <1>8, TakeFrame
<1>10. \A k \in Key : /\ Owner(k) \in Signer /\ Owner(k)' = Owner(k) /\ KeyOf(Owner(k), k)
                      /\ KeyOf(s, k) => Owner(k) = s
  BY OwnerFacts DEF Owner, public_keys
<1>11. \A k \in Key : Owner(k) = s => Fresh(Owner(k))' /\ Poly(k)' = res.round.poly
  BY <1>1, <1>7, <1>10 DEF Poly, Fresh, Asks
<1>12. OutboxDrawn'
  <2>1. ASSUME NEW i \in DOMAIN res.out
        PROVE  /\ \A k \in Key, v \in Nat : AnyShare(res.out[i], k, v) => Drawn(k, v)'
               /\ res.out[i].type = "DkgPublicShare"
    <3>1. PublicShare(res.out[i], KeyIds[s][i], res.round.poly) /\ i \in DOMAIN KeyIds[s]
      BY <1>6
    <3>2. \A k, v : AnyShare(res.out[i], k, v) => k = KeyIds[s][i] /\ v = res.round.poly
      BY <3>1 DEF AnyShare, PublicShare
    <3>3. \A k \in Key : k = KeyIds[s][i] => Owner(k) = s
      BY <1>10, <3>1 DEF KeyOf
    <3> QED
      BY <1>11, <3>1, <3>2, <3>3 DEF Drawn, PublicShare
  <2>2. ASSUME NEW t \in Signer, NEW i \in DOMAIN outbox'[t]
        PROVE  /\ \A k \in Key, v \in Nat : AnyShare(outbox'[t][i], k, v) => Drawn(k, v)'
               /\ outbox'[t][i].type = "DkgPublicShare" => phase' = "public_shares"
    <3>1. CASE t = s
      BY <1>1, <1>4, <2>1, <2>2, <3>1
    <3>2. CASE t # s
      BY <1>1, <1>4, <1>9, <2>2, <3>2 DEF KeyInv, OutboxDrawn
    <3> QED
      BY <3>1, <3>2
  <2> QED
    BY <2>2 DEF OutboxDrawn, AnyShare, PublicShare, ZeroBased
<1>13. RoundsDrawn'
  <2>1. RoundDrawn(s)'
    BY <1>1, <1>6 DEF RoundDrawn, Empty
  <2>2. ASSUME NEW t \in Signer, t # s PROVE RoundDrawn(t)'
    <3>1. IsRound(round[t]) /\ round'[t] = round[t]
      BY <1>1, <2>2 DEF Inv, SignerInv
    <3>2. /\ \A k \in DOMAIN round[t].commitments : k \in Key /\ round[t].commitments[k] \in Nat
          /\ \A i \in DOMAIN round[t].shares : round[t].shares[i] \in Nat
      BY <3>1 DEF IsRound, IsMap
    <3>3. Fresh(t) =>
            /\ \A k \in DOMAIN round[t].commitments : Drawn(k, round[t].commitments[k])
            /\ \A k \in Key : ZeroBased(k) \in DOMAIN round[t].shares =>
                   Drawn(k, round[t].shares[ZeroBased(k)])
      BY DEF KeyInv, RoundsDrawn, RoundDrawn
    <3>4. ASSUME Fresh(t)
          PROVE  /\ \A k \in DOMAIN round[t].commitments :
                       Fresh(Owner(k))' /\ round[t].commitments[k] = Poly(k)'
                 /\ \A k \in Key : ZeroBased(k) \in DOMAIN round[t].shares =>
                       Fresh(Owner(k))' /\ round[t].shares[ZeroBased(k)] = Poly(k)'
      BY <1>9, <3>2, <3>3, <3>4 DEF Drawn
    <3> QED
      BY <1>8, <2>2, <3>1, <3>4 DEF RoundDrawn, Drawn, ZeroBased
  <2> QED
    BY <2>1, <2>2 DEF RoundsDrawn
<1>14. Coverage'
  <2>1. ASSUME NEW k \in Key, Fresh(Owner(k))' PROVE Covered(k)'
    <3>1. CASE Owner(k) = s
      <4>1. PICK i \in DOMAIN KeyIds[s] : KeyIds[s][i] = k
        BY <1>10, <3>1 DEF KeyOf
      <4>2. i \in DOMAIN outbox'[s] /\ PublicShare(outbox'[s][i], k, Poly(k)')
        BY <1>1, <1>6, <1>11, <3>1, <4>1
      <4> QED
        BY <1>10, <3>1, <4>2 DEF Covered, PublicShare
    <3>2. CASE Owner(k) # s
      <4>1. Fresh(Owner(k))
        BY <1>1, <1>4, <1>10, <2>1, <3>2 DEF Fresh, Asks
      <4>2. Covered(k)
        BY <1>4, <4>1 DEF KeyInv, Coverage
      <4> QED
        BY <1>9, <4>1, <4>2
    <3> QED
      BY <3>1, <3>2
  <2> QED
    BY <2>1 DEF Coverage
<1>15. Committed'
  BY <1>1, <1>6 DEF KeyInv, Committed
<1>16. KeyOnEnd' /\ KeyAfter'
  BY <1>4 DEF KeyOnEnd, KeyAfter
<1> QED
  BY <1>9, <1>12, <1>13, <1>14, <1>15, <1>16 DEF KeyInv

\* Every other message.
LEMMA ProcessKeys ==
    ASSUME KeysDisjoint, Inv, Lockstep, KeyInv, NEW s \in Signer, NEW p, SignerProcess(s, p),
           UNCHANGED coordVars, NoFault', log[p].msg.type # "DkgBegin"
    PROVE  KeyInv'
<1>0. PICK m, res : m = log[p].msg /\ res = process(s, round[s], m)
  OBVIOUS
<1>1. /\ p > pos[s] /\ p = pos[s] + 1 /\ p \in DOMAIN log /\ log' = log /\ outbox[s] = << >>
      /\ IsMessage(m) /\ IsRound(round[s]) /\ IsRound(res.round)
      /\ outbox'[COORDINATOR] = outbox[COORDINATOR]
      /\ outbox'[s] = res.out /\ round'[s] = res.round
      /\ \A t \in Signer : t # s => outbox'[t] = outbox[t] /\ round'[t] = round[t]
      /\ \A t \in Signer : Asks(t)' = IF s = t THEN Asks(t) \ {p} ELSE Asks(t)
  BY <1>0, TakeMoves
<1>2. /\ phase' = phase /\ aggregate_public_key' = aggregate_public_key
      /\ dkg_public_shares' = dkg_public_shares
  BY DEF coordVars
<1>3. m.type \in FromCoordinator =>
        /\ Opens(phase, m) /\ Due(phase, round[s].state) /\ phase # "public_shares"
  <2>1. m.type \in FromCoordinator => p \in Asks(s)
    BY <1>0, <1>1 DEF Asks
  <2>2. m.type \in FromCoordinator => Opens(phase, m) /\ Due(phase, round[s].state)
    BY <1>0, <2>1, TakesRequest
  <2> QED
    BY <1>0, <2>2 DEF Opens
<1>4. PICK r1, q : Handled(s, round[s], m, r1, q) /\ res = PhaseEnd(s, Ok(r1, q))
  <2>1. \E r1, q : /\ Handled(s, round[s], m, r1, q)
                   /\ process(s, round[s], m) = PhaseEnd(s, Ok(r1, q))
    BY <1>0, <1>1, <1>3, HandledMessage
  <2> QED
    BY <1>0, <2>1
<1>5. Closes(s, r1, q, res)
  BY <1>4, PhaseEndCloses DEF Handled
<1>6. res.round.poly = round[s].poly
  BY <1>4, <1>5 DEF Handled, Closes
<1>7. \A t \in Signer : Fresh(t)' <=> Fresh(t)
  <2>1. phase = "public_shares" => p \notin Asks(s)
    BY <1>0, <1>3 DEF Asks
  <2> QED
    BY <1>1, <1>2, <2>1 DEF Fresh
<1>8. /\ \A k \in Key, v \in Nat : Drawn(k, v) => Drawn(k, v)'
      /\ LogDrawn' /\ SharesDrawn' /\ UnreadDrawn' /\ DkgOutcome'
      /\ \A k \in Key : Fresh(Owner(k)) /\ Covered(k) => Covered(k)'
  BY <1>1, <1>6, <1>7, TakeFrame
<1>9. \A k \in Key : /\ Owner(k) \in Signer /\ Owner(k)' = Owner(k)
                     /\ KeyOf(s, k) => Owner(k) = s
  BY OwnerFacts DEF Owner, public_keys
<1>10. \A k \in Key : Poly(k)' = Poly(k)
  BY <1>1, <1>6, <1>9 DEF Poly
<1>11. KeyMap' = KeyMap
  BY <1>10 DEF KeyMap
<1>12. OutboxDrawn'
  <2>1. ASSUME NEW i \in DOMAIN res.out
        PROVE  /\ \A k \in Key, v \in Nat : AnyShare(res.out[i], k, v) => Drawn(k, v)'
               /\ res.out[i].type # "DkgPublicShare"
    <3>1. CASE res.out[i].type \in FromSigner
      BY <3>1 DEF FromSigner, AnyShare, PublicShare
    <3>2. CASE res.out[i].type \notin FromSigner
      <4>1. i \in DOMAIN q /\ res.out[i] = q[i]
        BY <1>5, <3>2 DEF Closes, FromSigner
      <4>2. /\ m.type = "DkgPrivateBegin" /\ q[i].type = "DkgPrivateShares"
            /\ q[i].private_shares = round[s].poly
            /\ \E k \in Key : KeyOf(s, k) /\ q[i].key_id = ZeroBased(k)
        BY <1>4, <3>2, <4>1 DEF Handled
      <4>3. PICK j \in Key : KeyOf(s, j) /\ q[i].key_id = ZeroBased(j)
        BY <4>2
      <4>4. \A k, v : AnyShare(q[i], k, v) => k = j /\ v = round[s].poly
        BY <4>2, <4>3 DEF AnyShare, PublicShare, ZeroBased
      <4>5. phase # "public_shares"
        BY <1>3, <4>2 DEF FromCoordinator
      <4>6. Fresh(Owner(j)) /\ Poly(j) = round[s].poly
        BY <1>9, <4>3, <4>5 DEF Fresh, Poly
      <4>7. PICK w \in Nat : w = round[s].poly
        BY <1>1 DEF IsRound
      <4>8. Drawn(j, w)'
        BY <1>8, <4>6, <4>7 DEF Drawn
      <4> QED
        BY <4>1, <4>2, <4>4, <4>7, <4>8
    <3> QED
      BY <3>1, <3>2
  <2>2. ASSUME NEW t \in Signer, NEW i \in DOMAIN outbox'[t]
        PROVE  /\ \A k \in Key, v \in Nat : AnyShare(outbox'[t][i], k, v) => Drawn(k, v)'
               /\ outbox'[t][i].type = "DkgPublicShare" => phase' = "public_shares"
    <3>1. CASE t = s
      BY <1>1, <2>1, <2>2, <3>1
    <3>2. CASE t # s
      BY <1>1, <1>2, <1>8, <2>2, <3>2 DEF KeyInv, OutboxDrawn
    <3> QED
      BY <3>1, <3>2
  <2> QED
    BY <2>2 DEF OutboxDrawn, AnyShare, PublicShare, ZeroBased
<1>13. ASSUME NEW k \in Key, NEW v \in Nat, Fresh(s), AnyShare(m, k, v)
       PROVE  Drawn(k, v)
  <2>1. ASSUME NEW i \in DOMAIN log, i > p PROVE log[i].msg.type # "DkgBegin"
    <3>1. i > pos[s]
      BY <1>1, <2>1, SeqFacts DEF Inv, NetInv, LogInv, PosInv, Node
    <3>2. CASE log[i].msg.type = "DkgBegin"
      <4>1. i \in Asks(s)
        BY <3>1, <3>2 DEF Asks, FromCoordinator
      <4>2. Opens(phase, log[i].msg)
        BY <4>1, TakesRequest
      <4>3. phase = "public_shares"
        BY <3>2, <4>2 DEF Opens
      <4> QED
        BY <1>13, <4>1, <4>3 DEF Fresh
    <3> QED
      BY <3>2
  <2>2. Current(p)
    BY <1>13, <2>1 DEF Current, Fresh
  <2> QED
    BY <1>0, <1>1, <1>13, <2>2 DEF KeyInv, LogDrawn
<1>14. ASSUME Fresh(s)
       PROVE  /\ \A k \in DOMAIN r1.commitments : k \in Key /\ Drawn(k, r1.commitments[k])
              /\ \A k \in Key : ZeroBased(k) \in DOMAIN r1.shares =>
                     Drawn(k, r1.shares[ZeroBased(k)])
  <2>1. /\ \A k \in DOMAIN round[s].commitments : Drawn(k, round[s].commitments[k])
        /\ \A k \in Key : ZeroBased(k) \in DOMAIN round[s].shares =>
               Drawn(k, round[s].shares[ZeroBased(k)])
    BY <1>14 DEF KeyInv, RoundsDrawn, RoundDrawn
  <2>2. IsRound(r1) /\ DOMAIN r1.commitments \subseteq Key
    BY <1>4 DEF Handled, IsRound, IsMap
  <2>3. ASSUME NEW k \in DOMAIN r1.commitments PROVE Drawn(k, r1.commitments[k])
    <3>1. CASE r1.commitments = round[s].commitments
      BY <2>1, <2>3, <3>1
    <3>2. CASE /\ m.type = "DkgPublicShare"
               /\ r1.commitments = Insert(round[s].commitments, m.party_id, m.public_share)
      <4>1. CASE k = m.party_id
        <5>1. r1.commitments[k] = m.public_share /\ m.public_share \in Nat /\ k \in Key
          BY <1>1, <2>2, <2>3, <3>2, <4>1 DEF Insert, IsMessage
        <5>2. AnyShare(m, k, m.public_share)
          BY <3>2, <4>1 DEF AnyShare, PublicShare
        <5> QED
          BY <1>13, <1>14, <5>1, <5>2
      <4>2. CASE k # m.party_id
        <5>1. k \in DOMAIN round[s].commitments /\ r1.commitments[k] = round[s].commitments[k]
          BY <2>3, <3>2, <4>2 DEF Insert
        <5> QED
          BY <2>1, <5>1
      <4> QED
        BY <4>1, <4>2
    <3> QED
      BY <1>4, <3>1, <3>2 DEF Handled
  <2>4. ASSUME NEW k \in Key, ZeroBased(k) \in DOMAIN r1.shares
        PROVE  Drawn(k, r1.shares[ZeroBased(k)])
    <3>1. CASE r1.shares = round[s].shares
      BY <2>1, <2>4, <3>1
    <3>2. CASE /\ m.type = "DkgPrivateShares"
               /\ r1.shares = Insert(round[s].shares, m.key_id, m.private_shares)
      <4>1. CASE ZeroBased(k) = m.key_id
        <5>1. r1.shares[ZeroBased(k)] = m.private_shares /\ m.private_shares \in Nat
          BY <1>1, <2>4, <3>2, <4>1 DEF Insert, IsMessage
        <5>2. AnyShare(m, k, m.private_shares)
          BY <3>2, <4>1 DEF AnyShare
        <5> QED
          BY <1>13, <1>14, <5>1, <5>2
      <4>2. CASE ZeroBased(k) # m.key_id
        <5>1. /\ ZeroBased(k) \in DOMAIN round[s].shares
              /\ r1.shares[ZeroBased(k)] = round[s].shares[ZeroBased(k)]
          BY <2>4, <3>2, <4>2 DEF Insert
        <5> QED
          BY <2>1, <5>1
      <4> QED
        BY <4>1, <4>2
    <3> QED
      BY <1>4, <3>1, <3>2 DEF Handled
  <2> QED
    BY <2>2, <2>3, <2>4
<1>15. res.round.commitments = r1.commitments /\ res.round.shares = r1.shares
  BY <1>5 DEF Closes
<1>16. RoundsDrawn'
  <2>1. \A k \in Key : \A v : Drawn(k, v) => Fresh(Owner(k))' /\ v = Poly(k)'
    BY <1>7, <1>9, <1>10 DEF Drawn, Fresh, Asks
  <2>2. ASSUME NEW t \in Signer, Fresh(t)
        PROVE  /\ \A k \in DOMAIN round'[t].commitments :
                     Fresh(Owner(k))' /\ round'[t].commitments[k] = Poly(k)'
               /\ \A k \in Key : ZeroBased(k) \in DOMAIN round'[t].shares =>
                     Fresh(Owner(k))' /\ round'[t].shares[ZeroBased(k)] = Poly(k)'
    <3>1. CASE t = s
      BY <1>1, <1>14, <1>15, <2>1, <2>2, <3>1
    <3>2. CASE t # s
      <4>1. round'[t] = round[t] /\ DOMAIN round[t].commitments \subseteq Key
        BY <1>1, <3>2 DEF Inv, SignerInv, IsRound, IsMap
      <4> QED
        BY <2>1, <2>2, <4>1 DEF KeyInv, RoundsDrawn, RoundDrawn
    <3> QED
      BY <3>1, <3>2
  <2> QED
    BY <1>7, <2>2 DEF RoundsDrawn, RoundDrawn, Drawn, ZeroBased
<1>17. Coverage'
  <2>1. \A k \in Key : Fresh(Owner(k))' => Fresh(Owner(k))
    BY <1>7, <1>9 DEF Fresh, Asks
  <2> QED
    BY <1>2, <1>8, <2>1 DEF KeyInv, Coverage
<1>18. Committed'
  <2>1. IsRound(r1)
    BY <1>4 DEF Handled
  <2>2. DOMAIN round[s].commitments = Key => DOMAIN r1.commitments = Key
    BY <1>1, <1>4 DEF Handled, Insert, IsMessage
  <2>3. r1.state \in {"DkgPrivateDistribute", "DkgPrivateGather"} => DOMAIN r1.commitments = Key
    BY <1>4, <2>2 DEF Handled, KeyInv, Committed
  <2>4. res.round.state \in {"DkgPrivateDistribute", "DkgPrivateGather"}
           => DOMAIN res.round.commitments = Key
    BY <1>5, <1>15, <2>3 DEF Closes
  <2> QED
    BY <1>1, <2>4 DEF KeyInv, Committed
<1>19. KeyOnEnd'
  <2> SUFFICES ASSUME phase = "dkg_end"
               PROVE  \A t \in Signer : round'[t].state = "Idle" => round'[t].secret = KeyMap
    BY <1>2, <1>11 DEF KeyInv, KeyOnEnd
  <2>1. Fresh(s)
    BY DEF Fresh
  <2>2. round[s].state = "Idle" => round[s].secret = KeyMap
    BY DEF KeyInv, KeyOnEnd
  <2>3. r1.state = "Idle" => r1.secret = KeyMap
    BY <1>4, <2>2 DEF Handled
  <2>4. CASE /\ DOMAIN r1.commitments = Key
             /\ Cardinality(DOMAIN r1.shares) = Cardinality(Key)
             /\ res.round.secret = compute_secrets(r1)
    <3>1. /\ IsRound(r1) /\ DOMAIN KeyMap = Key /\ KeyMap = [k \in Key |-> KeyMap[k]]
          /\ \A k \in Key : KeyMap[k] = Poly(k)
      BY <1>4 DEF Handled, KeyMap
    <3>2. /\ \A k \in Key : r1.commitments[k] = KeyMap[k]
          /\ \A k \in Key : ZeroBased(k) \in DOMAIN r1.shares =>
                r1.shares[ZeroBased(k)] = KeyMap[k]
      BY <1>14, <2>1, <2>4, <3>1 DEF Drawn
    <3>3. compute_secrets(r1) = KeyMap
      BY <2>4, <3>1, <3>2, ComputeKey
    <3> QED
      BY <1>1, <2>4, <3>3 DEF KeyInv, KeyOnEnd
  <2>5. CASE res.round.state = r1.state /\ res.round.secret = r1.secret
    BY <1>1, <2>3, <2>5 DEF KeyInv, KeyOnEnd
  <2>6. CASE res.round.state # "Idle"
    BY <1>1, <2>6 DEF KeyInv, KeyOnEnd
  <2> QED
    BY <1>5, <2>4, <2>5, <2>6 DEF Closes
<1>20. KeyAfter'
  <2> SUFFICES ASSUME phase \in {"ready", "nonces", "signature_shares"}
               PROVE  res.round.secret = round[s].secret
    BY <1>1, <1>2, <1>11 DEF KeyInv, KeyAfter
  <2>1. round[s].state = "Idle"
    BY DEF Lockstep, Stages, Stage, Asked, Working, Answered, Finished, Due, Gathers, Settled
  <2>2. r1.state = "Idle" /\ r1.secret = round[s].secret
    BY <1>4, <2>1 DEF Handled
  <2> QED
    BY <1>5, <2>2 DEF Closes
<1> QED
  BY <1>8, <1>12, <1>16, <1>17, <1>18, <1>19, <1>20 DEF KeyInv

-----------------------------------------------------------------------------
(* Posts and the key *)

\* A signer posts a message.
LEMMA SignerPostKeys ==
    ASSUME KeysDisjoint, Inv, Lockstep, KeyInv, NEW s \in Signer, PostAnswered(s),
           UNCHANGED signerVars, UNCHANGED coordVars
    PROVE  KeyInv'
<1>0. PICK m, L : m = Head(outbox[s]) /\ L = Len(log) + 1
  OBVIOUS
<1>1. /\ DOMAIN outbox = Node /\ s \in Node /\ COORDINATOR \in Node /\ s # COORDINATOR
      /\ Signer \subseteq Node
  BY FrostAssumption DEF Inv, NetInv, OutboxInv, Node
<1>2. /\ IsMessage(m) /\ Own(s, m)
      /\ L \notin DOMAIN log /\ DOMAIN log' = DOMAIN log \cup {L}
      /\ \A p \in DOMAIN log : log'[p] = log[p] /\ p < L
      /\ log'[L].msg = m /\ L > pos[COORDINATOR] /\ pos' = pos
      /\ outbox' = [outbox EXCEPT ![s] = Tail(outbox[s])]
      /\ IsSeq(outbox[s]) /\ outbox[s] # << >>
  BY <1>0, <1>1, PostMoves
<1>3. \A t \in Signer :
        /\ Asks(t)' = Asks(t)
        /\ Replies(t)' = IF s = t /\ m.type \in FromSigner THEN Replies(t) \cup {L}
                         ELSE Replies(t)
  BY <1>0, <1>1, PostUnread
<1>4. /\ phase' = phase /\ awaiting' = awaiting /\ dkg_public_shares' = dkg_public_shares
      /\ aggregate_public_key' = aggregate_public_key /\ outcome' = outcome
      /\ outbox'[COORDINATOR] = outbox[COORDINATOR] /\ outbox'[s] = Tail(outbox[s])
      /\ \A t \in Signer \ {s} : outbox'[t] = outbox[t]
      /\ round' = round
  BY <1>1, <1>2 DEF coordVars, signerVars
<1>5. m = outbox[s][1] /\ 1 \in DOMAIN outbox[s]
  BY <1>0, <1>2, TailIsSeq
<1>6. \A i \in DOMAIN Tail(outbox[s]) :
         i + 1 \in DOMAIN outbox[s] /\ Tail(outbox[s])[i] = outbox[s][i + 1]
  BY <1>2, TailIsSeq, SeqFacts
<1>7. \A k \in Key : Owner(k) \in Signer /\ Owner(k)' = Owner(k)
  BY OwnerFacts DEF Owner, public_keys
<1>8. \A k \in Key : Poly(k)' = Poly(k)
  BY <1>4, <1>7 DEF Poly
<1>9. \A t \in Signer : Fresh(t)' <=> Fresh(t)
  BY <1>3, <1>4 DEF Fresh
<1>10. \A k \in Key : Fresh(Owner(k))' <=> Fresh(Owner(k))
  BY <1>3, <1>4, <1>7 DEF Fresh, Asks
<1>11. \A k \in Key : \A v : Drawn(k, v)' <=> Drawn(k, v)
  BY <1>8, <1>10 DEF Drawn
<1>12. KeyMap' = KeyMap
  BY <1>8 DEF KeyMap
<1>13. /\ \A k \in Key, v \in Nat : AnyShare(m, k, v) => Drawn(k, v)
       /\ m.type = "DkgPublicShare" => phase = "public_shares"
  BY <1>5 DEF KeyInv, OutboxDrawn
<1>14. LogDrawn'
  <2>1. \A p \in DOMAIN log : Current(p)' => Current(p)
    BY <1>2, <1>4 DEF Current
  <2>2. ASSUME NEW p \in DOMAIN log', NEW k \in Key, NEW v \in Nat,
               AnyShare(log'[p].msg, k, v), Current(p)'
        PROVE  Drawn(k, v)'
    <3>1. CASE p = L
      BY <1>2, <1>11, <1>13, <2>2, <3>1
    <3>2. CASE p \in DOMAIN log
      BY <1>2, <1>11, <2>1, <2>2, <3>2 DEF KeyInv, LogDrawn
    <3> QED
      BY <1>2, <3>1, <3>2
  <2> QED
    BY <2>2 DEF LogDrawn, AnyShare, PublicShare, ZeroBased
<1>15. OutboxDrawn'
  <2>1. ASSUME NEW t \in Signer, NEW i \in DOMAIN outbox'[t]
        PROVE  /\ \A k \in Key, v \in Nat : AnyShare(outbox'[t][i], k, v) => Drawn(k, v)'
               /\ outbox'[t][i].type = "DkgPublicShare" => phase' = "public_shares"
    <3>1. PICK j \in DOMAIN outbox[t] : outbox'[t][i] = outbox[t][j]
      BY <1>4, <1>6, <2>1
    <3> QED
      BY <1>4, <1>11, <3>1 DEF KeyInv, OutboxDrawn
  <2> QED
    BY <2>1 DEF OutboxDrawn, AnyShare, PublicShare, ZeroBased
<1>16. RoundsDrawn'
  <2>1. ASSUME NEW t \in Signer, Fresh(t)
        PROVE  /\ \A k \in DOMAIN round[t].commitments :
                     Fresh(Owner(k))' /\ round[t].commitments[k] = Poly(k)'
               /\ \A k \in Key : ZeroBased(k) \in DOMAIN round[t].shares =>
                     Fresh(Owner(k))' /\ round[t].shares[ZeroBased(k)] = Poly(k)'
    <3>1. DOMAIN round[t].commitments \subseteq Key
      BY DEF Inv, SignerInv, IsRound, IsMap
    <3> QED
      BY <1>8, <1>10, <2>1, <3>1 DEF KeyInv, RoundsDrawn, RoundDrawn, Drawn
  <2> QED
    BY <1>4, <1>9, <2>1 DEF RoundsDrawn, RoundDrawn, Drawn, ZeroBased
<1>17. SharesDrawn'
  <2>1. DOMAIN dkg_public_shares \subseteq Key
    BY DEF Inv, CoordInv, IsMap
  <2>2. \A k \in DOMAIN dkg_public_shares : Fresh(Owner(k))' /\ dkg_public_shares[k] = Poly(k)'
    BY <1>8, <1>10, <2>1 DEF KeyInv, SharesDrawn, Drawn
  <2> QED
    BY <1>4, <2>2 DEF SharesDrawn, Drawn
<1>18. UnreadDrawn'
  <2>1. ASSUME NEW p \in DOMAIN log', NEW k \in Key, NEW v \in Nat,
               p > pos[COORDINATOR], PublicShare(log'[p].msg, k, v)
        PROVE  /\ phase = "public_shares" /\ Owner(k) \in awaiting /\ Drawn(k, v)'
               /\ \A q \in Replies(Owner(k))' : p < q
    <3>0. Replies(Owner(k))' = IF s = Owner(k) /\ m.type \in FromSigner
                               THEN Replies(Owner(k)) \cup {L} ELSE Replies(Owner(k))
      <4>1. PICK t \in Signer : t = Owner(k)
        BY <1>7
      <4>2. Replies(Owner(k))' = Replies(t)'
        BY <1>7, <4>1 DEF Replies
      <4> QED
        BY <1>3, <4>1, <4>2
    <3>1. CASE p = L
      <4>1. PublicShare(m, k, v) /\ AnyShare(m, k, v)
        BY <1>2, <2>1, <3>1 DEF AnyShare
      <4>2. s = Owner(k) /\ m.type = "DkgPublicShare"
        BY <1>2, <4>1, ShareOwner DEF PublicShare
      <4>3. phase = "public_shares" /\ Drawn(k, v)'
        BY <1>11, <1>13, <4>1, <4>2
      <4>4. s \in Waited /\ Replies(s) = {}
        BY <1>2 DEF Lockstep, Stages, Stage, Asked, Working, Answered, Finished
      <4> QED
        BY <3>0, <4>2, <4>3, <4>4 DEF Waited, FromSigner
    <3>2. CASE p \in DOMAIN log
      <4>1. PublicShare(log[p].msg, k, v) /\ p < L
        BY <1>2, <2>1, <3>2
      <4>2. /\ phase = "public_shares" /\ Owner(k) \in awaiting /\ Drawn(k, v)
            /\ \A q \in Replies(Owner(k)) : p < q
        BY <2>1, <3>2, <4>1 DEF KeyInv, UnreadDrawn
      <4> QED
        BY <1>11, <3>0, <4>1, <4>2
    <3> QED
      BY <1>2, <3>1, <3>2
  <2> QED
    BY <1>2, <1>4, <1>7, <2>1 DEF UnreadDrawn, PublicShare
<1>19. Coverage'
  <2>1. ASSUME phase = "public_shares", NEW k \in Key, Fresh(Owner(k))' PROVE Covered(k)'
    <3>1. Covered(k)
      BY <1>10, <2>1 DEF KeyInv, Coverage
    <3>2. CASE k \in DOMAIN dkg_public_shares
      BY <1>4, <3>2 DEF Covered
    <3>3. CASE \E q \in DOMAIN log : q > pos[COORDINATOR] /\ PublicShare(log[q].msg, k, Poly(k))
      BY <1>2, <1>8, <3>3 DEF Covered, PublicShare
    <3>4. CASE \E i \in DOMAIN outbox[Owner(k)] : PublicShare(outbox[Owner(k)][i], k, Poly(k))
      <4>1. PICK i \in DOMAIN outbox[Owner(k)] : PublicShare(outbox[Owner(k)][i], k, Poly(k))
        BY <3>4
      <4>2. CASE Owner(k) # s
        BY <1>4, <1>7, <1>8, <4>1, <4>2 DEF Covered, PublicShare
      <4>3. CASE Owner(k) = s /\ i = 1
        <5>1. PublicShare(log'[L].msg, k, Poly(k)')
          BY <1>2, <1>5, <1>8, <4>1, <4>3
        <5> QED
          BY <1>2, <5>1 DEF Covered, PublicShare
      <4>4. CASE Owner(k) = s /\ i # 1
        <5>1. /\ DOMAIN outbox[s] = 1..Len(outbox[s]) /\ Len(outbox[s]) \in Nat
              /\ DOMAIN Tail(outbox[s]) = 1..Len(Tail(outbox[s]))
              /\ Len(Tail(outbox[s])) = Len(outbox[s]) - 1
          BY <1>2, TailIsSeq, SeqFacts
        <5>2. PICK j : j = i - 1
          OBVIOUS
        <5>3. j \in DOMAIN Tail(outbox[s]) /\ j + 1 = i
          BY <4>1, <4>4, <5>1, <5>2
        <5>4. Tail(outbox[s])[j] = outbox[s][i]
          BY <1>6, <5>3
        <5>5. j \in DOMAIN outbox'[s] /\ PublicShare(outbox'[s][j], k, Poly(k)')
          BY <1>4, <1>8, <4>1, <4>4, <5>3, <5>4
        <5> QED
          BY <1>7, <4>4, <5>5 DEF Covered, PublicShare
      <4> QED
        BY <4>2, <4>3, <4>4
    <3> QED
      BY <3>1, <3>2, <3>3, <3>4 DEF Covered
  <2> QED
    BY <1>4, <2>1 DEF Coverage
<1>20. Committed' /\ KeyOnEnd' /\ KeyAfter' /\ DkgOutcome'
  BY <1>4, <1>12 DEF KeyInv, Committed, KeyOnEnd, KeyAfter, DkgOutcome
<1> QED
  BY <1>14, <1>15, <1>16, <1>17, <1>18, <1>19, <1>20 DEF KeyInv

\* The coordinator posts its request.
LEMMA CoordinatorPostKeys ==
    ASSUME KeysDisjoint, Inv, Lockstep, KeyInv, PostAnswered(COORDINATOR),
           UNCHANGED signerVars, UNCHANGED coordVars
    PROVE  KeyInv'
<1> DEFINE C == COORDINATOR
<1>0. PICK m, L : m = Head(outbox[C]) /\ L = Len(log) + 1
  OBVIOUS
<1>1. DOMAIN outbox = Node /\ C \in Node /\ \A t \in Signer : t \in Node /\ t # C
  BY FrostAssumption DEF Inv, NetInv, OutboxInv, Node
<1>2. /\ L \notin DOMAIN log /\ DOMAIN log' = DOMAIN log \cup {L}
      /\ \A p \in DOMAIN log : log'[p] = log[p] /\ p < L
      /\ log'[L].msg = m /\ pos' = pos
      /\ outbox' = [outbox EXCEPT ![C] = Tail(outbox[C])]
      /\ outbox[C] # << >>
  BY <1>0, <1>1, PostMoves
<1>3. \A t \in Signer : Asks(t)' = Asks(t) \cup {L} /\ Replies(t)' = Replies(t)
  BY <1>0, <1>1, PostUnread
<1>4. outbox[C] = <<m>> /\ Opens(phase, m)
  BY <1>0, <1>2 DEF Lockstep, RequestsFit
<1>5. /\ phase' = phase /\ awaiting' = awaiting /\ dkg_public_shares' = dkg_public_shares
      /\ aggregate_public_key' = aggregate_public_key /\ outcome' = outcome
      /\ \A t \in Signer : outbox'[t] = outbox[t]
      /\ round' = round
  BY <1>1, <1>2 DEF coordVars, signerVars
<1>6. phase = "public_shares" => m.type = "DkgBegin"
  BY <1>4 DEF Opens
<1>7. m.type \in FromCoordinator
  BY <1>4 DEF Opens, FromCoordinator
<1>8. \A k \in Key : Owner(k) \in Signer /\ Owner(k)' = Owner(k)
  BY OwnerFacts DEF Owner, public_keys
<1>9. \A k \in Key : Poly(k)' = Poly(k)
  BY <1>5, <1>8 DEF Poly
<1>10. \A t \in Signer : Fresh(t)' <=> Fresh(t)
  BY <1>2, <1>3, <1>5 DEF Fresh
<1>11. \A k \in Key : Fresh(Owner(k))' <=> Fresh(Owner(k))
  BY <1>2, <1>3, <1>5, <1>8 DEF Fresh, Asks
<1>12. \A k \in Key : \A v : Drawn(k, v)' <=> Drawn(k, v)
  BY <1>9, <1>11 DEF Drawn
<1>13. LogDrawn'
  <2>1. ASSUME NEW p \in DOMAIN log', NEW k \in Key, NEW v \in Nat,
               AnyShare(log'[p].msg, k, v), Current(p)'
        PROVE  Drawn(k, v)'
    <3>1. p # L
      BY <1>2, <1>7, <2>1 DEF AnyShare, PublicShare, FromCoordinator
    <3>2. p \in DOMAIN log /\ log'[p] = log[p] /\ p < L
      BY <1>2, <3>1
    <3>3. phase # "public_shares"
      BY <1>2, <1>6, <2>1, <3>2 DEF Current
    <3>4. Current(p)
      BY <1>2, <2>1, <3>3 DEF Current
    <3> QED
      BY <1>12, <2>1, <3>2, <3>4 DEF KeyInv, LogDrawn
  <2> QED
    BY <2>1 DEF LogDrawn, AnyShare, PublicShare, ZeroBased
<1>14. OutboxDrawn'
  <2>1. \A t \in Signer : outbox'[t] = << >>
    BY <1>2, <1>5 DEF Lockstep, Stages, Stage, Asked, Working, Answered, Finished, Quiet
  <2> QED
    BY <2>1 DEF OutboxDrawn
<1>15. RoundsDrawn'
  <2>1. ASSUME NEW t \in Signer, Fresh(t)
        PROVE  /\ \A k \in DOMAIN round[t].commitments :
                     Fresh(Owner(k))' /\ round[t].commitments[k] = Poly(k)'
               /\ \A k \in Key : ZeroBased(k) \in DOMAIN round[t].shares =>
                     Fresh(Owner(k))' /\ round[t].shares[ZeroBased(k)] = Poly(k)'
    <3>1. DOMAIN round[t].commitments \subseteq Key
      BY DEF Inv, SignerInv, IsRound, IsMap
    <3> QED
      BY <1>9, <1>11, <2>1, <3>1 DEF KeyInv, RoundsDrawn, RoundDrawn, Drawn
  <2> QED
    BY <1>5, <1>10, <2>1 DEF RoundsDrawn, RoundDrawn, Drawn, ZeroBased
<1>16. SharesDrawn'
  <2>1. DOMAIN dkg_public_shares \subseteq Key
    BY DEF Inv, CoordInv, IsMap
  <2>2. \A k \in DOMAIN dkg_public_shares : Fresh(Owner(k))' /\ dkg_public_shares[k] = Poly(k)'
    BY <1>9, <1>11, <2>1 DEF KeyInv, SharesDrawn, Drawn
  <2> QED
    BY <1>5, <2>2 DEF SharesDrawn, Drawn
<1>17. UnreadDrawn'
  <2>1. ASSUME NEW p \in DOMAIN log', NEW k \in Key, NEW v \in Nat,
               p > pos[COORDINATOR], PublicShare(log'[p].msg, k, v)
        PROVE  FALSE
    <3>1. p # L
      BY <1>2, <1>7, <2>1 DEF PublicShare, FromCoordinator
    <3>2. p \in DOMAIN log /\ PublicShare(log[p].msg, k, v)
      BY <1>2, <2>1, <3>1
    <3>3. phase = "public_shares" /\ Fresh(Owner(k))
      BY <2>1, <3>2 DEF KeyInv, UnreadDrawn, Drawn
    <3> QED
      BY <1>2, <3>3 DEF Fresh
  <2> QED
    BY <1>2, <2>1 DEF UnreadDrawn, PublicShare
<1>18. Coverage'
  BY <1>2, <1>5, <1>11 DEF Coverage, Fresh
<1>19. KeyMap' = KeyMap
  BY <1>9 DEF KeyMap
<1>20. Committed' /\ KeyOnEnd' /\ KeyAfter' /\ DkgOutcome'
  BY <1>5, <1>19 DEF KeyInv, Committed, KeyOnEnd, KeyAfter, DkgOutcome
<1> QED
  BY <1>13, <1>14, <1>15, <1>16, <1>17, <1>18, <1>20 DEF KeyInv

-----------------------------------------------------------------------------
(* The coordinator's reads and the key *)

\* A key generation starts, or starts over: nobody has its draw yet.
LEMMA RestartKeys ==
    ASSUME KeysDisjoint, KeyInv, log' = log, UNCHANGED signerVars,
           phase' = "public_shares", outbox'[COORDINATOR] # << >>,
           \A s \in Signer : outbox'[s] = << >>, dkg_public_shares' = Empty,
           outcome' # "dkg",
           \A p \in DOMAIN log, k \in Key, v \in Nat :
                p > pos'[COORDINATOR] => ~PublicShare(log[p].msg, k, v)
    PROVE  KeyInv'
<1>1. LogDrawn'
  BY DEF LogDrawn, Current
<1>2. OutboxDrawn'
  BY DEF OutboxDrawn
<1>3. RoundsDrawn'
  BY DEF RoundsDrawn, RoundDrawn, Fresh
<1>4. SharesDrawn'
  BY DEF SharesDrawn, Empty
<1>5. UnreadDrawn'
  BY DEF UnreadDrawn, PublicShare
<1>6. Coverage'
  BY DEF Coverage, Fresh
<1>7. Committed'
  BY DEF KeyInv, Committed, signerVars
<1>8. KeyOnEnd' /\ KeyAfter' /\ DkgOutcome'
  BY DEF KeyOnEnd, KeyAfter, DkgOutcome
<1> QED
  BY <1>1, <1>2, <1>3, <1>4, <1>5, <1>6, <1>7, <1>8 DEF KeyInv

\* Outside the public shares the draws are settled, and no public share is unread.
LEMMA SettledKeys ==
    ASSUME KeysDisjoint, Inv, KeyInv, log' = log, UNCHANGED signerVars,
           phase' # "public_shares", \A s \in Signer : Fresh(s),
           \A p : Current(p)' => Current(p),
           \A s \in Signer : outbox'[s] = outbox[s],
           \A s \in Signer : \A i \in DOMAIN outbox[s] : outbox[s][i].type # "DkgPublicShare",
           dkg_public_shares' = dkg_public_shares,
           \A p \in DOMAIN log, k \in Key, v \in Nat :
                p > pos'[COORDINATOR] => ~PublicShare(log[p].msg, k, v),
           KeyOnEnd', KeyAfter', DkgOutcome'
    PROVE  KeyInv'
<1>1. \A k \in Key : Owner(k) \in Signer /\ Owner(k)' = Owner(k)
  BY OwnerFacts DEF Owner, public_keys
<1>2. \A k \in Key : Poly(k)' = Poly(k) /\ Fresh(Owner(k))'
  BY <1>1 DEF Poly, Fresh, signerVars
<1>3. \A k \in Key : \A v : Drawn(k, v) => Drawn(k, v)'
  BY <1>2 DEF Drawn
<1>4. LogDrawn'
  <2>1. \A p \in DOMAIN log, k \in Key, v \in Nat :
           AnyShare(log[p].msg, k, v) /\ Current(p)' => Drawn(k, v)'
    BY <1>3 DEF KeyInv, LogDrawn
  <2> QED
    BY <2>1 DEF LogDrawn, AnyShare, PublicShare, ZeroBased
<1>5. OutboxDrawn'
  <2>1. \A s \in Signer : \A i \in DOMAIN outbox[s] :
           \A k \in Key, v \in Nat : AnyShare(outbox[s][i], k, v) => Drawn(k, v)'
    BY <1>3 DEF KeyInv, OutboxDrawn
  <2> QED
    BY <2>1 DEF OutboxDrawn, AnyShare, PublicShare, ZeroBased
<1>6. RoundsDrawn'
  <2>1. ASSUME NEW t \in Signer
        PROVE  /\ \A k \in DOMAIN round[t].commitments :
                     Fresh(Owner(k))' /\ round[t].commitments[k] = Poly(k)'
               /\ \A k \in Key : ZeroBased(k) \in DOMAIN round[t].shares =>
                     Fresh(Owner(k))' /\ round[t].shares[ZeroBased(k)] = Poly(k)'
    <3>1. DOMAIN round[t].commitments \subseteq Key
      BY DEF Inv, SignerInv, IsRound, IsMap
    <3> QED
      BY <1>2, <2>1, <3>1 DEF KeyInv, RoundsDrawn, RoundDrawn, Drawn
  <2> QED
    BY <2>1 DEF RoundsDrawn, RoundDrawn, Drawn, ZeroBased, signerVars
<1>7. SharesDrawn'
  <2>1. DOMAIN dkg_public_shares \subseteq Key
    BY DEF Inv, CoordInv, IsMap
  <2>2. \A k \in DOMAIN dkg_public_shares : Fresh(Owner(k))' /\ dkg_public_shares[k] = Poly(k)'
    BY <1>2, <2>1 DEF KeyInv, SharesDrawn, Drawn
  <2> QED
    BY <2>2 DEF SharesDrawn, Drawn
<1>8. UnreadDrawn' /\ Coverage'
  BY DEF UnreadDrawn, PublicShare, Coverage
<1>9. Committed'
  BY DEF KeyInv, Committed, signerVars
<1> QED
  BY <1>4, <1>5, <1>6, <1>7, <1>8, <1>9 DEF KeyInv

\* A read by the coordinator, as far as the draws are concerned.
LEMMA ReadFrame ==
    ASSUME Inv, NEW p, NEW K, Receive(COORDINATOR, p, K), NoFault'
    PROVE  /\ p \in DOMAIN log /\ p \in Nat /\ p = pos[COORDINATOR] + 1 /\ log' = log
           /\ pos[COORDINATOR] \in Nat /\ pos'[COORDINATOR] = p
           /\ outbox[COORDINATOR] = << >>
           /\ \A q \in DOMAIN log : q \in Nat /\ (q > p <=> q > pos[COORDINATOR] /\ q # p)
<1>1. COORDINATOR \in Node
  BY DEF Node
<1>2. /\ p = pos[COORDINATOR] + 1 /\ p \in DOMAIN log /\ log' = log
      /\ outbox[COORDINATOR] = << >> /\ pos' = [pos EXCEPT ![COORDINATOR] = p]
  BY <1>1, ReceiveInTurn
<1>3. pos[COORDINATOR] \in Nat /\ pos'[COORDINATOR] = p
  BY <1>1, <1>2 DEF Inv, NetInv, PosInv
<1>4. DOMAIN log \subseteq Nat
  BY SeqFacts DEF Inv, NetInv, LogInv
<1> QED
  BY <1>2, <1>3, <1>4

\* Outside the public shares everybody has its draw, and no public share is on
\* its way.
LEMMA NoPublicShares ==
    ASSUME Inv, KeyInv, phase # "public_shares"
    PROVE  /\ \A s \in Signer : Fresh(s)
           /\ \A s \in Signer : \A i \in DOMAIN outbox[s] : outbox[s][i].type # "DkgPublicShare"
           /\ \A p \in DOMAIN log, k \in Key, v \in Nat :
                 p > pos[COORDINATOR] => ~PublicShare(log[p].msg, k, v)
<1>1. \A s \in Signer : Fresh(s)
  BY DEF Fresh
<1>2. \A s \in Signer : \A i \in DOMAIN outbox[s] : outbox[s][i].type # "DkgPublicShare"
  BY DEF KeyInv, OutboxDrawn
<1>3. \A p \in DOMAIN log, k \in Key, v \in Nat :
          p > pos[COORDINATOR] => ~PublicShare(log[p].msg, k, v)
  BY DEF KeyInv, UnreadDrawn
<1> QED
  BY <1>1, <1>2, <1>3

\* A step of the coordinator outside the public shares.
LEMMA LaterKeys ==
    ASSUME KeysDisjoint, Inv, KeyInv, log' = log, UNCHANGED signerVars,
           phase # "public_shares", phase' # "public_shares",
           \A q \in DOMAIN log : q > pos'[COORDINATOR] => q > pos[COORDINATOR],
           \A s \in Signer : outbox'[s] = outbox[s],
           dkg_public_shares' = dkg_public_shares,
           KeyOnEnd', KeyAfter', DkgOutcome'
    PROVE  KeyInv'
<1>1. \A p : Current(p)' => Current(p)
  BY DEF Current
<1>2. \A p \in DOMAIN log, k \in Key, v \in Nat :
          p > pos'[COORDINATOR] => ~PublicShare(log[p].msg, k, v)
  BY NoPublicShares
<1> QED
  BY <1>1, <1>2, NoPublicShares, SettledKeys

\* The key does not change when the rounds do not.
LEMMA SameKey ==
    ASSUME KeysDisjoint, UNCHANGED signerVars
    PROVE  KeyMap' = KeyMap
<1>1. \A k \in Key : Owner(k)' = Owner(k)
  BY DEF Owner, public_keys
<1>2. \A k \in Key : Poly(k)' = Poly(k)
  BY <1>1 DEF Poly, signerVars
<1> QED
  BY <1>2 DEF KeyMap

\* run_distributed_key_generation starts.
LEMMA StartDkgKeys ==
    ASSUME KeysDisjoint, Inv, Lockstep, KeyInv, StartDkg, UNCHANGED signerVars
    PROVE  KeyInv'
<1>1. /\ phase = "ready" /\ phase' = "public_shares" /\ log' = log /\ pos' = pos
      /\ dkg_public_shares' = Empty /\ outcome' = "none"
  BY DEF StartDkg, start_public_shares
<1>2. /\ DOMAIN outbox = Node /\ COORDINATOR \in Node
      /\ \A s \in Signer : s \in Node /\ s # COORDINATOR
  BY FrostAssumption DEF Inv, NetInv, OutboxInv, Node
<1>3. PICK m : Send(m)
  BY DEF StartDkg, start_public_shares
<1>4. outbox'[COORDINATOR] = <<m>> /\ \A s \in Signer : outbox'[s] = outbox[s]
  BY <1>2, <1>3 DEF Send
<1>5. outbox'[COORDINATOR] # << >> /\ \A s \in Signer : outbox'[s] = << >>
  BY <1>1, <1>4, ReadyRests
<1> QED
  BY <1>1, <1>5, NoPublicShares, RestartKeys

\* sign_message starts.
LEMMA StartSignKeys ==
    ASSUME KeysDisjoint, Inv, Lockstep, KeyInv, NEW msg, StartSign(msg), UNCHANGED signerVars
    PROVE  KeyInv'
<1>1. /\ phase = "ready" /\ phase' \in {"ready", "nonces"} /\ log' = log /\ pos' = pos
      /\ dkg_public_shares' = dkg_public_shares /\ outcome' # "dkg"
      /\ aggregate_public_key' = aggregate_public_key
  BY DEF StartSign, Return
<1>2. /\ DOMAIN outbox = Node /\ COORDINATOR \in Node
      /\ \A s \in Signer : s \in Node /\ s # COORDINATOR
  BY FrostAssumption DEF Inv, NetInv, OutboxInv, Node
<1>3. \A s \in Signer : outbox'[s] = outbox[s]
  BY <1>2 DEF StartSign, Send, SendNothing
<1>4. KeyOnEnd' /\ KeyAfter' /\ DkgOutcome'
  BY <1>1, SameKey DEF KeyInv, KeyOnEnd, KeyAfter, DkgOutcome, signerVars
<1> QED
  BY <1>1, <1>3, <1>4, LaterKeys

\* wait_for_dkg_end: when the last one has ended, everybody has the key.
LEMMA WaitForDkgEndKeys ==
    ASSUME KeysDisjoint, Inv, Lockstep, KeyInv, NEW p, WaitForDkgEnd(p), NoFault',
           UNCHANGED signerVars
    PROVE  KeyInv'
<1>1. /\ phase = "dkg_end" /\ outbox' = outbox /\ Receive(COORDINATOR, p, {})
      /\ dkg_public_shares' = dkg_public_shares
      /\ aggregate_public_key' = aggregate_public_key
  BY DEF WaitForDkgEnd, SendNothing
<1>2. log' = log /\ \A q \in DOMAIN log : q > pos'[COORDINATOR] => q > pos[COORDINATOR]
  BY <1>1, ReadFrame
<1>3. log[p].msg.type \in FromSigner <=> log[p].msg.type = "DkgEnd"
  BY <1>1, ReadAnswer DEF Answers, FromSigner
<1>4. PICK left : left = IF log[p].msg.type = "DkgEnd" THEN awaiting \ {log[p].msg.signer_id}
                         ELSE awaiting
  OBVIOUS
<1>5. Left(log[p].msg) = left
  BY <1>1, <1>3, <1>4 DEF Left, Waited
<1>6. IF left = {} THEN Return("dkg") ELSE awaiting' = left /\ UNCHANGED <<phase, outcome>>
  BY <1>4 DEF WaitForDkgEnd
<1>7. outcome # "dkg"
  BY <1>1 DEF KeyInv, DkgOutcome
<1>8. CASE left = {}
  <2>1. phase' = "ready"
    BY <1>6, <1>8 DEF Return
  <2>2. \A s \in Signer : Settled(phase, round'[s].state)
    BY <1>1, <1>5, <1>8, LastRead
  <2>3. \A s \in Signer : round[s].secret = KeyMap
    BY <1>1, <2>2 DEF Settled, KeyInv, KeyOnEnd, signerVars
  <2>4. KeyMap # Empty
    <3>1. DOMAIN KeyMap # {} /\ DOMAIN Empty = {}
      BY FrostAssumption DEF KeyMap, Empty
    <3> QED
      BY <3>1
  <2>5. KeyOnEnd' /\ KeyAfter' /\ DkgOutcome'
    BY <1>1, <2>1, <2>3, <2>4, SameKey DEF KeyInv, KeyOnEnd, KeyAfter, DkgOutcome, signerVars
  <2> QED
    BY <1>1, <1>2, <2>1, <2>5, LaterKeys
<1>9. CASE left # {}
  <2>1. phase' = phase /\ outcome' = outcome
    BY <1>6, <1>9
  <2>2. KeyOnEnd' /\ KeyAfter' /\ DkgOutcome'
    BY <1>1, <1>7, <2>1, SameKey DEF KeyInv, KeyOnEnd, KeyAfter, DkgOutcome, signerVars
  <2> QED
    BY <1>1, <1>2, <2>1, <2>2, LaterKeys
<1> QED
  BY <1>8, <1>9

\* The reads of sign_message.
LEMMA SignReadKeys ==
    ASSUME KeysDisjoint, Inv, Lockstep, KeyInv, NEW p, NoFault', UNCHANGED signerVars,
           CollectNonces(p) \/ NoncesDone(p) \/ CollectSignatureShares(p)
    PROVE  KeyInv'
<1>1. /\ phase \in {"nonces", "signature_shares"}
      /\ phase' \in {"ready", "nonces", "signature_shares"}
      /\ dkg_public_shares' = dkg_public_shares /\ (outcome' = outcome \/ outcome' # "dkg")
      /\ aggregate_public_key' = aggregate_public_key
  BY DEF CollectNonces, NoncesDone, AggregateNonceOdd, AggregateNonceEven,
         CollectSignatureShares, Return, SignResult
<1>2. PICK K : Receive(COORDINATOR, p, K)
  BY DEF CollectNonces, NoncesDone, CollectSignatureShares
<1>3. log' = log /\ \A q \in DOMAIN log : q > pos'[COORDINATOR] => q > pos[COORDINATOR]
  BY <1>2, ReadFrame
<1>4. /\ DOMAIN outbox = Node /\ COORDINATOR \in Node
      /\ \A s \in Signer : s \in Node /\ s # COORDINATOR
  BY FrostAssumption DEF Inv, NetInv, OutboxInv, Node
<1>5. \A s \in Signer : outbox'[s] = outbox[s]
  BY <1>4 DEF CollectNonces, NoncesDone, AggregateNonceOdd, AggregateNonceEven,
              CollectSignatureShares, Send, SendNothing
<1>6. outcome' # "dkg"
  BY <1>1 DEF KeyInv, DkgOutcome
<1>7. KeyOnEnd' /\ KeyAfter' /\ DkgOutcome'
  BY <1>1, <1>6, SameKey DEF KeyInv, KeyOnEnd, KeyAfter, DkgOutcome, signerVars
<1> QED
  BY <1>1, <1>3, <1>5, <1>7, LaterKeys

\* The last awaited DkgPublicEnd: no public share is on its way any more, and the
\* coordinator has one of every key.
LEMMA AllPublicShares ==
    ASSUME KeysDisjoint, Inv, Lockstep, KeyInv, UNCHANGED signerVars, NEW p, NEW K,
           Receive(COORDINATOR, p, K), NoFault', phase = "public_shares",
           log[p].msg.type = "DkgPublicEnd", awaiting = {log[p].msg.signer_id}
    PROVE  /\ \A s \in Signer : Fresh(s)
           /\ \A q \in DOMAIN log, k \in Key, v \in Nat :
                 q > pos'[COORDINATOR] => ~PublicShare(log[q].msg, k, v)
           /\ dkg_public_shares = KeyMap
<1>1. /\ p \in DOMAIN log /\ log' = log /\ p > pos[COORDINATOR]
      /\ pos'[COORDINATOR] = p /\ outbox[COORDINATOR] = << >>
      /\ \A q \in DOMAIN log : q \in Nat /\ (q > p <=> q > pos[COORDINATOR] /\ q # p)
      /\ p \in Nat /\ pos[COORDINATOR] \in Nat
  BY ReadFrame
<1>2. Left(log[p].msg) = {}
  BY DEF Left, Waited, FromSigner
<1>3. \A s \in Signer : outbox[s] = << >> /\ Asks(s) = {}
  BY <1>2, ReadStages
<1>4. \A s \in Signer : Fresh(s)
  BY <1>1, <1>3 DEF Fresh
<1>5. \A k \in Key : Owner(k) \in Signer
  BY OwnerFacts
<1>6. ASSUME NEW q \in DOMAIN log, NEW k \in Key, NEW v \in Nat, q > pos[COORDINATOR],
             PublicShare(log[q].msg, k, v)
      PROVE  q < p
  <2>1. Owner(k) \in awaiting /\ \A x \in Replies(Owner(k)) : q < x
    BY <1>6 DEF KeyInv, UnreadDrawn
  <2>2. p \in Replies(Owner(k))
    BY <1>1, <2>1 DEF Replies, FromSigner
  <2> QED
    BY <2>1, <2>2
<1>7. \A q \in DOMAIN log, k \in Key, v \in Nat :
          q > pos[COORDINATOR] => ~PublicShare(log[q].msg, k, v)
  <2>1. \A q \in DOMAIN log : ~(q > pos[COORDINATOR] /\ q < p)
    BY ReadFrame
  <2> QED
    BY <1>6, <2>1
<1>8. \A k \in Key : k \in DOMAIN dkg_public_shares
  <2>1. SUFFICES ASSUME NEW k \in Key PROVE k \in DOMAIN dkg_public_shares
    OBVIOUS
  <2>2. Covered(k)
    BY <1>4, <1>5 DEF KeyInv, Coverage
  <2>3. Poly(k) \in Nat
    BY <1>5 DEF Poly, Inv, SignerInv, IsRound
  <2>4. outbox[Owner(k)] = << >>
    BY <1>3, <1>5
  <2> QED
    BY <1>7, <2>2, <2>3, <2>4 DEF Covered
<1>9. dkg_public_shares = KeyMap
  <2>1. DOMAIN dkg_public_shares = Key /\ dkg_public_shares \in [Key -> Nat]
    BY <1>8 DEF Inv, CoordInv, IsMap
  <2>2. \A k \in Key : dkg_public_shares[k] = Poly(k)
    BY <2>1 DEF KeyInv, SharesDrawn, Drawn
  <2> QED
    BY <2>1, <2>2 DEF KeyMap
<1> QED
  BY <1>1, <1>4, <1>7, <1>9

\* wait_for_public_shares ends.
LEMMA PublicSharesDoneKeys ==
    ASSUME KeysDisjoint, Inv, Lockstep, KeyInv, UNCHANGED signerVars, NEW p,
           PublicSharesDone(p), NoFault'
    PROVE  KeyInv'
<1>1. PICK K : Receive(COORDINATOR, p, K)
  BY DEF PublicSharesDone
<1>2. /\ phase = "public_shares" /\ log[p].msg.type = "DkgPublicEnd"
      /\ awaiting = {log[p].msg.signer_id} /\ outcome' = outcome
  BY DEF PublicSharesDone
<1>3. /\ \A s \in Signer : Fresh(s)
      /\ \A q \in DOMAIN log, k \in Key, v \in Nat :
            q > pos'[COORDINATOR] => ~PublicShare(log[q].msg, k, v)
      /\ dkg_public_shares = KeyMap
  BY <1>1, <1>2, AllPublicShares
<1>4. Left(log[p].msg) = {}
  BY <1>2 DEF Left, Waited, FromSigner
<1>5. /\ \A s \in Signer : outbox[s] = << >> /\ Settled(phase, round'[s].state)
      /\ outbox[COORDINATOR] = << >>
      /\ \A m : Send(m) => /\ outbox'[COORDINATOR] = <<m>>
                           /\ \A s \in Signer : outbox'[s] = outbox[s]
  BY <1>1, <1>4, LastRead
<1>6. PICK m : Send(m)
  BY DEF PublicSharesDone, AggregateKeyEven, AggregateKeyOdd, start_public_shares
<1>7. outbox'[COORDINATOR] = <<m>> /\ \A s \in Signer : outbox'[s] = << >>
  BY <1>5, <1>6
<1>8. outcome # "dkg"
  BY <1>2 DEF KeyInv, DkgOutcome
<1>9. log' = log
  BY <1>1, ReadFrame
<1>10. CASE AggregateKeyOdd
  <2>1. phase' = "public_shares" /\ dkg_public_shares' = Empty
    BY <1>2, <1>10 DEF AggregateKeyOdd, start_public_shares
  <2>2. outbox'[COORDINATOR] # << >>
    BY <1>7
  <2> QED
    BY <1>2, <1>3, <1>7, <1>8, <1>9, <2>1, <2>2, RestartKeys
<1>11. CASE AggregateKeyEven
  <2>1. /\ phase' = "dkg_end" /\ dkg_public_shares' = dkg_public_shares
        /\ aggregate_public_key' = dkg_public_shares
    BY <1>11 DEF AggregateKeyEven
  <2>2. \A s \in Signer : round'[s].state # "Idle"
    BY <1>2, <1>5 DEF Settled
  <2>3. KeyOnEnd' /\ KeyAfter' /\ DkgOutcome'
    BY <1>2, <1>3, <1>8, <2>1, <2>2, SameKey DEF KeyOnEnd, KeyAfter, DkgOutcome
  <2>4. \A q : Current(q)' => Current(q)
    BY <1>5, <1>9 DEF Current
  <2>5. \A s \in Signer : outbox'[s] = outbox[s]
    BY <1>5, <1>7
  <2>6. \A s \in Signer : \A i \in DOMAIN outbox[s] : outbox[s][i].type # "DkgPublicShare"
    BY <1>5
  <2>7. phase' # "public_shares"
    BY <2>1
  <2> QED
    BY <1>3, <1>9, <2>1, <2>3, <2>4, <2>5, <2>6, <2>7, SettledKeys
<1> QED
  BY <1>10, <1>11 DEF PublicSharesDone

\* wait_for_public_shares goes on.
LEMMA WaitForPublicSharesKeys ==
    ASSUME KeysDisjoint, Inv, Lockstep, KeyInv, UNCHANGED signerVars, NEW p,
           WaitForPublicShares(p), NoFault'
    PROVE  KeyInv'
<1> DEFINE m == log[p].msg
<1>1. /\ phase = "public_shares" /\ phase' = phase /\ outbox' = outbox
      /\ Receive(COORDINATOR, p, {}) /\ outcome' = outcome
      /\ aggregate_public_key' = aggregate_public_key
  BY DEF WaitForPublicShares, SendNothing
<1>2. /\ p \in DOMAIN log /\ log' = log /\ p > pos[COORDINATOR]
      /\ pos'[COORDINATOR] = p /\ outbox[COORDINATOR] = << >>
      /\ \A q \in DOMAIN log : q \in Nat /\ (q > p <=> q > pos[COORDINATOR] /\ q # p)
  BY <1>1, ReadFrame
<1>3. \A s \in Signer : Asks(s)' = Asks(s) /\ Replies(s)' \subseteq Replies(s) /\ round'[s] = round[s]
  BY <1>1, ReadStages
<1>4. \A k \in Key : Owner(k) \in Signer /\ Owner(k)' = Owner(k)
  BY OwnerFacts DEF Owner, public_keys
<1>5. \A k \in Key : Poly(k)' = Poly(k)
  BY <1>4 DEF Poly, signerVars
<1>6. \A s \in Signer : Fresh(s)' <=> Fresh(s)
  BY <1>1, <1>3 DEF Fresh
<1>7. \A k \in Key : Fresh(Owner(k))' <=> Fresh(Owner(k))
  <2> SUFFICES ASSUME NEW k \in Key PROVE Fresh(Owner(k))' <=> Fresh(Owner(k))
    OBVIOUS
  <2>1. PICK o \in Signer : o = Owner(k)
    BY <1>4
  <2>2. Owner(k)' = o
    BY <1>4, <2>1
  <2>3. Fresh(Owner(k))' <=> Fresh(o)'
    BY <2>2 DEF Fresh, Asks
  <2> QED
    BY <1>6, <2>1, <2>3
<1>8. \A k \in Key : \A v : Drawn(k, v)' <=> Drawn(k, v)
  BY <1>5, <1>7 DEF Drawn
<1>9. IsMessage(m)
  BY <1>2 DEF Inv, NetInv, LogInv
<1>10. \A q : Current(q)' <=> Current(q)
  BY <1>1, <1>2 DEF Current
<1>11. LogDrawn'
  <2>1. \A q \in DOMAIN log, k \in Key, v \in Nat :
           AnyShare(log[q].msg, k, v) /\ Current(q)' => Drawn(k, v)'
    BY <1>8, <1>10 DEF KeyInv, LogDrawn
  <2> QED
    BY <1>2, <2>1 DEF LogDrawn, AnyShare, PublicShare, ZeroBased
<1>12. OutboxDrawn'
  <2>1. \A s \in Signer : \A i \in DOMAIN outbox[s] :
           \A k \in Key, v \in Nat : AnyShare(outbox[s][i], k, v) => Drawn(k, v)'
    BY <1>8 DEF KeyInv, OutboxDrawn
  <2> QED
    BY <1>1, <2>1 DEF OutboxDrawn, AnyShare, PublicShare, ZeroBased
<1>13. RoundsDrawn'
  <2>1. ASSUME NEW t \in Signer, Fresh(t)
        PROVE  /\ \A k \in DOMAIN round[t].commitments :
                     Fresh(Owner(k))' /\ round[t].commitments[k] = Poly(k)'
               /\ \A k \in Key : ZeroBased(k) \in DOMAIN round[t].shares =>
                     Fresh(Owner(k))' /\ round[t].shares[ZeroBased(k)] = Poly(k)'
    <3>1. DOMAIN round[t].commitments \subseteq Key
      BY DEF Inv, SignerInv, IsRound, IsMap
    <3> QED
      BY <1>5, <1>7, <2>1, <3>1 DEF KeyInv, RoundsDrawn, RoundDrawn, Drawn
  <2> QED
    BY <1>6, <2>1 DEF RoundsDrawn, RoundDrawn, Drawn, ZeroBased, signerVars
<1>14. /\ m.type = "DkgPublicShare" =>
             /\ dkg_public_shares' = Insert(dkg_public_shares, m.party_id, m.public_share)
             /\ awaiting' = awaiting
       /\ m.type # "DkgPublicShare" => dkg_public_shares' = dkg_public_shares
       /\ \A x \in awaiting : x \in awaiting' \/ (m.type = "DkgPublicEnd" /\ m.signer_id = x)
  BY DEF WaitForPublicShares
<1>15. m.type = "DkgPublicShare" =>
          /\ m.party_id \in Key /\ m.public_share \in Nat
          /\ Drawn(m.party_id, m.public_share)
  <2>1. m.type = "DkgPublicShare" => /\ m.party_id \in Key /\ m.public_share \in Nat
                                     /\ PublicShare(m, m.party_id, m.public_share)
    BY <1>9 DEF IsMessage, PublicShare
  <2> QED
    BY <1>2, <2>1 DEF KeyInv, UnreadDrawn
<1>16. SharesDrawn'
  <2>1. DOMAIN dkg_public_shares \subseteq Key
    BY DEF Inv, CoordInv, IsMap
  <2>2. ASSUME NEW k \in DOMAIN dkg_public_shares'
        PROVE  k \in Key /\ Drawn(k, dkg_public_shares'[k])
    BY <1>14, <1>15, <2>1, <2>2 DEF KeyInv, SharesDrawn, Insert
  <2>3. \A k \in DOMAIN dkg_public_shares' :
            Fresh(Owner(k))' /\ dkg_public_shares'[k] = Poly(k)'
    BY <1>5, <1>7, <2>2 DEF Drawn
  <2> QED
    BY <2>3 DEF SharesDrawn, Drawn
<1>17. UnreadDrawn'
  <2>1. ASSUME NEW q \in DOMAIN log, NEW k \in Key, NEW v \in Nat, q > p,
               PublicShare(log[q].msg, k, v)
        PROVE  /\ Owner(k) \in awaiting' /\ Drawn(k, v)' /\ \A x \in Replies(Owner(k)) : q < x
    <3>1. /\ Owner(k) \in awaiting /\ Drawn(k, v)
          /\ \A x \in Replies(Owner(k)) : q < x
      BY <1>2, <2>1 DEF KeyInv, UnreadDrawn
    <3>2. ~(m.type = "DkgPublicEnd" /\ m.signer_id = Owner(k))
      <4>1. SUFFICES ASSUME m.type = "DkgPublicEnd", m.signer_id = Owner(k) PROVE FALSE
        OBVIOUS
      <4>2. p \in Replies(Owner(k))
        BY <1>2, <4>1 DEF Replies, FromSigner
      <4>3. q < p /\ q \in Nat /\ p \in Nat
        BY <1>2, <3>1, <4>2
      <4> QED
        BY <2>1, <4>3
    <3> QED
      BY <1>8, <1>14, <3>1, <3>2
  <2>2. \A k \in Key : Replies(Owner(k))' \subseteq Replies(Owner(k))
    <3> SUFFICES ASSUME NEW k \in Key PROVE Replies(Owner(k))' \subseteq Replies(Owner(k))
      OBVIOUS
    <3>1. PICK o \in Signer : o = Owner(k)
      BY <1>4
    <3>2. Owner(k)' = o
      BY <1>4, <3>1
    <3>3. Replies(Owner(k))' = Replies(o)'
      BY <3>2 DEF Replies
    <3> QED
      BY <1>3, <3>1, <3>3
  <2>3. \A q \in DOMAIN log, k \in Key, v \in Nat :
           q > p /\ PublicShare(log[q].msg, k, v) =>
              /\ Owner(k)' \in awaiting' /\ Drawn(k, v)' /\ \A x \in Replies(Owner(k))' : q < x
    BY <1>4, <2>1, <2>2
  <2> QED
    BY <1>1, <1>2, <2>3 DEF UnreadDrawn, PublicShare
<1>18. Coverage'
  <2>1. ASSUME NEW k \in Key, Fresh(Owner(k))
        PROVE  \/ k \in DOMAIN dkg_public_shares'
               \/ \E q \in DOMAIN log : q > p /\ PublicShare(log[q].msg, k, Poly(k))
               \/ \E i \in DOMAIN outbox[Owner(k)] : PublicShare(outbox[Owner(k)][i], k, Poly(k))
    <3>1. Covered(k)
      BY <1>1, <2>1 DEF KeyInv, Coverage
    <3>2. k \in DOMAIN dkg_public_shares => k \in DOMAIN dkg_public_shares'
      BY <1>14 DEF Insert
    <3>3. PublicShare(m, k, Poly(k)) => k \in DOMAIN dkg_public_shares'
      BY <1>14 DEF Insert, PublicShare
    <3> QED
      BY <1>2, <3>1, <3>2, <3>3 DEF Covered
  <2>2. ASSUME NEW k \in Key, Fresh(Owner(k))
        PROVE  Covered(k)'
    <3>1. PICK w, o : w = Poly(k) /\ o = Owner(k)
      OBVIOUS
    <3>2. Poly(k)' = w /\ Owner(k)' = o
      BY <1>4, <1>5, <3>1
    <3> QED
      BY <1>1, <1>2, <2>1, <2>2, <3>1, <3>2 DEF Covered, PublicShare
  <2> QED
    BY <1>7, <2>2 DEF Coverage
<1>19. Committed' /\ KeyOnEnd' /\ KeyAfter' /\ DkgOutcome'
  BY <1>1 DEF KeyInv, Committed, KeyOnEnd, KeyAfter, DkgOutcome, signerVars
<1> QED
  BY <1>11, <1>12, <1>13, <1>16, <1>17, <1>18, <1>19 DEF KeyInv

\* A signer takes a message, or a node posts one, or the coordinator goes on.
LEMMA KeyStep ==
    ASSUME KeysDisjoint, Inv, Lockstep, KeyInv, Step, NoFault'
    PROVE  KeyInv'
<1>1. CASE \E s \in Signer : \E p \in 1..Len(log) : SignerProcess(s, p) /\ UNCHANGED coordVars
  BY <1>1, BeginKeys, ProcessKeys
<1>2. CASE \E s \in Signer : PostAnswered(s) /\ UNCHANGED signerVars /\ UNCHANGED coordVars
  BY <1>2, SignerPostKeys
<1>3. CASE (StartDkg \/ \E msg \in Payload : StartSign(msg)) /\ UNCHANGED signerVars
  BY <1>3, StartDkgKeys, StartSignKeys
<1>4. CASE \E p \in 1..Len(log) : CoordinatorReceive(p) /\ UNCHANGED signerVars
  BY <1>4, WaitForPublicSharesKeys, PublicSharesDoneKeys, WaitForDkgEndKeys, SignReadKeys
  DEF CoordinatorReceive
<1>5. CASE PostAnswered(COORDINATOR) /\ UNCHANGED coordVars /\ UNCHANGED signerVars
  BY <1>5, CoordinatorPostKeys
<1> QED
  BY <1>1, <1>2, <1>3, <1>4, <1>5 DEF Step

\* At the start there is nothing in the log, and no key.
LEMMA InitKeys == Init => KeyInv
<1> SUFFICES ASSUME Init PROVE KeyInv
  OBVIOUS
<1>1. /\ log = << >> /\ \A n \in Node : outbox[n] = << >>
      /\ \A s \in Signer : /\ round[s].state = "Idle"
                           /\ round[s].commitments = Empty /\ round[s].shares = Empty
      /\ phase = "ready" /\ aggregate_public_key = Empty /\ dkg_public_shares = Empty
      /\ outcome = "none"
  BY DEF Init, NetInit, SignerInit, CoordinatorInit, NewRound
<1>2. Signer \subseteq Node /\ DOMAIN Empty = {} /\ DOMAIN log = {}
  BY <1>1 DEF Node, Empty
<1>3. LogDrawn /\ UnreadDrawn
  BY <1>2 DEF LogDrawn, UnreadDrawn
<1>4. OutboxDrawn
  BY <1>1, <1>2 DEF OutboxDrawn
<1>5. RoundsDrawn
  BY <1>1, <1>2 DEF RoundsDrawn, RoundDrawn
<1>6. SharesDrawn
  BY <1>1, <1>2 DEF SharesDrawn
<1>7. Coverage /\ Committed /\ KeyOnEnd /\ KeyAfter /\ DkgOutcome
  BY <1>1 DEF Coverage, Committed, KeyOnEnd, KeyAfter, DkgOutcome
<1> QED
  BY <1>3, <1>4, <1>5, <1>6, <1>7 DEF KeyInv

\* Nothing happens.
LEMMA StutterKeys ==
    ASSUME KeysDisjoint, Inv, KeyInv, UNCHANGED vars
    PROVE  KeyInv'
<1>1. /\ log' = log /\ pos' = pos /\ outbox' = outbox /\ UNCHANGED signerVars
      /\ phase' = phase /\ awaiting' = awaiting /\ dkg_public_shares' = dkg_public_shares
      /\ aggregate_public_key' = aggregate_public_key /\ outcome' = outcome
  BY DEF vars, netVars, coordVars
<1>2. round' = round
  BY <1>1 DEF signerVars
<1>3. \A k : Owner(k)' = Owner(k)
  BY DEF Owner, public_keys
<1>4. \A k : Poly(k)' = Poly(k)
  BY <1>2, <1>3 DEF Poly
<1>5. \A k : Fresh(Owner(k))' <=> Fresh(Owner(k))
  BY <1>1, <1>3 DEF Fresh, Asks
<1>6. \A s : Fresh(s)' <=> Fresh(s)
  BY <1>1 DEF Fresh, Asks
<1>7. \A k, v : Drawn(k, v)' <=> Drawn(k, v)
  BY <1>4, <1>5 DEF Drawn
<1>8. LogDrawn' /\ OutboxDrawn'
  <2>1. \A q : Current(q)' <=> Current(q)
    BY <1>1 DEF Current
  <2>2. \A p \in DOMAIN log, k \in Key, v \in Nat :
            AnyShare(log[p].msg, k, v) /\ Current(p)' => Drawn(k, v)'
    BY <1>7, <2>1 DEF KeyInv, LogDrawn
  <2>3. \A s \in Signer : \A i \in DOMAIN outbox[s] :
            /\ \A k \in Key, v \in Nat : AnyShare(outbox[s][i], k, v) => Drawn(k, v)'
            /\ outbox[s][i].type = "DkgPublicShare" => phase = "public_shares"
    BY <1>7 DEF KeyInv, OutboxDrawn
  <2>4. LogDrawn'
    BY <1>1, <2>2 DEF LogDrawn, AnyShare, PublicShare, ZeroBased
  <2>5. OutboxDrawn'
    BY <1>1, <2>3 DEF OutboxDrawn, AnyShare, PublicShare, ZeroBased
  <2> QED
    BY <2>4, <2>5
<1>9. RoundsDrawn'
  <2>1. \A t \in Signer : Fresh(t) =>
          /\ \A k \in DOMAIN round[t].commitments :
                Fresh(Owner(k))' /\ round[t].commitments[k] = Poly(k)'
          /\ \A k \in Key : ZeroBased(k) \in DOMAIN round[t].shares =>
                Fresh(Owner(k))' /\ round[t].shares[ZeroBased(k)] = Poly(k)'
    BY <1>4, <1>5 DEF KeyInv, RoundsDrawn, RoundDrawn, Drawn
  <2> QED
    BY <1>2, <1>6, <2>1 DEF RoundsDrawn, RoundDrawn, Drawn, ZeroBased
<1>10. SharesDrawn'
  <2>1. \A k \in DOMAIN dkg_public_shares : Fresh(Owner(k))' /\ dkg_public_shares[k] = Poly(k)'
    BY <1>4, <1>5 DEF KeyInv, SharesDrawn, Drawn
  <2> QED
    BY <1>1, <2>1 DEF SharesDrawn, Drawn
<1>11. UnreadDrawn'
  <2>1. \A k : Replies(Owner(k))' = Replies(Owner(k))
    BY <1>1, <1>3 DEF Replies
  <2>2. \A p \in DOMAIN log, k \in Key, v \in Nat :
           p > pos[COORDINATOR] /\ PublicShare(log[p].msg, k, v) =>
              /\ phase = "public_shares" /\ Owner(k) \in awaiting /\ Drawn(k, v)'
              /\ \A q \in Replies(Owner(k))' : p < q
    BY <1>7, <2>1 DEF KeyInv, UnreadDrawn
  <2> QED
    BY <1>1, <1>3, <2>2 DEF UnreadDrawn, PublicShare
<1>12. Coverage'
  <2>1. ASSUME NEW k \in Key, Covered(k) PROVE Covered(k)'
    <3>1. PICK w, o : w = Poly(k) /\ o = Owner(k)
      OBVIOUS
    <3>2. Poly(k)' = w /\ Owner(k)' = o
      BY <1>3, <1>4, <3>1
    <3> QED
      BY <1>1, <2>1, <3>1, <3>2 DEF Covered, PublicShare
  <2> QED
    BY <1>1, <1>5, <2>1 DEF KeyInv, Coverage
<1>13. Committed' /\ KeyOnEnd' /\ KeyAfter' /\ DkgOutcome'
  BY <1>1, <1>2, SameKey DEF KeyInv, Committed, KeyOnEnd, KeyAfter, DkgOutcome
<1> QED
  BY <1>8, <1>9, <1>10, <1>11, <1>12, <1>13 DEF KeyInv

\* The invariant of the key holds until the first fault.
LEMMA AlwaysKeys == KeysDisjoint => (Spec => [](NoFault => Lockstep /\ KeyInv))
<1> SUFFICES ASSUME KeysDisjoint PROVE Spec => [](NoFault => Lockstep /\ KeyInv)
  OBVIOUS
<1>1. Init => (NoFault => Lockstep /\ KeyInv)
  BY InitLockstep, InitKeys
<1>2. ASSUME Inv, NoFault => Lockstep /\ KeyInv, [Next]_vars
      PROVE  (NoFault => Lockstep /\ KeyInv)'
  <2>1. CASE Next
    BY <1>2, <2>1, NoFaultStep, LockstepStep, KeyStep
  <2>2. CASE UNCHANGED vars
    <3>1. NoFault' => NoFault
      BY <2>2 DEF NoFault, vars, netVars
    <3> QED
      BY <1>2, <2>2, <3>1, StutterLockstep, StutterKeys
  <2> QED
    BY <1>2, <2>1, <2>2
<1> QED
  BY <1>1, <1>2, AlwaysInv, PTL DEF Spec

(***************************************************************************)
(* Until the first fault, when run_distributed_key_generation returns Ok   *)
(* every signer holds a share of the key it returned, for any number of    *)
(* signers, keys, key generations and odd keys, in every order in which    *)
(* the shares are posted and read: no share of an earlier draw is ever     *)
(* mixed in, although neither side compares a dkg_id.  The key ids of the  *)
(* signers are assumed disjoint, as in HonestPostsVerify.                  *)
(***************************************************************************)
THEOREM KeysAgree == KeysDisjoint => (Spec => [](NoFault => KeyAgreement))
<1> SUFFICES ASSUME KeysDisjoint PROVE Spec => [](NoFault => KeyAgreement)
  OBVIOUS
<1>1. KeyInv => KeyAgreement
  BY DEF KeyInv, DkgOutcome, KeyAfter, KeyAgreement
<1>2. Spec => [](NoFault => Lockstep /\ KeyInv)
  BY AlwaysKeys
<1> QED
  BY <1>1, <1>2, PTL

-----------------------------------------------------------------------------
(* Signing: nonces, shares and keys that belong together *)

\* What aggregator.sign expects of s.
Expected(s) ==
    [nonce |-> public_nonces[s], secret |-> dkg_public_shares,
     message |-> message, nonces |-> public_nonces]

\* Answer m of s has its current nonce, or the share that is expected of it;
\* request m asks for shares of the nonces and the message of the coordinator.
Says(s, m) ==
    /\ m.type = "NonceResponse" => m.nonces = round[s].nonce
    /\ m.type = "SignShareResponse" => m.signature_shares = Expected(s)
Wants(m) ==
    m.type = "SignShareRequest" => m.nonce_responses = public_nonces /\ m.message = message

\* The nonces the coordinator has are the current ones.
NoncesCurrent ==
    phase \in {"nonces", "signature_shares"} =>
        /\ aggregate_public_key # Empty
        /\ \A s \in DOMAIN public_nonces : public_nonces[s] = round[s].nonce

\* Answers and requests on their way.
AnswersSay ==
    \A s \in Signer : /\ \A p \in Replies(s) : Says(s, log[p].msg)
                      /\ \A i \in DOMAIN outbox[s] : Says(s, outbox[s][i])
RequestsWant ==
    /\ \A s \in Signer : \A p \in Asks(s) : Wants(log[p].msg)
    /\ \A i \in DOMAIN outbox[COORDINATOR] : Wants(outbox[COORDINATOR][i])

\* The shares that have been collected for this signature; those of earlier
\* signatures are in the map too.
SharesExpected ==
    phase = "signature_shares" =>
        /\ DOMAIN public_nonces = Signer
        /\ \A s \in Signer \ awaiting :
              s \in DOMAIN signature_shares /\ signature_shares[s] = Expected(s)

\* The inductive invariant of signing.
SignInv == NoncesCurrent /\ AnswersSay /\ RequestsWant /\ SharesExpected /\ SigningSucceeds

\* Outside sign_message nothing is said about signing.
LEMMA ElsewhereSign ==
    Lockstep /\ SigningSucceeds /\ phase \notin {"nonces", "signature_shares"} => SignInv
<1> SUFFICES ASSUME Lockstep, SigningSucceeds, phase \notin {"nonces", "signature_shares"}
             PROVE  SignInv
  OBVIOUS
<1>1. NoncesCurrent /\ SharesExpected
  BY DEF NoncesCurrent, SharesExpected
<1>2. AnswersSay
  <2>1. \A type : Answers(phase, type) => type \notin {"NonceResponse", "SignShareResponse"}
    BY DEF Answers
  <2>2. ASSUME NEW s, NEW m, m.type \in FromSigner => Answers(phase, m.type)
        PROVE  Says(s, m)
    BY <2>1, <2>2 DEF Says, FromSigner
  <2>3. \A s \in Signer : \A p \in Replies(s) : Answers(phase, log[p].msg.type)
    BY DEF Lockstep, AnswersFit
  <2>4. \A s \in Signer : \A i \in DOMAIN outbox[s] :
            outbox[s][i].type \in FromSigner => Answers(phase, outbox[s][i].type)
    BY DEF Lockstep, AnswersFit
  <2> QED
    BY <2>2, <2>3, <2>4 DEF AnswersSay
<1>3. RequestsWant
  <2>1. \A m : Opens(phase, m) => Wants(m)
    BY DEF Opens, Wants
  <2>2. \A s \in Signer : \A p \in Asks(s) : Wants(log[p].msg)
    BY <2>1 DEF Lockstep, RequestsFit
  <2>3. ASSUME NEW i \in DOMAIN outbox[COORDINATOR]
        PROVE  Wants(outbox[COORDINATOR][i])
    <3>1. PICK q : q = outbox[COORDINATOR]
      OBVIOUS
    <3>2. q # << >>
      BY <2>3, <3>1
    <3>3. PICK m : q = <<m>> /\ Opens(phase, m)
      BY <3>1, <3>2 DEF Lockstep, RequestsFit
    <3>4. outbox[COORDINATOR][i] = m
      BY <2>3, <3>1, <3>3
    <3> QED
      BY <2>1, <3>3, <3>4
  <2> QED
    BY <2>2, <2>3 DEF RequestsWant
<1> QED
  BY <1>1, <1>2, <1>3 DEF SignInv

\* The same of the next state.
LEMMA ElsewhereSignNext ==
    (Lockstep /\ SigningSucceeds /\ phase \notin {"nonces", "signature_shares"} => SignInv)'
BY ElsewhereSign, PTL

\* A signature needs the key that everybody has.
LEMMA SigningKey ==
    ASSUME KeyInv, SignInv, phase \in {"nonces", "signature_shares"}
    PROVE  /\ aggregate_public_key = dkg_public_shares /\ DOMAIN dkg_public_shares = Key
           /\ \A s \in Signer : round[s].secret = dkg_public_shares
<1>1. /\ aggregate_public_key = KeyMap /\ dkg_public_shares = KeyMap
      /\ \A s \in Signer : round[s].secret = KeyMap
  BY DEF KeyInv, KeyAfter, SignInv, NoncesCurrent
<1> QED
  BY <1>1 DEF KeyMap

\* While a message is signed every round is idle.
LEMMA SigningIdle ==
    ASSUME Lockstep, phase \in {"nonces", "signature_shares"}, NEW s \in Signer
    PROVE  round[s].state = "Idle"
BY DEF Lockstep, Stages, Stage, Asked, Working, Answered, Finished, Due, Gathers, Settled

\* An answer still says the same when its signer's nonce has not changed.
LEMMA SameSays ==
    ASSUME UNCHANGED coordVars, NEW s, round'[s].nonce = round[s].nonce, NEW m, Says(s, m)
    PROVE  Says(s, m)'
BY DEF Says, Expected, coordVars

\* A request still wants the same when the coordinator has not moved.
LEMMA SameWants ==
    ASSUME UNCHANGED coordVars, NEW m, Wants(m)
    PROVE  Wants(m)'
BY DEF Wants, coordVars

\* What a signer answers while a message is signed.
Signs(s, r, m, res) ==
    \/ res.round.nonce = r.nonce /\ res.out = << >>
    \/ \E a : /\ m.type = "NonceRequest" /\ res.out = <<a>> /\ a.type = "NonceResponse"
              /\ a.nonces = res.round.nonce
    \/ \E a : /\ m.type = "SignShareRequest" /\ res.out = <<a>>
              /\ a.type = "SignShareResponse" /\ res.round.nonce = r.nonce
              /\ a.signature_shares = Share(r, m)

\* An idle round answers so, and only the requests of sign_message.
LEMMA SignsMessage ==
    ASSUME NEW s \in Signer, NEW r, IsRound(r), r.state = "Idle", NEW m, IsMessage(m),
           m.type \notin {"DkgBegin", "DkgPrivateBegin"}
    PROVE  Signs(s, r, m, process(s, r, m))
<1>1. CASE m.type = "NonceRequest"
  <2> DEFINE r1 == [r EXCEPT !.nonce = @ + 1]
             a == [type |-> "NonceResponse", dkg_id |-> m.dkg_id, signer_id |-> s,
                   nonces |-> r.nonce + 1]
  <2>1. process(s, r, m) = PhaseEnd(s, Ok(r1, <<a>>))
    BY <1>1 DEF process, Handle, nonce_request
  <2>2. r1.state = "Idle" /\ r1.nonce = r.nonce + 1
    BY DEF IsRound
  <2>3. a.type = "NonceResponse" /\ a.nonces = r.nonce + 1
    OBVIOUS
  <2> HIDE DEF r1, a
  <2>4. process(s, r, m) = Ok(r1, <<a>>)
    BY <2>1, <2>2, PhaseEndElsewhere
  <2> QED
    BY <1>1, <2>2, <2>3, <2>4 DEF Signs, Ok
<1>2. CASE m.type = "SignShareRequest"
  <2> DEFINE a == [type |-> "SignShareResponse", dkg_id |-> m.dkg_id,
                   signer_id |-> s, signature_shares |-> Share(r, m)]
  <2>1. CASE s \in DOMAIN m.nonce_responses
    <3>1. process(s, r, m) = PhaseEnd(s, Ok(r, <<a>>))
      BY <1>2, <2>1 DEF process, Handle, sign_share_request
    <3>2. a.type = "SignShareResponse" /\ a.signature_shares = Share(r, m)
      OBVIOUS
    <3> HIDE DEF a
    <3>3. process(s, r, m) = Ok(r, <<a>>)
      BY <3>1, PhaseEndElsewhere
    <3> QED
      BY <1>2, <3>2, <3>3 DEF Signs, Ok
  <2>2. CASE s \notin DOMAIN m.nonce_responses
    <3>1. process(s, r, m) = PhaseEnd(s, Ok(r, << >>))
      BY <1>2, <2>2 DEF process, Handle, sign_share_request
    <3>2. process(s, r, m) = Ok(r, << >>)
      BY <3>1, PhaseEndElsewhere
    <3> QED
      BY <3>2 DEF Signs, Ok
  <2> QED
    BY <2>1, <2>2
<1>3. CASE m.type \notin FromCoordinator
  <2>1. PICK r1 : Stored(r, m, r1) /\ process(s, r, m) = PhaseEnd(s, Ok(r1, << >>))
    BY <1>3, OtherMessage, Zenon
  <2>2. r1.state = "Idle" /\ r1.nonce = r.nonce
    BY <2>1 DEF Stored
  <2>3. process(s, r, m) = Ok(r1, << >>)
    BY <2>1, <2>2, PhaseEndElsewhere
  <2> QED
    BY <2>2, <2>3 DEF Signs, Ok
<1> QED
  BY <1>1, <1>2, <1>3 DEF FromCoordinator

\* A signer takes a message.
LEMMA ProcessSign ==
    ASSUME KeysDisjoint, Inv, Lockstep, KeyInv, SignInv, NEW s \in Signer, NEW p,
           SignerProcess(s, p), UNCHANGED coordVars, NoFault', Lockstep'
    PROVE  SignInv'
<1>0. PICK m, res : m = log[p].msg /\ res = process(s, round[s], m)
  OBVIOUS
<1>1. /\ p > pos[s] /\ p \in DOMAIN log /\ log' = log /\ outbox[s] = << >>
      /\ IsMessage(m) /\ IsRound(round[s])
      /\ outbox'[COORDINATOR] = outbox[COORDINATOR]
      /\ outbox'[s] = res.out /\ round'[s] = res.round
      /\ \A t \in Signer : t # s => outbox'[t] = outbox[t] /\ round'[t] = round[t]
      /\ \A t \in Signer : /\ Asks(t)' = IF s = t THEN Asks(t) \ {p} ELSE Asks(t)
                           /\ Replies(t)' = Replies(t)
  BY <1>0, TakeMoves
<1>2. /\ phase' = phase /\ aggregate_public_key' = aggregate_public_key
      /\ public_nonces' = public_nonces /\ signature_shares' = signature_shares
      /\ awaiting' = awaiting /\ outcome' = outcome
  BY DEF coordVars
<1>3. SigningSucceeds'
  BY <1>2 DEF SignInv, SigningSucceeds
<1>4. CASE phase \notin {"nonces", "signature_shares"}
  BY <1>2, <1>3, <1>4, ElsewhereSignNext
<1>5. CASE phase \in {"nonces", "signature_shares"}
  <2>1. m.type \in FromCoordinator =>
           /\ p \in Asks(s) /\ Opens(phase, m) /\ s \in Waited /\ Replies(s) = {}
    BY <1>0, <1>1, TakesRequest DEF Asks
  <2>2. m.type \notin {"DkgBegin", "DkgPrivateBegin"}
    BY <1>5, <2>1 DEF Opens, FromCoordinator
  <2>3. Signs(s, round[s], m, res)
    BY <1>0, <1>1, <1>5, <2>2, SigningIdle, SignsMessage
  <2>4. /\ m.type = "NonceRequest" => phase = "nonces" /\ s \notin DOMAIN public_nonces
        /\ m.type \in {"NonceRequest", "SignShareRequest"} => Replies(s) = {}
        /\ m.type = "SignShareRequest" => phase = "signature_shares" /\ Wants(m)
    BY <1>0, <2>1 DEF Opens, Waited, FromCoordinator, SignInv, RequestsWant
  <2>5. m.type # "NonceRequest" => round'[s].nonce = round[s].nonce
    BY <1>1, <2>3 DEF Signs
  <2>6. \A t \in Signer : t \in DOMAIN public_nonces => round'[t].nonce = round[t].nonce
    BY <1>1, <2>4, <2>5
  <2>7. NoncesCurrent'
    <3>1. DOMAIN public_nonces \subseteq Signer
      BY DEF Inv, CoordInv, IsMap
    <3> QED
      BY <1>2, <1>5, <2>6, <3>1 DEF NoncesCurrent, SignInv
  <2>8. \A t \in Signer : t # s \/ m.type # "NonceRequest" => round'[t].nonce = round[t].nonce
    BY <1>1, <2>5
  <2>9. AnswersSay'
    <3>1. ASSUME NEW t \in Signer, NEW q \in Replies(t)
          PROVE  Says(t, log[q].msg)'
      <4>1. PICK e : e = log[q].msg
        OBVIOUS
      <4>2. round'[t].nonce = round[t].nonce
        BY <2>4, <2>8
      <4>3. Says(t, e)
        BY <4>1 DEF SignInv, AnswersSay
      <4>4. Says(t, e)'
        BY <4>2, <4>3, SameSays
      <4> QED
        BY <1>1, <4>1, <4>4 DEF Says
    <3>2. ASSUME NEW t \in Signer, NEW i \in DOMAIN outbox'[t], NEW e, e = outbox'[t][i]
          PROVE  Says(t, e)'
      <4>1. CASE t # s
        <5>1. Says(t, e)
          BY <1>1, <3>2, <4>1 DEF SignInv, AnswersSay
        <5> QED
          BY <2>8, <4>1, <5>1, SameSays
      <4>2. CASE t = s
        <5>1. res.out # << >> /\ e = res.out[i] /\ i \in DOMAIN res.out
          BY <1>1, <3>2, <4>2
        <5>2. CASE /\ m.type = "NonceRequest" /\ res.out = <<e>> /\ e.type = "NonceResponse"
                   /\ e.nonces = res.round.nonce
          BY <1>1, <4>2, <5>2 DEF Says
        <5>3. CASE /\ m.type = "SignShareRequest" /\ e.type = "SignShareResponse"
                   /\ e.signature_shares = Share(round[s], m)
          <6>1. m.nonce_responses = public_nonces /\ m.message = message
            BY <2>4, <5>3 DEF Wants
          <6>2. phase = "signature_shares"
            BY <2>4, <5>3
          <6>3. round[s].nonce = public_nonces[s]
            BY <6>2 DEF SignInv, NoncesCurrent, SharesExpected
          <6>4. round[s].secret = dkg_public_shares
            BY <1>5, SigningKey
          <6>5. Share(round[s], m) = Expected(s)
            BY <6>1, <6>3, <6>4 DEF Share, Expected
          <6>6. Expected(s)' = Expected(s)
            BY DEF Expected, coordVars
          <6> QED
            BY <4>2, <5>3, <6>5, <6>6 DEF Says
        <5>4. \A a : res.out = <<a>> => a = e
          BY <5>1
        <5> QED
          BY <2>3, <5>1, <5>2, <5>3, <5>4 DEF Signs
      <4> QED
        BY <4>1, <4>2
    <3>3. \A t \in Signer : \A i \in DOMAIN outbox'[t] : Says(t, outbox[t][i])'
      BY <3>2 DEF Says
    <3> QED
      BY <1>1, <3>1, <3>3 DEF AnswersSay
  <2>10. RequestsWant'
    <3>1. \A e : Wants(e) => Wants(e)'
      BY SameWants
    <3>2. \A t \in Signer : \A q \in Asks(t) : Wants(log[q].msg)'
      BY <1>1, <3>1 DEF SignInv, RequestsWant, Wants
    <3>3. \A i \in DOMAIN outbox[COORDINATOR] : Wants(outbox[COORDINATOR][i])'
      BY <1>1, <3>1 DEF SignInv, RequestsWant, Wants
    <3> QED
      BY <1>1, <3>2, <3>3 DEF RequestsWant
  <2>11. SharesExpected'
    <3>1. \A t : Expected(t)' = Expected(t)
      BY DEF Expected, coordVars
    <3> QED
      BY <1>2, <3>1 DEF SignInv, SharesExpected
  <2> QED
    BY <1>3, <2>7, <2>9, <2>10, <2>11 DEF SignInv
<1> QED
  BY <1>4, <1>5

\* A step that leaves the rounds and the coordinator alone.
LEMMA SameSign ==
    ASSUME SignInv, UNCHANGED signerVars, UNCHANGED coordVars
    PROVE  /\ NoncesCurrent' /\ SharesExpected' /\ SigningSucceeds'
           /\ \A s, m : Says(s, m) => Says(s, m)'
           /\ \A m : Wants(m) => Wants(m)'
<1>1. /\ phase' = phase /\ aggregate_public_key' = aggregate_public_key /\ round' = round
      /\ public_nonces' = public_nonces /\ signature_shares' = signature_shares
      /\ awaiting' = awaiting /\ outcome' = outcome
  BY DEF coordVars, signerVars
<1>2. NoncesCurrent' /\ SigningSucceeds'
  BY <1>1 DEF SignInv, NoncesCurrent, SigningSucceeds
<1>3. \A t : Expected(t)' = Expected(t)
  BY DEF Expected, coordVars
<1>4. SharesExpected'
  BY <1>1, <1>3 DEF SignInv, SharesExpected
<1>5. \A s, m : Says(s, m) => Says(s, m)'
  BY <1>1, SameSays
<1>6. \A m : Wants(m) => Wants(m)'
  BY SameWants
<1> QED
  BY <1>2, <1>4, <1>5, <1>6

\* A signer posts an answer.
LEMMA SignerPostSign ==
    ASSUME Inv, SignInv, NEW s \in Signer, PostAnswered(s), UNCHANGED signerVars,
           UNCHANGED coordVars
    PROVE  SignInv'
<1>0. PICK m, L : m = Head(outbox[s]) /\ L = Len(log) + 1
  OBVIOUS
<1>1. /\ DOMAIN outbox = Node /\ s \in Node /\ COORDINATOR \in Node /\ s # COORDINATOR
      /\ Signer \subseteq Node
  BY FrostAssumption DEF Inv, NetInv, OutboxInv, Node
<1>2. /\ L \notin DOMAIN log /\ DOMAIN log' = DOMAIN log \cup {L}
      /\ \A p \in DOMAIN log : log'[p] = log[p]
      /\ log'[L].msg = m
      /\ outbox' = [outbox EXCEPT ![s] = Tail(outbox[s])]
      /\ IsSeq(outbox[s]) /\ outbox[s] # << >>
  BY <1>0, <1>1, PostMoves
<1>3. \A t \in Signer :
        /\ Asks(t)' = Asks(t)
        /\ Replies(t)' = IF s = t /\ m.type \in FromSigner THEN Replies(t) \cup {L}
                         ELSE Replies(t)
  BY <1>0, <1>1, PostUnread
<1>4. /\ outbox'[COORDINATOR] = outbox[COORDINATOR] /\ outbox'[s] = Tail(outbox[s])
      /\ \A t \in Signer \ {s} : outbox'[t] = outbox[t]
  BY <1>1, <1>2
<1>5. m = outbox[s][1] /\ 1 \in DOMAIN outbox[s]
  BY <1>0, <1>2, TailIsSeq
<1>6. \A i \in DOMAIN Tail(outbox[s]) :
         i + 1 \in DOMAIN outbox[s] /\ Tail(outbox[s])[i] = outbox[s][i + 1]
  BY <1>2, TailIsSeq, SeqFacts
<1>7. /\ NoncesCurrent' /\ SharesExpected' /\ SigningSucceeds'
      /\ \A t, e : Says(t, e) => Says(t, e)'
      /\ \A e : Wants(e) => Wants(e)'
  BY SameSign
<1>8. Says(s, m)
  BY <1>5 DEF SignInv, AnswersSay
<1>9. \A t \in Signer : \A q \in Replies(t)' : Says(t, log'[q].msg)
  <2>1. \A t \in Signer : \A q \in Replies(t) : q \in DOMAIN log
    BY DEF Replies
  <2> QED
    BY <1>2, <1>3, <1>8, <2>1 DEF SignInv, AnswersSay
<1>10. \A t \in Signer : \A i \in DOMAIN outbox'[t] : Says(t, outbox'[t][i])
  <2>1. \A i \in DOMAIN Tail(outbox[s]) : Says(s, Tail(outbox[s])[i])
    BY <1>6 DEF SignInv, AnswersSay
  <2> QED
    BY <1>4, <2>1 DEF SignInv, AnswersSay
<1>11. AnswersSay'
  <2>1. \A t \in Signer : \A q \in Replies(t)' : Says(t, log[q].msg)'
    <3>1. SUFFICES ASSUME NEW t \in Signer, NEW q \in Replies(t)' PROVE Says(t, log[q].msg)'
      OBVIOUS
    <3>2. PICK e : e = log'[q].msg
      OBVIOUS
    <3>3. Says(t, e)'
      BY <1>7, <1>9, <3>2
    <3> QED
      BY <3>2, <3>3 DEF Says
  <2>2. \A t \in Signer : \A i \in DOMAIN outbox'[t] : Says(t, outbox[t][i])'
    <3>1. SUFFICES ASSUME NEW t \in Signer, NEW i \in DOMAIN outbox'[t]
                   PROVE  Says(t, outbox[t][i])'
      OBVIOUS
    <3>2. PICK e : e = outbox'[t][i]
      OBVIOUS
    <3>3. Says(t, e)'
      BY <1>7, <1>10, <3>2
    <3> QED
      BY <3>2, <3>3 DEF Says
  <2> QED
    BY <2>1, <2>2 DEF AnswersSay
<1>12. RequestsWant'
  <2>1. \A t \in Signer : \A q \in Asks(t) : q \in DOMAIN log
    BY DEF Asks
  <2>2. \A t \in Signer : \A q \in Asks(t)' : Wants(log[q].msg)'
    <3>1. SUFFICES ASSUME NEW t \in Signer, NEW q \in Asks(t) PROVE Wants(log[q].msg)'
      BY <1>3
    <3>2. PICK e : e = log[q].msg /\ e = log'[q].msg
      BY <1>2, <2>1
    <3>3. Wants(e)'
      BY <1>7, <3>2 DEF SignInv, RequestsWant
    <3> QED
      BY <3>2, <3>3 DEF Wants
  <2>3. \A i \in DOMAIN outbox'[COORDINATOR] : Wants(outbox[COORDINATOR][i])'
    <3>1. SUFFICES ASSUME NEW i \in DOMAIN outbox[COORDINATOR]
                   PROVE  Wants(outbox[COORDINATOR][i])'
      BY <1>4
    <3>2. PICK e : e = outbox[COORDINATOR][i] /\ e = outbox'[COORDINATOR][i]
      BY <1>4
    <3>3. Wants(e)'
      BY <1>7, <3>2 DEF SignInv, RequestsWant
    <3> QED
      BY <3>2, <3>3 DEF Wants
  <2> QED
    BY <2>2, <2>3 DEF RequestsWant
<1> QED
  BY <1>7, <1>11, <1>12 DEF SignInv

\* The coordinator posts its request.
LEMMA CoordinatorPostSign ==
    ASSUME Inv, Lockstep, SignInv, PostAnswered(COORDINATOR), UNCHANGED signerVars,
           UNCHANGED coordVars
    PROVE  SignInv'
<1> DEFINE C == COORDINATOR
<1>0. PICK m, L : m = Head(outbox[C]) /\ L = Len(log) + 1
  OBVIOUS
<1>1. DOMAIN outbox = Node /\ C \in Node /\ \A t \in Signer : t \in Node /\ t # C
  BY FrostAssumption DEF Inv, NetInv, OutboxInv, Node
<1>2. /\ L \notin DOMAIN log /\ DOMAIN log' = DOMAIN log \cup {L}
      /\ log'[L].msg = m
      /\ outbox' = [outbox EXCEPT ![C] = Tail(outbox[C])]
      /\ outbox[C] # << >> /\ IsSeq(outbox[C])
  BY <1>0, <1>1, PostMoves
<1>3. \A t \in Signer : Asks(t)' = Asks(t) \cup {L} /\ Replies(t)' = Replies(t)
  BY <1>0, <1>1, PostUnread
<1>4. outbox[C] = <<m>>
  BY <1>0, <1>2 DEF Lockstep, RequestsFit
<1>5. outbox'[C] = << >> /\ \A t \in Signer : outbox'[t] = outbox[t]
  BY <1>1, <1>2, <1>4
<1>6. \A t \in Signer : Asks(t) = {} /\ Replies(t) = {} /\ outbox[t] = << >>
  BY <1>2 DEF Lockstep, Stages, Stage, Asked, Working, Answered, Finished, Quiet
<1>7. /\ NoncesCurrent' /\ SharesExpected' /\ SigningSucceeds'
      /\ \A e : Wants(e) => Wants(e)'
  BY SameSign
<1>8. Wants(m)'
  <2>1. Wants(m)
    BY <1>4 DEF SignInv, RequestsWant
  <2> QED
    BY <1>7, <2>1
<1>9. AnswersSay'
  BY <1>3, <1>5, <1>6 DEF AnswersSay
<1>10. RequestsWant'
  <2>1. \A t \in Signer : Asks(t)' = {L}
    BY <1>3, <1>6
  <2>2. Wants(log[L].msg)'
    BY <1>2, <1>8 DEF Wants
  <2> QED
    BY <1>5, <2>1, <2>2 DEF RequestsWant
<1> QED
  BY <1>7, <1>9, <1>10 DEF SignInv

\* A request of sign_message goes out when nothing is under way.
LEMMA OpenSign ==
    ASSUME NEW m, outbox'[COORDINATOR] = <<m>>, Wants(m)',
           \A s \in Signer : Asks(s)' = {} /\ Replies(s)' = {} /\ outbox'[s] = << >>,
           phase' = "nonces" \/ (awaiting' = Signer /\ DOMAIN public_nonces' = Signer),
           NoncesCurrent', SigningSucceeds'
    PROVE  SignInv'
<1>1. AnswersSay'
  BY DEF AnswersSay
<1>2. RequestsWant'
  <2>1. \A i \in DOMAIN outbox'[COORDINATOR] : outbox'[COORDINATOR][i] = m
    OBVIOUS
  <2>2. \A i \in DOMAIN outbox'[COORDINATOR] : Wants(outbox[COORDINATOR][i])'
    BY <2>1 DEF Wants
  <2> QED
    BY <2>2 DEF RequestsWant
<1>3. SharesExpected'
  BY DEF SharesExpected
<1> QED
  BY <1>1, <1>2, <1>3 DEF SignInv

\* A command starts.
LEMMA StartSigns ==
    ASSUME Inv, Lockstep, SignInv, UNCHANGED signerVars, Lockstep',
           StartDkg \/ \E msg \in Payload : StartSign(msg)
    PROVE  SignInv'
<1>1. phase = "ready" /\ log' = log /\ pos' = pos
  BY DEF StartDkg, StartSign
<1>2. SigningSucceeds'
  BY DEF StartDkg, StartSign, Return, SigningSucceeds
<1>3. CASE phase' \notin {"nonces", "signature_shares"}
  BY <1>2, <1>3, ElsewhereSignNext
<1>4. CASE phase' \in {"nonces", "signature_shares"}
  <2>1. /\ aggregate_public_key # Empty /\ aggregate_public_key' = aggregate_public_key
        /\ phase' = "nonces" /\ public_nonces' = Empty
    BY <1>1, <1>4 DEF StartDkg, StartSign, Return
  <2>2. PICK m : m.type = "NonceRequest" /\ Send(m)
    BY <1>4, <2>1 DEF StartDkg, StartSign, NonceRequest
  <2>3. /\ DOMAIN outbox = Node /\ COORDINATOR \in Node
        /\ \A s \in Signer : s \in Node /\ s # COORDINATOR
    BY FrostAssumption DEF Inv, NetInv, OutboxInv, Node
  <2>4. outbox'[COORDINATOR] = <<m>> /\ \A s \in Signer : outbox'[s] = outbox[s]
    BY <2>2, <2>3 DEF Send
  <2>5. \A s \in Signer : Asks(s)' = Asks(s) /\ Replies(s)' = Replies(s)
    BY <1>1 DEF Asks, Replies
  <2>6. \A s \in Signer : Asks(s)' = {} /\ Replies(s)' = {} /\ outbox'[s] = << >>
    BY <1>1, <2>4, <2>5, ReadyRests
  <2>7. Wants(m)'
    BY <2>2 DEF Wants
  <2>8. NoncesCurrent'
    BY <2>1 DEF NoncesCurrent, Empty
  <2> QED
    BY <1>2, <2>1, <2>4, <2>6, <2>7, <2>8, OpenSign
<1> QED
  BY <1>3, <1>4

\* The nonces that the coordinator has after a read are current.
LEMMA NoncesRead ==
    ASSUME Inv, Lockstep, SignInv, UNCHANGED signerVars, NEW p, NEW K,
           Receive(COORDINATOR, p, K), NoFault', phase = "nonces",
           NEW nonces, nonces = NoncesWith(log[p].msg)
    PROVE  /\ aggregate_public_key # Empty
           /\ \A s \in DOMAIN nonces : nonces[s] = round'[s].nonce
<1> DEFINE m == log[p].msg
<1>1. aggregate_public_key # Empty /\ \A s \in DOMAIN public_nonces : public_nonces[s] = round[s].nonce
  BY DEF SignInv, NoncesCurrent
<1>2. m.type = "NonceResponse" => m.nonces = round[m.signer_id].nonce
  <2>1. SUFFICES ASSUME m.type = "NonceResponse" PROVE m.nonces = round[m.signer_id].nonce
    OBVIOUS
  <2>2. m.signer_id \in Signer
    BY <2>1, ReadAnswer DEF FromSigner
  <2>3. p \in Replies(m.signer_id)
    BY <2>1, ReadFrame DEF Replies, FromSigner
  <2> QED
    BY <2>1, <2>2, <2>3 DEF SignInv, AnswersSay, Says
<1> HIDE DEF m
<1>3. nonces = IF m.type = "NonceResponse" THEN Insert(public_nonces, m.signer_id, m.nonces)
               ELSE public_nonces
  BY DEF NoncesWith, m
<1>4. \A s \in DOMAIN nonces : nonces[s] = round[s].nonce
  BY <1>1, <1>2, <1>3 DEF Insert
<1> QED
  BY <1>1, <1>4 DEF signerVars

\* collect_nonces goes on.
LEMMA CollectNoncesSign ==
    ASSUME Inv, Lockstep, SignInv, UNCHANGED signerVars, NEW p, CollectNonces(p), NoFault',
           Lockstep'
    PROVE  SignInv'
<1>1. /\ phase = "nonces" /\ phase' = phase /\ outbox' = outbox
      /\ Receive(COORDINATOR, p, {}) /\ outcome' = outcome
      /\ public_nonces' = NoncesWith(log[p].msg)
      /\ aggregate_public_key' = aggregate_public_key
  BY DEF CollectNonces, SendNothing
<1>2. NoncesCurrent'
  BY <1>1, NoncesRead DEF NoncesCurrent
<1>3. SharesExpected' /\ SigningSucceeds'
  BY <1>1 DEF SignInv, SharesExpected, SigningSucceeds
<1>4. \A s \in Signer : /\ log' = log /\ Asks(s)' = Asks(s) /\ Replies(s)' \subseteq Replies(s)
                        /\ round'[s] = round[s]
  BY <1>1, ReadStages
<1>5. log' = log
  BY <1>1, ReadFrame
<1>6. ASSUME NEW s \in Signer, NEW m, Says(s, m), m.type \in FromSigner => Answers(phase, m.type)
      PROVE  Says(s, m)'
  <2>1. m.type # "SignShareResponse"
    BY <1>1, <1>6 DEF Answers, FromSigner
  <2> QED
    BY <1>4, <1>6, <2>1 DEF Says
<1>7. AnswersSay'
  <2>1. ASSUME NEW s \in Signer, NEW q \in Replies(s)'
        PROVE  Says(s, log[q].msg)'
    <3>1. PICK m : m = log[q].msg
      OBVIOUS
    <3>2. Says(s, m) /\ Answers(phase, m.type)
      BY <1>4, <2>1, <3>1 DEF SignInv, AnswersSay, Lockstep, AnswersFit
    <3>3. Says(s, m)'
      BY <1>6, <3>2
    <3> QED
      BY <1>5, <3>1, <3>3 DEF Says
  <2>2. ASSUME NEW s \in Signer, NEW i \in DOMAIN outbox[s]
        PROVE  Says(s, outbox[s][i])'
    <3>1. PICK m : m = outbox[s][i]
      OBVIOUS
    <3>2. Says(s, m) /\ (m.type \in FromSigner => Answers(phase, m.type))
      BY <2>2, <3>1 DEF SignInv, AnswersSay, Lockstep, AnswersFit
    <3>3. Says(s, m)'
      BY <1>6, <3>2
    <3> QED
      BY <1>1, <3>1, <3>3 DEF Says
  <2> QED
    BY <1>1, <2>1, <2>2 DEF AnswersSay
<1>8. RequestsWant'
  <2>1. \A m : Opens(phase, m) => Wants(m)'
    BY <1>1 DEF Opens, Wants
  <2>2. ASSUME NEW s \in Signer, NEW q \in Asks(s)
        PROVE  Wants(log[q].msg)'
    <3>1. PICK m : m = log[q].msg /\ Opens(phase, m)
      BY <2>2 DEF Lockstep, RequestsFit
    <3> QED
      BY <1>5, <2>1, <3>1 DEF Wants
  <2>3. outbox'[COORDINATOR] = << >>
    BY <1>1, ReadFrame
  <2> QED
    BY <1>4, <2>2, <2>3 DEF RequestsWant
<1> QED
  BY <1>2, <1>3, <1>7, <1>8 DEF SignInv

\* The nonces are complete.
LEMMA NoncesDoneSign ==
    ASSUME Inv, Lockstep, KeyInv, SignInv, UNCHANGED signerVars, NEW p, NoncesDone(p), NoFault'
    PROVE  SignInv'
<1>0. PICK nonces : nonces = NoncesWith(log[p].msg)
  OBVIOUS
<1>1. PICK K : Receive(COORDINATOR, p, K)
  BY DEF NoncesDone
<1>2. /\ phase = "nonces" /\ DOMAIN nonces = Signer
      /\ aggregate_public_key' = aggregate_public_key
  BY <1>0 DEF NoncesDone
<1>3. Left(log[p].msg) = {}
  BY <1>0, <1>1, <1>2, NoncesLeft
<1>4. /\ \A s \in Signer : Asks(s)' = {} /\ Replies(s)' = {} /\ outbox[s] = << >>
      /\ \A m : Send(m) => /\ outbox'[COORDINATOR] = <<m>>
                           /\ \A s \in Signer : outbox'[s] = outbox[s]
  BY <1>1, <1>3, LastRead
<1>5. aggregate_public_key # Empty /\ \A s \in DOMAIN nonces : nonces[s] = round'[s].nonce
  BY <1>0, <1>1, <1>2, NoncesRead
<1>6. CASE AggregateNonceOdd
  <2>1. PICK m : m.type = "NonceRequest" /\ Send(m)
    BY <1>6 DEF AggregateNonceOdd, NonceRequest
  <2>2. phase' = "nonces" /\ public_nonces' = Empty /\ outcome' = outcome
    BY <1>2, <1>6 DEF AggregateNonceOdd
  <2>3. Wants(m)'
    BY <2>1 DEF Wants
  <2>4. NoncesCurrent'
    BY <1>2, <1>5, <2>2 DEF NoncesCurrent, Empty
  <2>5. SigningSucceeds'
    BY <2>2 DEF SignInv, SigningSucceeds
  <2> QED
    BY <1>4, <2>1, <2>2, <2>3, <2>4, <2>5, OpenSign
<1>7. CASE AggregateNonceEven(nonces)
  <2>1. DOMAIN dkg_public_shares = Key
    BY <1>2, SigningKey
  <2>2. PICK m : m = [type |-> "SignShareRequest", dkg_id |-> current_dkg_id,
                      nonce_responses |-> nonces, message |-> message]
    OBVIOUS
  <2>3. /\ Send(m) /\ awaiting' = Signer /\ phase' = "signature_shares" /\ outcome' = outcome
        /\ public_nonces' = nonces
    BY <1>2, <1>7, <2>1, <2>2 DEF AggregateNonceEven
  <2>4. message' = message
    BY DEF NoncesDone
  <2>5. m.nonce_responses = nonces /\ m.message = message
    BY <2>2
  <2>6. Wants(m)'
    BY <2>3, <2>4, <2>5 DEF Wants
  <2>7. NoncesCurrent'
    BY <1>2, <1>5, <2>3 DEF NoncesCurrent
  <2>8. SigningSucceeds'
    BY <2>3 DEF SignInv, SigningSucceeds
  <2>9. DOMAIN public_nonces' = Signer
    BY <1>2, <2>3
  <2> QED
    BY <1>4, <2>3, <2>6, <2>7, <2>8, <2>9, OpenSign
<1> QED
  BY <1>0, <1>6, <1>7 DEF NoncesDone

\* collect_signature_shares and the end of sign_message.
LEMMA CollectSignatureSharesSign ==
    ASSUME Inv, Lockstep, KeyInv, SignInv, UNCHANGED signerVars, NEW p,
           CollectSignatureShares(p), NoFault', Lockstep'
    PROVE  SignInv'
<1>1. /\ phase = "signature_shares" /\ outbox' = outbox /\ Receive(COORDINATOR, p, {})
      /\ dkg_public_shares' = dkg_public_shares /\ public_nonces' = public_nonces
      /\ aggregate_public_key' = aggregate_public_key /\ message' = message
  BY DEF CollectSignatureShares, SendNothing
<1>2. PICK m : m = log[p].msg
  OBVIOUS
<1>3. PICK new : new <=> m.type = "SignShareResponse" /\ m.signer_id \in awaiting
  OBVIOUS
<1>4. PICK left : left = IF new THEN awaiting \ {m.signer_id} ELSE awaiting
  OBVIOUS
<1>5. PICK shares : shares = IF new THEN Insert(signature_shares, m.signer_id, m.signature_shares)
                             ELSE signature_shares
  OBVIOUS
<1>6. /\ signature_shares' = shares
      /\ IF left = {} THEN Return(SignResult(shares))
         ELSE awaiting' = left /\ UNCHANGED <<phase, outcome>>
  BY <1>2, <1>3, <1>4, <1>5 DEF CollectSignatureShares
<1>7. new => m.signer_id \in Signer /\ m.signature_shares = Expected(m.signer_id)
  <2>1. SUFFICES ASSUME new PROVE m.signer_id \in Signer /\ m.signature_shares = Expected(m.signer_id)
    OBVIOUS
  <2>2. m.type = "SignShareResponse" /\ m.signer_id \in Signer
    BY <1>3, <2>1 DEF Inv, CoordInv
  <2>3. p \in Replies(m.signer_id)
    BY <1>1, <1>2, <2>2, ReadFrame DEF Replies, FromSigner
  <2> QED
    BY <1>2, <2>2, <2>3 DEF SignInv, AnswersSay, Says
<1>8. \A s \in Signer \ left : s \in DOMAIN shares /\ shares[s] = Expected(s)
  <2>1. \A s \in Signer \ awaiting :
            s \in DOMAIN signature_shares /\ signature_shares[s] = Expected(s)
    BY <1>1 DEF SignInv, SharesExpected
  <2> QED
    BY <1>4, <1>5, <1>7, <2>1 DEF Insert
<1>9. DOMAIN public_nonces = Signer
  BY <1>1 DEF SignInv, SharesExpected
<1>10. CASE left = {}
  <2>1. phase' = "ready" /\ outcome' = SignResult(shares)
    BY <1>6, <1>10 DEF Return
  <2>2. aggregator_sign(shares)
    BY <1>8, <1>9, <1>10 DEF aggregator_sign, Expected
  <2>3. proof_verify
    BY <1>1, SigningKey DEF proof_verify
  <2>4. SigningSucceeds'
    BY <2>1, <2>2, <2>3 DEF SignResult, SigningSucceeds
  <2> QED
    BY <2>1, <2>4, ElsewhereSignNext
<1>11. CASE left # {}
  <2>1. awaiting' = left /\ phase' = phase /\ outcome' = outcome
    BY <1>6, <1>11
  <2>2. \A s \in Signer : /\ Asks(s)' = Asks(s) /\ Replies(s)' \subseteq Replies(s)
                          /\ round'[s] = round[s]
    BY <1>1, ReadStages
  <2>3. log' = log
    BY <1>1, ReadFrame
  <2>4. \A s : Expected(s)' = Expected(s)
    BY <1>1 DEF Expected
  <2>5. NoncesCurrent' /\ SigningSucceeds'
    BY <1>1, <2>1 DEF SignInv, NoncesCurrent, SigningSucceeds, signerVars
  <2>6. SharesExpected'
    BY <1>1, <1>6, <1>8, <1>9, <2>1, <2>4 DEF SharesExpected
  <2>7. \A s \in Signer : \A e : Says(s, e) => Says(s, e)'
    BY <2>2, <2>4 DEF Says
  <2>8. AnswersSay'
    <3>1. ASSUME NEW s \in Signer, NEW q \in Replies(s)'
          PROVE  Says(s, log[q].msg)'
      <4>1. PICK e : e = log[q].msg
        OBVIOUS
      <4>2. Says(s, e)'
        BY <2>2, <2>7, <3>1, <4>1 DEF SignInv, AnswersSay
      <4> QED
        BY <2>3, <4>1, <4>2 DEF Says
    <3>2. ASSUME NEW s \in Signer, NEW i \in DOMAIN outbox[s]
          PROVE  Says(s, outbox[s][i])'
      <4>1. PICK e : e = outbox[s][i]
        OBVIOUS
      <4>2. Says(s, e)'
        BY <2>7, <3>2, <4>1 DEF SignInv, AnswersSay
      <4> QED
        BY <1>1, <4>1, <4>2 DEF Says
    <3> QED
      BY <1>1, <3>1, <3>2 DEF AnswersSay
  <2>9. RequestsWant'
    <3>1. \A s \in Signer : \A q \in Asks(s) : Wants(log[q].msg)'
      BY <1>1, <2>3 DEF SignInv, RequestsWant, Wants
    <3>2. outbox'[COORDINATOR] = << >>
      BY <1>1, ReadFrame
    <3> QED
      BY <2>2, <3>1, <3>2 DEF RequestsWant
  <2> QED
    BY <2>5, <2>6, <2>8, <2>9 DEF SignInv
<1> QED
  BY <1>10, <1>11

\* The reads of a key generation.
LEMMA DkgReadSign ==
    ASSUME SignInv, NEW p, Lockstep',
           WaitForPublicShares(p) \/ PublicSharesDone(p) \/ WaitForDkgEnd(p)
    PROVE  SignInv'
<1>1. /\ phase' \notin {"nonces", "signature_shares"} /\ outcome' \in {outcome, "dkg"}
  BY DEF WaitForPublicShares, PublicSharesDone, AggregateKeyEven, AggregateKeyOdd,
         WaitForDkgEnd, Return
<1>2. SigningSucceeds'
  BY <1>1 DEF SignInv, SigningSucceeds
<1> QED
  BY <1>1, <1>2, ElsewhereSignNext

\* The steps of a system without faults.
LEMMA SignStep ==
    ASSUME KeysDisjoint, Inv, Lockstep, KeyInv, SignInv, Step, NoFault', Lockstep'
    PROVE  SignInv'
<1>1. CASE \E s \in Signer : \E p \in 1..Len(log) : SignerProcess(s, p) /\ UNCHANGED coordVars
  BY <1>1, ProcessSign
<1>2. CASE \E s \in Signer : PostAnswered(s) /\ UNCHANGED signerVars /\ UNCHANGED coordVars
  BY <1>2, SignerPostSign
<1>3. CASE (StartDkg \/ \E msg \in Payload : StartSign(msg)) /\ UNCHANGED signerVars
  BY <1>3, StartSigns
<1>4. CASE \E p \in 1..Len(log) : CoordinatorReceive(p) /\ UNCHANGED signerVars
  BY <1>4, DkgReadSign, CollectNoncesSign, NoncesDoneSign, CollectSignatureSharesSign
  DEF CoordinatorReceive
<1>5. CASE PostAnswered(COORDINATOR) /\ UNCHANGED coordVars /\ UNCHANGED signerVars
  BY <1>5, CoordinatorPostSign
<1> QED
  BY <1>1, <1>2, <1>3, <1>4, <1>5 DEF Step

\* Nothing happens.
LEMMA StutterSign ==
    ASSUME SignInv, UNCHANGED vars
    PROVE  SignInv'
<1>1. /\ log' = log /\ pos' = pos /\ outbox' = outbox
      /\ UNCHANGED signerVars /\ UNCHANGED coordVars
  BY DEF vars, netVars
<1>2. \A s : Asks(s)' = Asks(s) /\ Replies(s)' = Replies(s)
  BY <1>1 DEF Asks, Replies
<1>3. /\ NoncesCurrent' /\ SharesExpected' /\ SigningSucceeds'
      /\ \A s, m : Says(s, m) => Says(s, m)'
      /\ \A m : Wants(m) => Wants(m)'
  BY <1>1, SameSign
<1>4. AnswersSay'
  <2>1. \A s \in Signer : \A q \in Replies(s) : Says(s, log[q].msg)'
    <3>1. SUFFICES ASSUME NEW s \in Signer, NEW q \in Replies(s) PROVE Says(s, log[q].msg)'
      OBVIOUS
    <3>2. PICK m : m = log[q].msg
      OBVIOUS
    <3>3. Says(s, m)'
      BY <1>3, <3>2 DEF SignInv, AnswersSay
    <3> QED
      BY <1>1, <3>2, <3>3 DEF Says
  <2>2. \A s \in Signer : \A i \in DOMAIN outbox[s] : Says(s, outbox[s][i])'
    <3>1. SUFFICES ASSUME NEW s \in Signer, NEW i \in DOMAIN outbox[s]
                   PROVE  Says(s, outbox[s][i])'
      OBVIOUS
    <3>2. PICK m : m = outbox[s][i]
      OBVIOUS
    <3>3. Says(s, m)'
      BY <1>3, <3>2 DEF SignInv, AnswersSay
    <3> QED
      BY <1>1, <3>2, <3>3 DEF Says
  <2> QED
    BY <1>1, <1>2, <2>1, <2>2 DEF AnswersSay
<1>5. RequestsWant'
  BY <1>1, <1>2 DEF SignInv, RequestsWant, Wants, coordVars
<1> QED
  BY <1>3, <1>4, <1>5 DEF SignInv

\* The invariant of signing holds until the first fault.
LEMMA AlwaysSign == KeysDisjoint => (Spec => [](NoFault => SignInv))
<1> SUFFICES ASSUME KeysDisjoint PROVE Spec => [](NoFault => SignInv)
  OBVIOUS
<1>0. Spec => [](NoFault => Lockstep /\ KeyInv)
  BY AlwaysKeys
<1>1. Init => (NoFault => SignInv)
  <2>1. Init => phase = "ready" /\ SigningSucceeds
    BY DEF Init, CoordinatorInit, SigningSucceeds
  <2> QED
    BY <2>1, InitLockstep, ElsewhereSign
<1>2. ASSUME Inv, NoFault => Lockstep /\ KeyInv, (NoFault => Lockstep /\ KeyInv)',
             NoFault => SignInv, [Next]_vars
      PROVE  (NoFault => SignInv)'
  <2>1. CASE Next
    BY <1>2, <2>1, NoFaultStep, SignStep
  <2>2. CASE UNCHANGED vars
    <3>1. NoFault' => NoFault
      BY <2>2 DEF NoFault, vars, netVars
    <3> QED
      BY <1>2, <2>2, <3>1, StutterSign
  <2> QED
    BY <1>2, <2>1, <2>2
<1> QED
  BY <1>0, <1>1, <1>2, AlwaysInv, PTL DEF Spec

(***************************************************************************)
(* Until the first fault sign_message never ends with an error of the      *)
(* aggregator or of proof.verify, for any number of signers, keys and      *)
(* commands, in every order of posts and reads and however often R is odd: *)
(* every share it adds up was made for this message and these nonces, with *)
(* the nonce that its signer published last and the key of the last key    *)
(* generation, although signature_shares still holds the shares of earlier *)
(* signatures and sign_share_request compares no id.  The key ids of the   *)
(* signers are assumed disjoint, as in HonestPostsVerify.                  *)
(***************************************************************************)
THEOREM SigningNeverFails == KeysDisjoint => (Spec => [](NoFault => SigningSucceeds))
<1> SUFFICES ASSUME KeysDisjoint PROVE Spec => [](NoFault => SigningSucceeds)
  OBVIOUS
<1>1. SignInv => SigningSucceeds
  BY DEF SignInv
<1>2. Spec => [](NoFault => SignInv)
  BY AlwaysSign
<1> QED
  BY <1>1, <1>2, PTL
=============================================================================
