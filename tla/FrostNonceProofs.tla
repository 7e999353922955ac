-------------------------- MODULE FrostNonceProofs --------------------------
(***************************************************************************)
(* No signer uses a nonce for two different requests, as long as no        *)
(* response of the relay with a message in it is lost: for any number of   *)
(* signers, keys and commands, whatever is posted twice, times out, is     *)
(* given up or is restarted.                                               *)
(***************************************************************************)
EXTENDS FrostProofs

\* The message at p of l asks for signature shares.
IsRequest(l, p) == l[p].msg.type = "SignShareRequest"

\* New nonces are asked for after position p of l and up to q.
Asked(l, p, q) == \E r \in (p + 1)..q : l[r].msg.type = "NonceRequest"

\* The same message, to be signed with the same nonces.
SameRequest(m, k) == m.message = k.message /\ m.nonce_responses = k.nonce_responses

\* m is asked for already, or new nonces are since what was asked for at p.
Covered(l, p, m) == SameRequest(l[p].msg, m) \/ Asked(l, p, Len(l))

\* Between two different requests, the coordinator asks for nonces.
LogFresh ==
    \A p, q \in DOMAIN log :
        p < q /\ IsRequest(log, p) /\ IsRequest(log, q) =>
            SameRequest(log[p].msg, log[q].msg) \/ Asked(log, p, q)

\* The coordinator is about to do so whenever it collects nonces, and has done
\* so when it sends a request, however often it sends it.
CoordFresh ==
    LET out == outbox[COORDINATOR] IN
    /\ Len(out) <= 1
    /\ phase = "nonces" /\ out # << >> => out[1].type = "NonceRequest"
    /\ phase = "nonces" /\ out = << >> =>
          \A p \in DOMAIN log : IsRequest(log, p) => Asked(log, p, Len(log))
    /\ out # << >> /\ out[1].type = "SignShareRequest" =>
          \A p \in DOMAIN log : IsRequest(log, p) => Covered(log, p, out[1])

\* What s has signed with the nonce that is still its nonce answers a request
\* after which it has read no NonceRequest.
SignedFresh(s) ==
    \A a \in signed[s] :
        /\ a.nonce <= round[s].nonce
        /\ a.nonce = round[s].nonce =>
              \E p \in 1..pos[s] :
                  /\ IsRequest(log, p)
                  /\ log[p].msg.message = a.message
                  /\ log[p].msg.nonce_responses = a.nonces
                  /\ ~Asked(log, p, pos[s])

\* No signer has given a share for a nonce that is still to be used.
AllFresh == \A s \in Signer : SignedFresh(s)

\* The inductive invariant.
FreshInv ==
    /\ Inv
    /\ LogFresh
    /\ CoordFresh
    /\ spent["lost"] = 0 => AllFresh /\ NonceFreshness

\* It holds at first.
LEMMA InitFresh == Init => FreshInv
<1> SUFFICES ASSUME Init PROVE FreshInv
  OBVIOUS
<1>1. Inv
  BY InitInv
<1>2. LogFresh
  BY DEF Init, NetInit, LogFresh
<1>3. CoordFresh
  BY DEF Init, NetInit, CoordinatorInit, CoordFresh, Node
<1>4. AllFresh /\ NonceFreshness
  BY DEF Init, SignerInit, AllFresh, SignedFresh, NonceFreshness
<1> QED
  BY <1>1, <1>2, <1>3, <1>4 DEF FreshInv

\* A lost message stays lost.
LEMMA LostStays ==
    ASSUME spent \in [Kind -> Nat], NEW K, Spend(K) \/ UNCHANGED spent, spent'["lost"] = 0
    PROVE  spent["lost"] = 0
BY DEF Spend, Kind, Fault

\* A signer that neither reads nor restarts.
LEMMA SignedFrame ==
    ASSUME Inv, NEW s \in Signer, SignedFresh(s), signed'[s] = signed[s],
           round'[s] = round[s], pos'[s] = pos[s],
           \A i \in 1..pos[s] : log'[i] = log[i]
    PROVE  SignedFresh(s)'
<1>0. pos[s] \in Nat
  BY DEF Inv, NetInv, PosInv, Node
<1> SUFFICES ASSUME NEW a \in signed[s], a.nonce = round[s].nonce
             PROVE  \E p \in 1..pos[s] :
                        /\ IsRequest(log', p)
                        /\ log'[p].msg.message = a.message
                        /\ log'[p].msg.nonce_responses = a.nonces
                        /\ ~Asked(log', p, pos[s])
  BY DEF SignedFresh
<1>1. PICK p \in 1..pos[s] : /\ IsRequest(log, p)
                             /\ log[p].msg.message = a.message
                             /\ log[p].msg.nonce_responses = a.nonces
                             /\ ~Asked(log, p, pos[s])
  BY DEF SignedFresh
<1>2. \A r \in (p + 1)..pos[s] : log'[r] = log[r]
  BY <1>0, <1>1
<1>3. ~Asked(log', p, pos[s])
  BY <1>1, <1>2 DEF Asked
<1> QED
  BY <1>1, <1>3 DEF IsRequest

\* A log with one more message.
LEMMA Appended ==
    ASSUME Inv, NEW e, log' = Append(log, e)
    PROVE  /\ Len(log) \in Nat /\ DOMAIN log = 1..Len(log)
           /\ Len(log') = Len(log) + 1 /\ DOMAIN log' = 1..(Len(log) + 1)
           /\ \A i \in 1..Len(log) : log'[i] = log[i]
           /\ log'[Len(log) + 1] = e
           /\ \A p \in 1..Len(log) : \A q \in 1..Len(log) :
                 Asked(log, p, q) <=> Asked(log', p, q)
           /\ \A p \in 1..Len(log) :
                 Asked(log, p, Len(log)) => Asked(log', p, Len(log) + 1)
           /\ e.msg.type = "NonceRequest" =>
                 \A p \in 1..Len(log) : Asked(log', p, Len(log) + 1)
<1>1. /\ Len(log) \in Nat /\ DOMAIN log = 1..Len(log)
      /\ Len(log') = Len(log) + 1 /\ DOMAIN log' = 1..(Len(log) + 1)
      /\ \A i \in 1..Len(log) : log'[i] = log[i]
      /\ log'[Len(log) + 1] = e
  BY SeqFacts, AppendIsSeq DEF Inv, NetInv, LogInv
<1>2. ASSUME NEW p \in 1..Len(log), NEW q \in 1..Len(log)
      PROVE  Asked(log, p, q) <=> Asked(log', p, q)
  BY <1>1 DEF Asked
<1>3. ASSUME NEW p \in 1..Len(log), Asked(log, p, Len(log))
      PROVE  Asked(log', p, Len(log) + 1)
  BY <1>1, <1>3 DEF Asked
<1>4. ASSUME e.msg.type = "NonceRequest", NEW p \in 1..Len(log)
      PROVE  Asked(log', p, Len(log) + 1)
  <2>1. Len(log) + 1 \in (p + 1)..(Len(log) + 1)
    BY <1>1
  <2> QED
    BY <1>1, <1>4, <2>1 DEF Asked
<1> QED
  BY <1>1, <1>2, <1>3, <1>4

\* A signer posts neither requests nor NonceRequests.
LEMMA SignerPostFresh ==
    ASSUME FreshInv, NEW s \in Signer, PostAnswered(s) \/ PostResponseLost(s), phase' = phase
    PROVE  LogFresh' /\ CoordFresh'
<1> DEFINE L == Len(log) + 1
           m == Head(outbox[s])
<1>0. Inv /\ LogFresh /\ CoordFresh /\ s \in Node /\ COORDINATOR \in Node /\ s # COORDINATOR
  BY FrostAssumption DEF FreshInv, Node
<1>1. log' = Append(log, Signed(s))
  BY <1>0, PostStep DEF Inv
<1>2. /\ Len(log) \in Nat /\ DOMAIN log = 1..Len(log)
      /\ Len(log') = L /\ DOMAIN log' = 1..L
      /\ \A i \in 1..Len(log) : log'[i] = log[i]
      /\ log'[L] = Signed(s)
      /\ \A p \in 1..Len(log) : \A q \in 1..Len(log) : Asked(log, p, q) => Asked(log', p, q)
      /\ \A p \in 1..Len(log) : Asked(log, p, Len(log)) => Asked(log', p, L)
  BY <1>0, <1>1, Appended
<1>3. OwnSeq(s, outbox[s]) /\ IsSeq(outbox[s]) /\ outbox[s] # << >>
  BY <1>0 DEF Inv, NetInv, OutboxInv, OwnSeq, PostAnswered, PostResponseLost
<1>4. Own(s, m)
  BY <1>3, TailIsSeq DEF OwnSeq
<1>5. ~IsRequest(log', L)
  BY <1>0, <1>2, <1>4 DEF Own, FromCoordinator, FromSigner, Signed, IsRequest
<1>6. \A i \in 1..L : i \in 1..Len(log) \/ i = L
  BY <1>2
<1>7. \A i \in 1..Len(log) : IsRequest(log', i) <=> IsRequest(log, i)
  BY <1>2 DEF IsRequest
<1>8. LogFresh'
  BY <1>0, <1>2, <1>5, <1>6, <1>7 DEF LogFresh
<1>9. outbox'[COORDINATOR] = outbox[COORDINATOR]
  BY <1>0 DEF PostAnswered, PostResponseLost, Inv, NetInv, OutboxInv
<1>10. CoordFresh'
  <2> DEFINE out == outbox[COORDINATOR]
  <2>1. ASSUME phase = "nonces", out = << >>, NEW p \in DOMAIN log', IsRequest(log', p)
        PROVE  Asked(log', p, Len(log'))
    BY <1>0, <1>2, <1>5, <1>6, <1>7, <2>1 DEF CoordFresh
  <2>2. ASSUME out # << >>, out[1].type = "SignShareRequest",
               NEW p \in DOMAIN log', IsRequest(log', p)
        PROVE  Covered(log', p, out[1])
    <3>1. p \in 1..Len(log) /\ IsRequest(log, p) /\ log'[p] = log[p]
      BY <1>2, <1>5, <1>6, <1>7, <2>2
    <3>2. Covered(log, p, out[1])
      BY <1>0, <1>2, <2>2, <3>1 DEF CoordFresh
    <3> QED
      BY <1>2, <3>1, <3>2 DEF Covered
  <2> QED
    BY <1>0, <1>9, <2>1, <2>2 DEF CoordFresh
<1> QED
  BY <1>8, <1>10

\* The coordinator posts what it has to send.
LEMMA CoordinatorPostFresh ==
    ASSUME FreshInv, CoordinatorPost
    PROVE  LogFresh' /\ CoordFresh'
<1> DEFINE L == Len(log) + 1
           out == outbox[COORDINATOR]
           m == Head(out)
<1>0. Inv /\ LogFresh /\ CoordFresh /\ COORDINATOR \in Node
  BY DEF FreshInv, Node
<1>1. /\ PostAnswered(COORDINATOR) \/ PostResponseLost(COORDINATOR)
      /\ phase' = phase
      /\ log' = Append(log, Signed(COORDINATOR))
  BY <1>0, PostStep DEF Inv, CoordinatorPost, coordVars
<1>2. /\ Len(log) \in Nat /\ DOMAIN log = 1..Len(log)
      /\ Len(log') = L /\ DOMAIN log' = 1..L
      /\ \A i \in 1..Len(log) : log'[i] = log[i]
      /\ log'[L] = Signed(COORDINATOR)
      /\ \A p \in 1..Len(log) : \A q \in 1..Len(log) : Asked(log, p, q) => Asked(log', p, q)
      /\ \A p \in 1..Len(log) : Asked(log, p, Len(log)) => Asked(log', p, L)
      /\ Signed(COORDINATOR).msg.type = "NonceRequest" =>
            \A p \in 1..Len(log) : Asked(log', p, L)
  BY <1>0, <1>1, Appended
<1>3. IsSeq(out) /\ out # << >> /\ Len(out) <= 1
  BY <1>0, <1>1 DEF Inv, NetInv, OutboxInv, OwnSeq, PostAnswered, PostResponseLost, CoordFresh
<1>4. m = out[1] /\ log'[L].msg = out[1]
  BY <1>2, <1>3, TailIsSeq DEF Signed
<1>5. outbox'[COORDINATOR] \in {out, << >>}
  <2>1. CASE PostAnswered(COORDINATOR)
    <3>1. IsSeq(Tail(out)) /\ Len(Tail(out)) = Len(out) - 1 /\ Len(out) \in Nat
      BY <1>3, TailIsSeq, SeqFacts
    <3>2. Len(Tail(out)) \in Nat
      BY <3>1, SeqFacts
    <3>3. Tail(out) = << >>
      BY <1>3, <3>1, <3>2, SeqFacts
    <3> QED
      BY <1>0, <2>1, <3>3 DEF PostAnswered, Inv, NetInv, OutboxInv
  <2>2. CASE PostResponseLost(COORDINATOR)
    BY <2>2 DEF PostResponseLost
  <2> QED
    BY <1>1, <2>1, <2>2
<1>6. \A i \in 1..L : i \in 1..Len(log) \/ i = L
  BY <1>2
<1>7. \A i \in 1..Len(log) : IsRequest(log', i) <=> IsRequest(log, i)
  BY <1>2 DEF IsRequest
<1>8. ASSUME IsRequest(log', L), NEW p \in 1..Len(log), IsRequest(log, p)
      PROVE  SameRequest(log[p].msg, out[1]) \/ Asked(log', p, L)
  BY <1>0, <1>2, <1>3, <1>4, <1>8 DEF CoordFresh, Covered, IsRequest
<1>9. LogFresh'
  <2> SUFFICES ASSUME NEW p \in 1..L, NEW q \in 1..L, p < q,
                      IsRequest(log', p), IsRequest(log', q)
               PROVE  SameRequest(log'[p].msg, log'[q].msg) \/ Asked(log', p, q)
    BY <1>2 DEF LogFresh
  <2>1. p \in 1..Len(log) /\ IsRequest(log, p) /\ log'[p] = log[p]
    BY <1>2, <1>7
  <2>2. CASE q \in 1..Len(log)
    BY <1>0, <1>2, <1>7, <2>1, <2>2 DEF LogFresh
  <2>3. CASE q = L
    BY <1>4, <1>8, <2>1, <2>3
  <2> QED
    BY <1>6, <2>2, <2>3
<1>10. CoordFresh'
  <2>1. CASE outbox'[COORDINATOR] = << >>
    <3>1. ASSUME phase = "nonces", NEW p \in 1..L, IsRequest(log', p)
          PROVE  Asked(log', p, L)
      <4>1. out[1].type = "NonceRequest"
        BY <1>0, <1>3, <3>1 DEF CoordFresh
      <4>2. ~IsRequest(log', L)
        BY <1>4, <4>1 DEF IsRequest
      <4> QED
        BY <1>2, <1>4, <1>6, <3>1, <4>1, <4>2
    <3> QED
      BY <1>1, <1>2, <2>1, <3>1 DEF CoordFresh
  <2>2. CASE outbox'[COORDINATOR] = out
    <3>1. ASSUME out[1].type = "SignShareRequest", NEW p \in 1..L, IsRequest(log', p)
          PROVE  Covered(log', p, out[1])
      <4>1. CASE p = L
        BY <1>4, <4>1 DEF Covered, SameRequest
      <4>2. CASE p \in 1..Len(log)
        <5>1. SameRequest(log[p].msg, out[1]) \/ Asked(log', p, L)
          BY <1>4, <1>7, <1>8, <3>1, <4>2 DEF IsRequest
        <5> QED
          BY <1>2, <4>2, <5>1 DEF Covered
      <4> QED
        BY <1>6, <4>1, <4>2
    <3> QED
      BY <1>0, <1>1, <1>2, <1>3, <2>2, <3>1 DEF CoordFresh
  <2> QED
    BY <1>5, <2>1, <2>2
<1> QED
  BY <1>9, <1>10

\* The coordinator reads, starts a command or fails: it writes no log.
LEMMA CoordinatorQuietFresh ==
    ASSUME FreshInv,
           \/ StartDkg
           \/ \E msg \in Payload : StartSign(msg)
           \/ \E p \in 1..Len(log) : CoordinatorReceive(p)
           \/ CoordinatorTimeout
           \/ CoordinatorSendFails
           \/ CoordinatorRestart
    PROVE  LogFresh' /\ CoordFresh'
<1>0. Inv /\ LogFresh /\ CoordFresh /\ COORDINATOR \in Node /\ DOMAIN outbox = Node
  BY DEF FreshInv, Node, Inv, NetInv, OutboxInv
<1>1. log' = log
  BY DEF StartDkg, StartSign, CoordinatorReceive, WaitForPublicShares, PublicSharesDone,
         WaitForDkgEnd, CollectNonces, NoncesDone, CollectSignatureShares, Receive,
         CoordinatorTimeout, CoordinatorSendFails, CoordinatorRestart
<1>2. LogFresh'
  BY <1>0, <1>1 DEF LogFresh
<1> DEFINE out == outbox[COORDINATOR]
\* What is sent instead of a request.
<1>3. ASSUME NEW m, Send(m), m.type # "SignShareRequest",
             phase' = "nonces" => m.type = "NonceRequest"
      PROVE  CoordFresh'
  <2>1. outbox'[COORDINATOR] = <<m>>
    BY <1>0, <1>3 DEF Send
  <2>2. Len(<<m>>) <= 1 /\ <<m>>[1] = m /\ <<m>> # << >>
    OBVIOUS
  <2> QED
    BY <1>3, <2>1, <2>2 DEF CoordFresh
\* Nothing is sent, and the loop of collect_nonces is not entered.
<1>4. ASSUME outbox'[COORDINATOR] \in {out, << >>}, phase' \in {phase, "ready"},
             phase' = "nonces" => out = << >>
      PROVE  CoordFresh'
  <2>1. CASE outbox'[COORDINATOR] = out
    BY <1>0, <1>1, <1>4, <2>1 DEF CoordFresh
  <2>2. CASE outbox'[COORDINATOR] = << >>
    <3>1. Len(<< >>) <= 1
      OBVIOUS
    <3> QED
      BY <1>0, <1>1, <1>4, <2>2, <3>1 DEF CoordFresh
  <2> QED
    BY <1>4, <2>1, <2>2
<1>5. CASE StartDkg
  BY <1>2, <1>3, <1>5 DEF StartDkg, start_public_shares
<1>6. ASSUME NEW msg \in Payload, StartSign(msg) PROVE CoordFresh'
  <2>1. CASE aggregate_public_key = Empty
    BY <1>4, <1>6, <2>1 DEF StartSign, Return, SendNothing
  <2>2. CASE aggregate_public_key # Empty
    BY <1>3, <1>6, <2>2 DEF StartSign, NonceRequest
  <2> QED
    BY <2>1, <2>2
<1>7. ASSUME NEW p \in 1..Len(log), CoordinatorReceive(p) PROVE CoordFresh'
  <2>0. out = << >>
    BY <1>7 DEF CoordinatorReceive, WaitForPublicShares, PublicSharesDone,
         WaitForDkgEnd, CollectNonces, NoncesDone, CollectSignatureShares, Receive
  <2>1. CASE WaitForPublicShares(p) \/ WaitForDkgEnd(p) \/ CollectNonces(p)
             \/ CollectSignatureShares(p)
    BY <1>4, <2>0, <2>1
    DEF WaitForPublicShares, WaitForDkgEnd, CollectNonces, CollectSignatureShares,
        SendNothing, Return
  <2>2. CASE PublicSharesDone(p)
    BY <1>3, <2>2
    DEF PublicSharesDone, AggregateKeyEven, AggregateKeyOdd, start_public_shares
  <2>3. CASE NoncesDone(p) /\ AggregateNonceOdd
    BY <1>3, <2>3 DEF AggregateNonceOdd, NonceRequest
  <2>4. CASE NoncesDone(p) /\ AggregateNonceEven(NoncesWith(log[p].msg))
             /\ DOMAIN dkg_public_shares # Key
    BY <1>4, <2>0, <2>4 DEF AggregateNonceEven, SendNothing, Return
  <2>5. CASE NoncesDone(p) /\ AggregateNonceEven(NoncesWith(log[p].msg))
             /\ DOMAIN dkg_public_shares = Key
    <3>1. PICK m : Send(m) /\ phase' = "signature_shares"
      BY <2>5 DEF AggregateNonceEven
    <3>2. outbox'[COORDINATOR] = <<m>>
      BY <1>0, <3>1 DEF Send
    <3>3. Len(<<m>>) <= 1
      OBVIOUS
    <3>4. \A q \in DOMAIN log : IsRequest(log, q) => Covered(log, q, <<m>>[1])
      BY <1>0, <2>0, <2>5 DEF CoordFresh, NoncesDone, Covered
    <3> QED
      BY <1>1, <3>1, <3>2, <3>3, <3>4 DEF CoordFresh
  <2> QED
    BY <1>7, <2>1, <2>2, <2>3, <2>4, <2>5 DEF CoordinatorReceive, NoncesDone
<1>8. CASE CoordinatorTimeout \/ CoordinatorSendFails \/ CoordinatorRestart
  BY <1>0, <1>2, <1>4, <1>8
  DEF CoordinatorTimeout, CoordinatorSendFails, CoordinatorRestart, NewCoordinator, Return
<1> QED
  BY <1>2, <1>5, <1>6, <1>7, <1>8


\* Steps of the coordinator keep it.
LEMMA CoordinatorFresh ==
    ASSUME FreshInv, CoordinatorNext, UNCHANGED signerVars
    PROVE  FreshInv'
<1>0. Inv /\ Inv'
  BY CoordinatorStep DEF FreshInv
<1>1. LogFresh' /\ CoordFresh'
  BY CoordinatorPostFresh, CoordinatorQuietFresh DEF CoordinatorNext
<1>2. ASSUME spent'["lost"] = 0 PROVE AllFresh' /\ NonceFreshness'
  <2>1. \E K : Spend(K) \/ UNCHANGED spent
    BY DEF CoordinatorNext, StartDkg, StartSign, CoordinatorReceive, WaitForPublicShares,
           PublicSharesDone, WaitForDkgEnd, CollectNonces, NoncesDone,
           CollectSignatureShares, Receive, CoordinatorPost, PostAnswered,
           PostResponseLost, CoordinatorTimeout, CoordinatorSendFails, CoordinatorRestart
  <2>2. AllFresh /\ NonceFreshness
    BY <1>0, <1>2, <2>1, LostStays DEF Inv, NetInv, FreshInv
  <2>3. NonceFreshness'
    BY <2>2 DEF NonceFreshness, signerVars
  <2>4. ASSUME NEW s \in Signer
        PROVE  pos'[s] = pos[s] /\ \A i \in 1..pos[s] : log'[i] = log[i]
    <3>0. s # COORDINATOR /\ s \in Node /\ COORDINATOR \in Node
      BY FrostAssumption DEF Node
    <3>1. CASE CoordinatorPost
      <4>1. log' = Append(log, Signed(COORDINATOR)) /\ pos' = pos
        BY <1>0, <3>0, <3>1, PostStep
        DEF Inv, CoordinatorPost, PostAnswered, PostResponseLost
      <4>2. Len(log) \in Nat /\ \A i \in 1..Len(log) : log'[i] = log[i]
        BY <1>0, <4>1, Appended
      <4>3. pos[s] \in Nat /\ pos[s] <= Len(log)
        BY <1>0, <3>0 DEF Inv, NetInv, PosInv
      <4> QED
        BY <4>1, <4>2, <4>3
    <3>2. CASE ~CoordinatorPost
      <4>1. log' = log
        BY <3>2
        DEF CoordinatorNext, StartDkg, StartSign, CoordinatorReceive, WaitForPublicShares,
            PublicSharesDone, WaitForDkgEnd, CollectNonces, NoncesDone,
            CollectSignatureShares, Receive, CoordinatorTimeout, CoordinatorSendFails,
            CoordinatorRestart
      <4>2. pos' = pos \/ \E p : pos' = [pos EXCEPT ![COORDINATOR] = p]
        BY <3>2
        DEF CoordinatorNext, StartDkg, StartSign, CoordinatorReceive, WaitForPublicShares,
            PublicSharesDone, WaitForDkgEnd, CollectNonces, NoncesDone,
            CollectSignatureShares, Receive, Deliver, CoordinatorTimeout,
            CoordinatorSendFails, CoordinatorRestart
      <4>3. pos'[s] = pos[s]
        BY <1>0, <3>0, <4>2 DEF Inv, NetInv, PosInv
      <4> QED
        BY <4>1, <4>3
    <3> QED
      BY <3>1, <3>2
  <2>5. AllFresh'
    BY <1>0, <2>2, <2>4, SignedFrame DEF AllFresh, signerVars
  <2> QED
    BY <2>3, <2>5
<1> QED
  BY <1>0, <1>1, <1>2 DEF FreshInv

\* A signer that takes the next message of the log.
LEMMA ProcessFresh ==
    ASSUME FreshInv, NEW s \in Signer, NEW p \in 1..Len(log), SignerProcess(s, p),
           AllFresh, NonceFreshness, p = pos[s] + 1
    PROVE  SignedFresh(s)' /\ NonceFreshness'
<1> DEFINE m == log[p].msg
           r == round[s]
           new == /\ m.type = "SignShareRequest" /\ verify_msg(log[p])
                  /\ s \in DOMAIN m.nonce_responses
<1>0. /\ Inv /\ LogFresh /\ SignedFresh(s)
      /\ s \in Node
      /\ IsMessage(m) /\ IsRound(r) /\ Own(log[p].sig, m)
      /\ DOMAIN log = 1..Len(log) /\ Len(log) \in Nat
      /\ DOMAIN round = Signer /\ DOMAIN signed = Signer
      /\ pos[s] \in Nat
  BY SeqFacts DEF FreshInv, AllFresh, Inv, NetInv, LogInv, PosInv, SignerInv, Node
<1>1. r.nonce \in Nat /\ \A a \in signed[s] : a.nonce \in Nat
  BY <1>0 DEF IsRound, IsShare, Inv, SignerInv
<1>2. m.type = "NonceRequest" => verify_msg(log[p])
  BY <1>0 DEF Own, verify_msg, FromCoordinator, FromSigner
<1>3. round'[s].nonce = NonceAfter(r, m)
  <2>1. CASE verify_msg(log[p])
    <3>1. Result(s, process(s, r, m), NonceAfter(r, m))
      BY <1>0, ProcessResult, Zenon
    <3>2. round'[s] = process(s, r, m).round
      BY <1>0, <2>1 DEF SignerProcess
    <3> QED
      BY <3>1, <3>2 DEF Result
  <2>2. CASE ~verify_msg(log[p])
    <3>1. round'[s] = Ok(r, << >>).round
      BY <1>0, <2>2 DEF SignerProcess
    <3> QED
      BY <1>2, <2>2, <3>1 DEF Ok, NonceAfter
  <2> QED
    BY <2>1, <2>2
<1>4. /\ pos'[s] = p /\ log' = log
      /\ signed' = IF new THEN [signed EXCEPT ![s] = @ \cup {Share(r, m)}] ELSE signed
  BY <1>0 DEF SignerProcess, Receive, Deliver, Inv, NetInv, PosInv
<1>5. /\ signed'[s] = IF new THEN signed[s] \cup {Share(r, m)} ELSE signed[s]
      /\ \A t \in Signer : t # s => signed'[t] = signed[t]
  BY <1>0, <1>4
<1>6. /\ Share(r, m).nonce = r.nonce
      /\ Share(r, m).message = m.message
      /\ Share(r, m).nonces = m.nonce_responses
  BY DEF Share
\* Reading a message other than NonceRequest leaves the last one where it was.
<1>7. ASSUME m.type # "NonceRequest", NEW q \in 1..pos[s], ~Asked(log, q, pos[s])
      PROVE  ~Asked(log, q, p)
  <2>1. \A i \in (q + 1)..p : i \in (q + 1)..pos[s] \/ i = p
    BY <1>0
  <2> QED
    BY <1>7, <2>1 DEF Asked
<1>8. ~Asked(log, p, p)
  BY <1>0 DEF Asked
\* Another share with the nonce of this one is of the same request.
<1>9. ASSUME new, NEW a \in signed[s], a.nonce = r.nonce
      PROVE  a.message = m.message /\ a.nonces = m.nonce_responses
  <2>1. PICK q \in 1..pos[s] : /\ IsRequest(log, q)
                               /\ log[q].msg.message = a.message
                               /\ log[q].msg.nonce_responses = a.nonces
                               /\ ~Asked(log, q, pos[s])
    BY <1>0, <1>9 DEF SignedFresh
  <2>2. ~Asked(log, q, p)
    BY <1>7, <1>9, <2>1
  <2>3. q \in DOMAIN log /\ p \in DOMAIN log /\ q < p /\ IsRequest(log, p)
    BY <1>0, <1>9, <2>1 DEF IsRequest
  <2>4. SameRequest(log[q].msg, m)
    BY <1>0, <2>1, <2>2, <2>3 DEF LogFresh
  <2> QED
    BY <2>1, <2>4 DEF SameRequest
<1>10. NonceFreshness'
  <2>1. \A a, b \in signed'[s] :
           a.nonce = b.nonce => a.message = b.message /\ a.nonces = b.nonces
    <3>1. CASE new
      BY <1>5, <1>6, <1>9, <3>1 DEF NonceFreshness
    <3>2. CASE ~new
      BY <1>5, <3>2 DEF NonceFreshness
    <3> QED
      BY <3>1, <3>2
  <2> QED
    BY <1>5, <2>1 DEF NonceFreshness
<1>11. SignedFresh(s)'
  <2>1. CASE m.type = "NonceRequest"
    <3>1. signed'[s] = signed[s] /\ round'[s].nonce = r.nonce + 1
      BY <1>3, <1>5, <2>1 DEF NonceAfter
    <3>2. \A a \in signed[s] : a.nonce <= r.nonce
      BY <1>0 DEF SignedFresh
    <3> QED
      BY <1>1, <3>1, <3>2 DEF SignedFresh
  <2>2. CASE m.type # "NonceRequest"
    <3>1. round'[s].nonce = r.nonce
      BY <1>3, <2>2 DEF NonceAfter
    <3>2. \A a \in signed'[s] : a.nonce <= r.nonce
      BY <1>0, <1>1, <1>5, <1>6 DEF SignedFresh
    <3> SUFFICES ASSUME NEW a \in signed'[s], a.nonce = r.nonce
                 PROVE  \E q \in 1..p : /\ IsRequest(log, q)
                                        /\ log[q].msg.message = a.message
                                        /\ log[q].msg.nonce_responses = a.nonces
                                        /\ ~Asked(log, q, p)
      BY <1>4, <3>1, <3>2 DEF SignedFresh
    <3>3. CASE a \in signed[s]
      <4>1. PICK q \in 1..pos[s] : /\ IsRequest(log, q)
                                   /\ log[q].msg.message = a.message
                                   /\ log[q].msg.nonce_responses = a.nonces
                                   /\ ~Asked(log, q, pos[s])
        BY <1>0, <3>3 DEF SignedFresh
      <4>2. q \in 1..p /\ ~Asked(log, q, p)
        BY <1>0, <1>7, <2>2, <4>1
      <4> QED
        BY <4>1, <4>2
    <3>4. CASE new /\ a = Share(r, m)
      BY <1>6, <1>8, <3>4 DEF IsRequest
    <3> QED
      BY <1>5, <3>3, <3>4
  <2> QED
    BY <2>1, <2>2
<1> QED
  BY <1>10, <1>11

\* Steps of a signer keep it.
LEMMA SignerFresh ==
    ASSUME FreshInv, NEW s \in Signer, SignerNext(s), UNCHANGED coordVars
    PROVE  FreshInv'
<1>0. /\ Inv /\ Inv' /\ LogFresh /\ CoordFresh
      /\ s \in Node /\ COORDINATOR \in Node /\ s # COORDINATOR
      /\ DOMAIN round = Signer /\ DOMAIN signed = Signer
      /\ pos \in [Node -> Nat] /\ Signer \subseteq Node
  BY SignerStep, FrostAssumption DEF FreshInv, Node, Inv, SignerInv, NetInv, PosInv
<1>1. LogFresh' /\ CoordFresh'
  <2>1. CASE SignerPost(s)
    BY <2>1, SignerPostFresh DEF SignerPost, coordVars
  <2>2. CASE ~SignerPost(s)
    <3>1. log' = log
      BY <2>2 DEF SignerNext, SignerProcess, Receive, SignerSendFails, SignerRestart
    <3>2. outbox'[COORDINATOR] = outbox[COORDINATOR]
      BY <1>0, <2>2
      DEF SignerNext, SignerProcess, SignerSendFails, SignerRestart, Inv, NetInv, OutboxInv
    <3> QED
      BY <1>0, <3>1, <3>2 DEF LogFresh, CoordFresh, coordVars
  <2> QED
    BY <2>1, <2>2
<1>2. ASSUME spent'["lost"] = 0 PROVE AllFresh' /\ NonceFreshness'
  <2>1. \E K : Spend(K) \/ UNCHANGED spent
    BY DEF SignerNext, SignerProcess, Receive, SignerPost, PostAnswered,
           PostResponseLost, SignerSendFails, SignerRestart
  <2>2. AllFresh /\ NonceFreshness
    BY <1>0, <1>2, <2>1, LostStays DEF Inv, NetInv, FreshInv
  \* The other signers.
  <2>3. ASSUME NEW t \in Signer, t # s, log' = log,
               round'[t] = round[t], signed'[t] = signed[t], pos'[t] = pos[t]
        PROVE  SignedFresh(t)'
    BY <1>0, <2>2, <2>3, SignedFrame DEF AllFresh
  <2>4. ASSUME NEW p \in 1..Len(log), SignerProcess(s, p)
        PROVE  AllFresh' /\ NonceFreshness'
    <3>1. p = pos[s] + 1
      <4>1. Spend(IF p = pos[s] + 1 THEN {} ELSE {} \cup {"lost"})
        BY <2>4 DEF SignerProcess, Receive
      <4>2. SUFFICES ASSUME Spend({"lost"}) PROVE FALSE
        BY <4>1, Zenon
      <4> QED
        BY <1>0, <1>2, <4>2 DEF Spend, Kind, Fault, Inv, NetInv
    <3>2. SignedFresh(s)' /\ NonceFreshness'
      BY <2>2, <2>4, <3>1, ProcessFresh
    <3>3. ASSUME NEW t \in Signer, t # s PROVE SignedFresh(t)'
      <4>1. /\ log' = log
            /\ round'[t] = round[t] /\ signed'[t] = signed[t] /\ pos'[t] = pos[t]
        BY <1>0, <2>4, <3>3 DEF SignerProcess, Receive, Deliver
      <4> QED
        BY <2>3, <3>3, <4>1
    <3> QED
      BY <3>2, <3>3 DEF AllFresh
  <2>5. CASE SignerPost(s)
    <3>1. log' = Append(log, Signed(s)) /\ pos' = pos
      BY <1>0, <2>5, PostStep DEF Inv, SignerPost, PostAnswered, PostResponseLost
    <3>2. Len(log) \in Nat /\ \A i \in 1..Len(log) : log'[i] = log[i]
      BY <1>0, <3>1, Appended
    <3>3. ASSUME NEW t \in Signer
          PROVE  pos'[t] = pos[t] /\ \A i \in 1..pos[t] : log'[i] = log[i]
      BY <1>0, <3>1, <3>2 DEF Inv, NetInv, PosInv
    <3>4. AllFresh'
      BY <1>0, <2>2, <2>5, <3>3, SignedFrame DEF AllFresh, SignerPost, signerVars
    <3>5. NonceFreshness'
      BY <2>2, <2>5 DEF NonceFreshness, SignerPost, signerVars
    <3> QED
      BY <3>4, <3>5
  <2>6. CASE SignerSendFails(s)
    <3>1. AllFresh'
      BY <1>0, <2>2, <2>6, SignedFrame DEF AllFresh, SignerSendFails
    <3>2. NonceFreshness'
      BY <2>2, <2>6 DEF NonceFreshness, SignerSendFails
    <3> QED
      BY <3>1, <3>2
  <2>7. CASE SignerRestart(s)
    <3>1. SignedFresh(s)'
      <4>1. IsRound(round[s]) /\ \A a \in signed[s] : IsShare(a)
        BY <1>0 DEF Inv, SignerInv
      <4>2. round[s].nonce \in Nat /\ \A a \in signed[s] : a.nonce \in Nat
        BY <4>1 DEF IsRound, IsShare
      <4>3. round'[s].nonce = round[s].nonce + 1 /\ signed'[s] = signed[s]
        BY <1>0, <2>7 DEF SignerRestart, NewRound
      <4>4. \A a \in signed[s] : a.nonce <= round[s].nonce
        BY <2>2 DEF AllFresh, SignedFresh
      <4> QED
        BY <4>2, <4>3, <4>4 DEF SignedFresh
    <3>2. ASSUME NEW t \in Signer, t # s PROVE SignedFresh(t)'
      <4>1. /\ log' = log
            /\ round'[t] = round[t] /\ signed'[t] = signed[t] /\ pos'[t] = pos[t]
        BY <1>0, <2>7, <3>2 DEF SignerRestart
      <4> QED
        BY <2>3, <3>2, <4>1
    <3>3. NonceFreshness'
      BY <2>2, <2>7 DEF NonceFreshness, SignerRestart
    <3> QED
      BY <3>1, <3>2, <3>3 DEF AllFresh
  <2> QED
    BY <2>4, <2>5, <2>6, <2>7 DEF SignerNext
<1> QED
  BY <1>0, <1>1, <1>2 DEF FreshInv

\* Every step keeps it.
LEMMA FreshStep == FreshInv /\ [Next]_vars => FreshInv'
<1> SUFFICES ASSUME FreshInv, [Next]_vars PROVE FreshInv'
  OBVIOUS
<1>1. CASE Next
  BY <1>1, SignerFresh, CoordinatorFresh DEF Next
<1>2. CASE UNCHANGED vars
  <2>1. Inv /\ Inv' /\ LogFresh /\ CoordFresh
    BY InvStep DEF FreshInv
  <2>2. /\ log' = log /\ pos' = pos /\ outbox' = outbox /\ spent' = spent
        /\ round' = round /\ signed' = signed /\ phase' = phase
    BY <1>2 DEF vars, netVars, signerVars, coordVars
  <2>3. LogFresh' /\ CoordFresh'
    BY <2>1, <2>2 DEF LogFresh, CoordFresh
  <2>4. NonceFreshness => NonceFreshness'
    BY <2>2 DEF NonceFreshness
  <2>5. AllFresh => AllFresh'
    BY <2>1, <2>2, SignedFrame DEF AllFresh
  <2> QED
    BY <2>1, <2>2, <2>3, <2>4, <2>5 DEF FreshInv
<1> QED
  BY <1>1, <1>2

(***************************************************************************)
(* sign_share_request signs with whatever nonce is current and as often as *)
(* it is asked; still no signer ever signs two different requests with one *)
(* nonce, as long as no response of the relay that carries a message is    *)
(* lost: posts repeated by send_message's retries, commands that time out  *)
(* half way, sends that are given up and processes that are restarted do   *)
(* not change that, in any number and any order.                           *)
(***************************************************************************)
THEOREM NoncesAreFresh == Spec => [](spent["lost"] = 0 => NonceFreshness)
<1>1. FreshInv => (spent["lost"] = 0 => NonceFreshness)
  BY DEF FreshInv
<1> QED
  BY InitFresh, FreshStep, <1>1, PTL DEF Spec
=============================================================================
