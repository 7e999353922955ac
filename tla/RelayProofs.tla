----------------------------- MODULE RelayProofs -----------------------------
(***************************************************************************)
(* The relay and its clients keep the order of the messages, and implement *)
(* the ordered broadcast of module Broadcast: for any set of clients, any  *)
(* bodies and any number of posts, retries, lost responses and restarts.   *)
(***************************************************************************)
EXTENDS Relay, SequenceTheorems, TLAPS

\* The queue is the end of what was ever posted.
QueueInv ==
    /\ Len(queue) <= Len(posted)
    /\ \A i \in 1..Len(queue) :
          queue[i] = [seq |-> Base + i, body |-> posted[Base + i]]

\* poll and next_message alternate, so in_queue holds at most one entry, and
\* pop takes from the end what push put there.
InQueueInv ==
    \A c \in Client :
        /\ Len(in_queue[c]) <= 1
        /\ pc[c] = "poll" => in_queue[c] = << >>

\* e is a post that was accepted, and c's mark is at it or behind it.
Passed(c, e) ==
    /\ e.seq <= Base + FirstUnread(c)
    /\ e.body = posted[e.seq]

\* What c holds and was given is behind its mark, in order.
HeldInv ==
    \A c \in Client :
        /\ \A i \in 1..Len(received[c]) : Passed(c, received[c][i])
        /\ \A i, j \in 1..Len(received[c]) :
              i < j => received[c][i].seq < received[c][j].seq
        /\ in_queue[c] # << >> =>
              /\ Passed(c, in_queue[c][1])
              /\ \A i \in 1..Len(received[c]) :
                    received[c][i].seq < in_queue[c][1].seq

IInv == TypeOK /\ QueueInv /\ InQueueInv /\ HeldInv

-----------------------------------------------------------------------------
\* An empty relay whose clients have read nothing.
LEMMA InitIInv == Init => IInv
BY RelayAssumption
DEF Init, IInv, TypeOK, Entry, QueueInv, InQueueInv, HeldInv, Passed, Base,
    FirstUnread

\* The mark of a client is inside the queue, and the entry there is the next
\* post the client has not read.
LEMMA UnreadEntry ==
    ASSUME IInv, NEW c \in Client
    PROVE  /\ FirstUnread(c) \in 0..Len(queue)
           /\ Base \in Nat
           /\ Base + Len(queue) = Len(posted)
           /\ HasUnread(c) =>
                 /\ Unread(c) \in Entry
                 /\ Unread(c).seq = Base + FirstUnread(c) + 1
                 /\ Unread(c).seq <= Len(posted)
                 /\ Unread(c).body = posted[Unread(c).seq]
<1> USE DEF IInv, TypeOK, QueueInv, Base
<1>1. FirstUnread(c) \in 0..Len(queue)
  BY DEF FirstUnread
<1>2. Base \in Nat /\ Base + Len(queue) = Len(posted)
  OBVIOUS
<1>3. ASSUME HasUnread(c)
      PROVE  FirstUnread(c) + 1 \in 1..Len(queue)
  BY <1>1, <1>3 DEF HasUnread
<1>4. ASSUME HasUnread(c)
      PROVE  /\ Unread(c) \in Entry
             /\ Unread(c) = [seq |-> Base + FirstUnread(c) + 1,
                             body |-> posted[Base + FirstUnread(c) + 1]]
  <2> DEFINE n == FirstUnread(c) + 1
  <2>1. n \in 1..Len(queue)
    BY <1>3, <1>4
  <2>2. queue[n] \in Entry
    BY <2>1
  <2>3. queue[n] = [seq |-> Base + n, body |-> posted[Base + n]]
    BY <2>1
  <2>4. Base + n = Base + FirstUnread(c) + 1
    BY <1>1, <1>2
  <2>5. QED
    BY <2>2, <2>3, <2>4 DEF Unread
<1>5. QED
  <2>1. Base + FirstUnread(c) + 1 <= Len(posted) \/ ~HasUnread(c)
    BY <1>1, <1>2, <1>3
  <2>2. QED
    BY <1>1, <1>2, <1>4, <2>1 DEF Entry

\* A GET that finds a message moves the mark of c by one, and no other mark.
LEMMA MarkAdvanced ==
    ASSUME IInv, NEW c \in Client, HasUnread(c),
           highwaters' = HighwaterAdvanced(c), UNCHANGED <<queue, posted>>
    PROVE  /\ \A d \in Client :
                 FirstUnread(d)' = IF d = c THEN FirstUnread(c) + 1 ELSE FirstUnread(d)
           /\ DOMAIN highwaters' \subseteq Client
           /\ \A d \in DOMAIN highwaters' : highwaters'[d] \in 0..(Len(queue) - 1)
BY UnreadEntry DEF HighwaterAdvanced, FirstUnread, HasUnread, IInv, TypeOK

\* MemState::post keeps everything in its place.
LEMMA AcceptKeeps ==
    ASSUME IInv, NEW b \in Body, Accept(b),
           UNCHANGED <<highwaters, in_queue, received, pc>>
    PROVE  /\ queue' \in Seq(Entry)
           /\ posted' \in Seq(Body)
           /\ Len(queue') = Len(queue) + 1
           /\ QueueInv' /\ InQueueInv' /\ HeldInv'
<1>0. \A c \in Client : FirstUnread(c) \in 0..Len(queue)
  BY UnreadEntry
<1> USE DEF IInv, TypeOK
<1>1. /\ Base \in Nat /\ Len(queue) \in Nat /\ Len(posted) \in Nat
      /\ Base + Len(queue) = Len(posted)
  BY DEF Base, QueueInv
<1>2. Base' = Base
  BY DEF Accept, Base
<1>3. \A c \in Client : FirstUnread(c)' = FirstUnread(c)
  BY DEF FirstUnread
<1>4. \A p \in 1..Len(posted) : posted'[p] = posted[p]
  BY DEF Accept
<1>5. [seq |-> Len(posted) + 1, body |-> b] \in Entry
  BY DEF Entry
<1>6. queue' \in Seq(Entry) /\ posted' \in Seq(Body) /\ Len(queue') = Len(queue) + 1
      /\ Len(posted') = Len(posted) + 1
  BY <1>5 DEF Accept
<1>7. QueueInv'
  <2>1. SUFFICES ASSUME NEW i \in 1..(Len(queue) + 1)
                 PROVE  queue'[i] = [seq |-> Base + i, body |-> posted'[Base + i]]
    BY <1>2, <1>6 DEF QueueInv
  <2>2. CASE i = Len(queue) + 1
    <3>1. Base + i = Len(posted) + 1
      <4> HIDE DEF IInv, TypeOK
      <4> QED
        BY <1>1, <2>2
    <3>2. posted'[Len(posted) + 1] = b
      BY DEF Accept
    <3>3. queue'[i] = [seq |-> Len(posted) + 1, body |-> b]
      BY <2>2, <1>5 DEF Accept
    <3>4. QED
      BY <3>1, <3>2, <3>3
  <2>3. CASE i \in 1..Len(queue)
    <3>1. queue'[i] = queue[i]
      BY <2>3, <1>5 DEF Accept
    <3>2. Base + i \in 1..Len(posted)
      BY <1>1, <2>3
    <3>3. QED
      BY <3>1, <3>2, <2>3, <1>4 DEF QueueInv
  <2>4. QED
    BY <2>2, <2>3
<1>8. InQueueInv'
  BY DEF InQueueInv
<1>9. ASSUME NEW c \in Client, NEW e \in Entry, Passed(c, e)
      PROVE  Passed(c, e)'
  <2>1. e.seq \in 1..Len(posted)
    BY <1>0, <1>1, <1>9 DEF Passed, Entry
  <2>2. QED
    BY <1>2, <1>3, <1>4, <1>9, <2>1 DEF Passed
<1>10. HeldInv'
  <2>1. SUFFICES ASSUME NEW c \in Client
                 PROVE  /\ \A i \in 1..Len(received[c]) : Passed(c, received[c][i])'
                        /\ in_queue[c] # << >> => Passed(c, in_queue[c][1])'
    BY DEF HeldInv
  <2>2. \A i \in 1..Len(received[c]) : received[c][i] \in Entry
    OBVIOUS
  <2>3. in_queue[c] # << >> => in_queue[c][1] \in Entry
    OBVIOUS
  <2>4. QED
    BY <1>9, <2>2, <2>3 DEF HeldInv
<1>11. QED
  BY <1>6, <1>7, <1>8, <1>10

\* Marks that move up leave what a client holds behind them.
LEMMA HeldStays ==
    ASSUME IInv, UNCHANGED <<received, in_queue, posted>>,
           \A c \in Client : /\ (Base + FirstUnread(c))' \in Nat
                             /\ Base + FirstUnread(c) <= (Base + FirstUnread(c))'
    PROVE  HeldInv'
<1>1. \A c \in Client : Base + FirstUnread(c) \in Nat
  BY UnreadEntry
<1>2. ASSUME NEW c \in Client, NEW e \in Entry, Passed(c, e)
      PROVE  Passed(c, e)'
  BY <1>1, <1>2 DEF Passed, Entry
<1>3. SUFFICES ASSUME NEW c \in Client
               PROVE  /\ \A i \in 1..Len(received[c]) : Passed(c, received[c][i])'
                      /\ in_queue[c] # << >> => Passed(c, in_queue[c][1])'
  BY DEF HeldInv, IInv
<1>4. \A i \in 1..Len(received[c]) : received[c][i] \in Entry
  BY DEF IInv, TypeOK
<1>5. in_queue[c] # << >> => in_queue[c][1] \in Entry
  BY DEF IInv, TypeOK
<1>6. QED
  BY <1>2, <1>4, <1>5 DEF HeldInv, IInv

\* A step that leaves the relay and what the clients hold alone.
LEMMA NothingMoves ==
    ASSUME IInv, UNCHANGED <<queue, highwaters, posted, in_queue, received>>
    PROVE  QueueInv' /\ HeldInv'
<1>1. Base' = Base /\ \A c \in Client : FirstUnread(c)' = FirstUnread(c)
  BY DEF Base, FirstUnread
<1>2. QueueInv'
  BY <1>1 DEF IInv, QueueInv
<1>3. HeldInv'
  BY <1>1 DEF IInv, HeldInv, Passed
<1>4. QED
  BY <1>2, <1>3

\* One step per action; what no part of IInv depends on (sending, dropped,
\* faults) is only a matter of types.
LEMMA NextIInv ==
    ASSUME IInv, [Next]_vars
    PROVE  IInv'
<1> USE RelayAssumption
<1>1. CASE UNCHANGED vars
  BY <1>1, NothingMoves DEF vars, IInv, TypeOK, InQueueInv
<1>2. ASSUME NEW c \in Client, NEW b \in Body, SendMessage(c, b)
      PROVE  IInv'
  <2>1. TypeOK'
    BY <1>2 DEF SendMessage, IInv, TypeOK
  <2>2. InQueueInv'
    BY <1>2 DEF SendMessage, IInv, TypeOK, InQueueInv
  <2>3. QueueInv' /\ HeldInv'
    BY <1>2, NothingMoves DEF SendMessage
  <2>4. QED
    BY <2>1, <2>2, <2>3 DEF IInv
<1>3. ASSUME NEW c \in Client, PostAnswered(c) \/ PostResponseLost(c)
      PROVE  IInv'
  <2>1. sending[c] \in Body /\ Accept(sending[c])
    BY <1>3 DEF PostAnswered, PostResponseLost, IInv, TypeOK
  <2>2. UNCHANGED <<highwaters, in_queue, received, pc, dropped>>
    BY <1>3 DEF PostAnswered, PostResponseLost
  <2>3. /\ queue' \in Seq(Entry) /\ posted' \in Seq(Body)
        /\ Len(queue') = Len(queue) + 1
        /\ QueueInv' /\ InQueueInv' /\ HeldInv'
    BY <2>1, <2>2, AcceptKeeps
  <2>4. TypeOK'
    <3>1. sending' \in [Client -> Body \cup {NoBody}] /\ faults' \in Nat
      <4>1. CASE PostAnswered(c)
        BY <4>1 DEF PostAnswered, IInv, TypeOK
      <4>2. CASE PostResponseLost(c)
        BY <4>2 DEF PostResponseLost, IInv, TypeOK
      <4>3. QED
        BY <1>3, <4>1, <4>2
    <3>2. \A d \in DOMAIN highwaters : highwaters[d] \in 0..(Len(queue') - 1)
      BY <2>3 DEF IInv, TypeOK
    <3>3. QED
      BY <2>2, <2>3, <3>1, <3>2 DEF IInv, TypeOK
  <2>5. QED
    BY <2>3, <2>4 DEF IInv
<1>4. ASSUME NEW c \in Client, SendGivesUp(c)
      PROVE  IInv'
  <2>1. TypeOK'
    BY <1>4 DEF SendGivesUp, IInv, TypeOK
  <2>2. InQueueInv'
    BY <1>4 DEF SendGivesUp, IInv, TypeOK, InQueueInv
  <2>3. QueueInv' /\ HeldInv'
    BY <1>4, NothingMoves DEF SendGivesUp
  <2>4. QED
    BY <2>1, <2>2, <2>3 DEF IInv
<1>5. ASSUME NEW c \in Client, PollMessage(c)
      PROVE  IInv'
  <2>1. HasUnread(c) /\ highwaters' = HighwaterAdvanced(c)
        /\ UNCHANGED <<queue, posted, received, sending, dropped, faults>>
    BY <1>5 DEF PollMessage
  <2>2. Base' = Base /\ Base \in Nat
    BY <2>1, UnreadEntry DEF Base
  <2>3. in_queue[c] = << >>
    BY <1>5 DEF PollMessage, IInv, InQueueInv
  <2>4. in_queue' = [in_queue EXCEPT ![c] = <<Unread(c)>>]
    BY <1>5, <2>3 DEF PollMessage
  <2>5. TypeOK'
    BY <1>5, <2>1, <2>4, UnreadEntry, MarkAdvanced DEF PollMessage, IInv, TypeOK
  <2>6. QueueInv'
    BY <2>1, <2>2 DEF IInv, QueueInv
  <2>7. InQueueInv'
    BY <1>5, <2>4 DEF PollMessage, IInv, TypeOK, InQueueInv
  <2>8. HeldInv'
    <3>1. \A d \in Client :
             /\ Base + FirstUnread(d) \in Nat
             /\ (Base + FirstUnread(d))' = IF d = c THEN Base + FirstUnread(d) + 1
                                                   ELSE Base + FirstUnread(d)
      BY <2>1, <2>2, UnreadEntry, MarkAdvanced
    <3>2. ASSUME NEW d \in Client, NEW e \in Entry, Passed(d, e)
          PROVE  Passed(d, e)'
      BY <2>1, <3>1, <3>2 DEF Passed, Entry
    <3>3. PICK u \in Entry : /\ u = Unread(c)
                             /\ u.seq = Base + FirstUnread(c) + 1
                             /\ u.body = posted[u.seq]
      BY <2>1, UnreadEntry
    <3>4. Passed(c, u)'
      BY <2>1, <3>1, <3>3 DEF Passed, Entry
    <3>5. ASSUME NEW d \in Client, NEW i \in 1..Len(received[d])
          PROVE  received[d][i] \in Entry /\ Passed(d, received[d][i])'
      BY <2>1, <3>2, <3>5 DEF IInv, TypeOK, HeldInv
    <3>6. ASSUME NEW i \in 1..Len(received[c])
          PROVE  received[c][i].seq < u.seq
      BY <3>1, <3>3, <3>5, <3>6 DEF IInv, HeldInv, Passed, Entry
    <3>7. ASSUME NEW d \in Client, d # c, in_queue[d] # << >>
          PROVE  in_queue'[d] = in_queue[d] /\ Passed(d, in_queue[d][1])'
      <4>1. in_queue[d] \in Seq(Entry) /\ Len(in_queue[d]) # 0
        BY <3>7, EmptySeq DEF IInv, TypeOK
      <4>2. in_queue'[d] = in_queue[d]
        BY <2>4, <3>7 DEF IInv, TypeOK
      <4>3. in_queue[d][1] \in Entry /\ Passed(d, in_queue[d][1])
        BY <3>7, <4>1 DEF IInv, HeldInv
      <4>4. QED
        BY <3>2, <4>2, <4>3
    <3>8. in_queue'[c] = <<u>>
      BY <2>4, <3>3 DEF IInv, TypeOK
    <3>9. ASSUME NEW d \in Client
          PROVE  /\ \A i \in 1..Len(received[d]) : Passed(d, received[d][i])'
                 /\ in_queue'[d] # << >> =>
                       /\ Passed(d, in_queue[d][1])'
                       /\ \A i \in 1..Len(received[d]) :
                             received[d][i].seq < in_queue'[d][1].seq
      <4>1. CASE d = c
        BY <3>4, <3>5, <3>6, <3>8, <4>1
      <4>2. CASE d # c
        BY <2>4, <3>5, <3>7, <4>2 DEF IInv, TypeOK, HeldInv
      <4>3. QED
        BY <4>1, <4>2
    <3>10. QED
      BY <2>1, <3>9 DEF IInv, HeldInv
  <2>9. QED
    BY <2>5, <2>6, <2>7, <2>8 DEF IInv
<1>6. ASSUME NEW c \in Client, PollEmpty(c)
      PROVE  IInv'
  <2>1. TypeOK'
    BY <1>6 DEF PollEmpty, IInv, TypeOK
  <2>2. InQueueInv'
    BY <1>6 DEF PollEmpty, IInv, TypeOK, InQueueInv
  <2>3. QueueInv' /\ HeldInv'
    BY <1>6, NothingMoves DEF PollEmpty
  <2>4. QED
    BY <2>1, <2>2, <2>3 DEF IInv
<1>7. ASSUME NEW c \in Client, PollResponseLost(c)
      PROVE  IInv'
  <2>1. HasUnread(c) /\ highwaters' = HighwaterAdvanced(c)
        /\ UNCHANGED <<queue, posted, received, sending, in_queue>>
    BY <1>7 DEF PollResponseLost
  <2>2. Base' = Base /\ Base \in Nat
    BY <2>1, UnreadEntry DEF Base
  <2>3. TypeOK'
    <3>1. dropped' \in [Client -> SUBSET (Nat \ {0})] /\ faults' \in Nat
      <4>1. Unread(c).seq \in Nat \ {0}
        BY <2>1, UnreadEntry DEF Entry
      <4>2. QED
        BY <1>7, <4>1 DEF PollResponseLost, IInv, TypeOK
    <3>2. pc' \in [Client -> {"poll", "next_message"}]
      BY <1>7 DEF PollResponseLost, IInv, TypeOK
    <3>3. QED
      BY <2>1, <3>1, <3>2, MarkAdvanced DEF IInv, TypeOK
  <2>4. QueueInv'
    BY <2>1, <2>2 DEF IInv, QueueInv
  <2>5. InQueueInv'
    BY <1>7 DEF PollResponseLost, IInv, TypeOK, InQueueInv
  <2>6. HeldInv'
    BY <2>1, <2>2, UnreadEntry, MarkAdvanced, HeldStays
  <2>7. QED
    BY <2>3, <2>4, <2>5, <2>6 DEF IInv
<1>8. ASSUME NEW c \in Client, NextMessage(c)
      PROVE  IInv'
  <2>1. CASE in_queue[c] = << >>
    <3>1. UNCHANGED <<queue, highwaters, posted, in_queue, received, sending,
                      dropped, faults>>
          /\ pc' = [pc EXCEPT ![c] = "poll"]
      BY <1>8, <2>1 DEF NextMessage
    <3>2. TypeOK'
      BY <3>1 DEF IInv, TypeOK
    <3>3. InQueueInv'
      BY <2>1, <3>1 DEF IInv, TypeOK, InQueueInv
    <3>4. QED
      BY <3>1, <3>2, <3>3, NothingMoves DEF IInv
  <2>2. CASE in_queue[c] # << >>
    <3>1. Len(in_queue[c]) = 1 /\ in_queue[c][1] \in Entry
      <4>1. in_queue[c] \in Seq(Entry) /\ Len(in_queue[c]) <= 1
        BY DEF IInv, TypeOK, InQueueInv
      <4>2. Len(in_queue[c]) \in Nat \ {0}
        BY <2>2, <4>1, EmptySeq
      <4>3. Len(in_queue[c]) = 1
        <5>1. \A n \in Nat \ {0} : n <= 1 => n = 1
          OBVIOUS
        <5>2. QED
          BY <4>1, <4>2, <5>1, Zenon
      <4>4. QED
        BY <4>1, <4>3
    <3>2. /\ received' = [received EXCEPT ![c] = Append(@, in_queue[c][1])]
          /\ in_queue' = [in_queue EXCEPT ![c] = << >>]
          /\ pc' = [pc EXCEPT ![c] = "poll"]
          /\ UNCHANGED <<queue, highwaters, sending, posted, dropped, faults>>
      BY <1>8, <2>2, <3>1 DEF NextMessage, IInv, TypeOK
    <3>3. TypeOK'
      BY <3>1, <3>2 DEF IInv, TypeOK
    <3>4. QueueInv' /\ InQueueInv'
      BY <3>2 DEF IInv, TypeOK, QueueInv, InQueueInv, Base
    <3>5. Base' = Base /\ \A d \in Client : FirstUnread(d)' = FirstUnread(d)
      BY <3>2 DEF Base, FirstUnread
    <3>6. HeldInv'
      <4>1. ASSUME NEW d \in Client, NEW e
            PROVE  Passed(d, e) => Passed(d, e)'
        BY <3>2, <3>5 DEF Passed
      <4>2. ASSUME NEW d \in Client, d # c
            PROVE  received'[d] = received[d] /\ in_queue'[d] = in_queue[d]
        BY <3>2, <4>2 DEF IInv, TypeOK
      <4>3. DEFINE n == Len(received[c])
      <4>4. n \in Nat /\ received[c] \in Seq(Entry)
        BY DEF IInv, TypeOK
      <4>5. in_queue'[c] = << >> /\ received'[c] = Append(received[c], in_queue[c][1])
        BY <3>2 DEF IInv, TypeOK
      <4>6. /\ Len(received'[c]) = n + 1
            /\ received'[c][n + 1] = in_queue[c][1]
            /\ \A i \in 1..n : received'[c][i] = received[c][i]
        BY <3>1, <4>4, <4>5
      <4>7. /\ Passed(c, in_queue[c][1])
            /\ \A i \in 1..n : received[c][i].seq < in_queue[c][1].seq
            /\ \A i \in 1..n : Passed(c, received[c][i])
            /\ \A i, j \in 1..n : i < j => received[c][i].seq < received[c][j].seq
        BY <2>2 DEF IInv, HeldInv
      <4> HIDE DEF n
      <4>8. \A i \in 1..(n + 1) : Passed(c, received'[c][i])
        BY <4>4, <4>6, <4>7
      <4>9. \A i, j \in 1..(n + 1) : i < j => received'[c][i].seq < received'[c][j].seq
        BY <4>4, <4>6, <4>7
      <4>10. ASSUME NEW d \in Client
             PROVE  /\ \A i \in 1..Len(received'[d]) : Passed(d, received[d][i])'
                    /\ \A i, j \in 1..Len(received'[d]) :
                          i < j => received'[d][i].seq < received'[d][j].seq
                    /\ in_queue'[d] # << >> =>
                          /\ Passed(d, in_queue[d][1])'
                          /\ \A i \in 1..Len(received'[d]) :
                                received'[d][i].seq < in_queue'[d][1].seq
        <5>1. CASE d = c
          BY <4>1, <4>5, <4>6, <4>8, <4>9, <5>1
        <5>2. CASE d # c
          BY <4>1, <4>2, <5>2 DEF IInv, HeldInv
        <5>3. QED
          BY <5>1, <5>2
      <4>11. QED
        BY <4>10 DEF HeldInv
    <3>7. QED
      BY <3>3, <3>4, <3>6 DEF IInv
  <2>3. QED
    BY <2>1, <2>2
<1>9. CASE Restart
  <2>1. queue' = << >> /\ highwaters' = << >>
        /\ UNCHANGED <<posted, received, in_queue, pc, sending>>
    BY <1>9 DEF Restart
  <2>2. Base' = Len(posted) /\ \A c \in Client : FirstUnread(c)' = 0
    BY <2>1 DEF Base, FirstUnread, IInv, TypeOK
  <2>3. TypeOK'
    <3>1. dropped' \in [Client -> SUBSET (Nat \ {0})]
      BY <1>9, UnreadEntry DEF Restart, IInv, TypeOK
    <3>2. QED
      BY <1>9, <2>1, <3>1 DEF Restart, IInv, TypeOK
  <2>4. QueueInv' /\ InQueueInv'
    BY <2>1, <2>2 DEF IInv, TypeOK, QueueInv, InQueueInv
  <2>5. HeldInv'
    <3>1. \A c \in Client : /\ (Base + FirstUnread(c))' = Len(posted)
                            /\ Base + FirstUnread(c) <= Len(posted)
      BY <2>1, <2>2, UnreadEntry DEF IInv, TypeOK
    <3>2. QED
      BY <2>1, <3>1, HeldStays DEF IInv, TypeOK
  <2>6. QED
    BY <2>3, <2>4, <2>5 DEF IInv
<1>10. QED
  BY <1>1, <1>2, <1>3, <1>4, <1>5, <1>6, <1>7, <1>8, <1>9 DEF Next

\* The inductive invariant holds in every state of every run.
LEMMA IInvAlways == Spec => []IInv
<1>1. IInv /\ [Next]_vars => IInv'
  BY NextIInv
<1>2. QED
  BY InitIInv, <1>1, PTL DEF Spec

\* The relay's queue and marks and the clients' queues keep their types; in
\* particular a mark never points past the queue.
THEOREM TypeCorrect == Spec => []TypeOK
<1>1. IInv => TypeOK
  BY DEF IInv
<1>2. QED
  BY IInvAlways, <1>1, PTL

\* Every client is given the posts in the order MemState::post accepted them,
\* none of them twice, each with the body that was posted.
THEOREM InOrder == Spec => []DeliveredInOrder
<1>1. ASSUME IInv
      PROVE  DeliveredInOrder
  <2>1. SUFFICES ASSUME NEW c \in Client
                 PROVE  /\ \A i, j \in DOMAIN received[c] :
                              i < j => received[c][i].seq < received[c][j].seq
                        /\ \A i \in DOMAIN received[c] :
                              /\ received[c][i].seq <= Len(posted)
                              /\ received[c][i].body = posted[received[c][i].seq]
    BY DEF DeliveredInOrder
  <2>2. DOMAIN received[c] = 1..Len(received[c])
    BY <1>1 DEF IInv, TypeOK
  <2>3. ASSUME NEW e \in Entry, Passed(c, e)
        PROVE  e.seq <= Len(posted)
    BY <1>1, <2>3, UnreadEntry DEF Passed, Entry
  <2>4. \A i \in 1..Len(received[c]) :
           received[c][i] \in Entry /\ Passed(c, received[c][i])
    BY <1>1 DEF IInv, TypeOK, HeldInv
  <2>5. QED
    BY <1>1, <2>2, <2>3, <2>4 DEF IInv, HeldInv, Passed
<1>2. QED
  BY IInvAlways, <1>1, PTL

-----------------------------------------------------------------------------
(* No message is skipped *)

\* The number of posts c's mark has passed.
Top(c) == Base + FirstUnread(c)

\* The part of NoSilentSkip about c.
Accounted(c) ==
    /\ SeqsHeld(c) \cup dropped[c] = 1..Top(c)
    /\ SeqsHeld(c) \cap dropped[c] = {}

\* The positions of the entries of q.
Seqs(q) == {q[i].seq : i \in DOMAIN q}

\* A post right above the mark may join either side of the account.
LEMMA OneMore ==
    ASSUME NEW n \in Nat, NEW H, NEW D, H \cup D = 1..n, H \cap D = {}
    PROVE  /\ (H \cup {n + 1}) \cup D = 1..(n + 1)
           /\ (H \cup {n + 1}) \cap D = {}
           /\ H \cup (D \cup {n + 1}) = 1..(n + 1)
           /\ H \cap (D \cup {n + 1}) = {}
<1>1. 1..(n + 1) = (1..n) \cup {n + 1}
  OBVIOUS
<1>2. n + 1 \notin 1..n
  OBVIOUS
<1>3. QED
  BY <1>1, <1>2, Zenon

\* Steps that leave the account of c as it is: posting, an empty poll, and what
\* the other clients do.
LEMMA AccountKept ==
    ASSUME NEW c \in Client, Accounted(c), Top(c)' = Top(c),
           SeqsHeld(c)' = SeqsHeld(c), dropped'[c] = dropped[c]
    PROVE  Accounted(c)'
BY DEF Accounted

\* A GET that finds a message moves the mark of c over exactly the post it
\* returns.
LEMMA GetPassesOne ==
    ASSUME IInv, NEW c \in Client, HasUnread(c),
           highwaters' = HighwaterAdvanced(c), UNCHANGED <<queue, posted>>
    PROVE  /\ Top(c) \in Nat
           /\ Unread(c).seq = Top(c) + 1
           /\ Top(c)' = Top(c) + 1
           /\ \A d \in Client : d # c => Top(d)' = Top(d)
<1>1. Base \in Nat /\ Base' = Base
  BY UnreadEntry DEF Base
<1>2. \A d \in Client : FirstUnread(d) \in Nat
  BY UnreadEntry DEF IInv, TypeOK
<1>3. QED
  BY <1>1, <1>2, UnreadEntry, MarkAdvanced DEF Top

\* Every post below the mark of a client is held by the client or lost in a way
\* that was counted, and none is both; one step per kind of action.
LEMMA NextNoSkip ==
    ASSUME IInv, NoSilentSkip, [Next]_vars
    PROVE  NoSilentSkip'
<1>1. SUFFICES ASSUME NEW d \in Client
               PROVE  Accounted(d)'
  BY DEF NoSilentSkip, Accounted, Top
<1>2. Accounted(d) /\ Top(d) \in Nat
  BY UnreadEntry DEF NoSilentSkip, Accounted, Top, IInv, TypeOK
<1>3. /\ received \in [Client -> Seq(Entry)] /\ in_queue \in [Client -> Seq(Entry)]
      /\ dropped \in [Client -> SUBSET (Nat \ {0})]
  BY DEF IInv, TypeOK
<1>4. CASE UNCHANGED <<queue, highwaters, posted, in_queue, received, dropped>>
  <2>1. Top(d)' = Top(d) /\ SeqsHeld(d)' = SeqsHeld(d) /\ dropped'[d] = dropped[d]
    BY <1>4 DEF Top, Base, FirstUnread, SeqsHeld
  <2>2. QED
    BY <1>2, <2>1, AccountKept
<1>5. ASSUME NEW c \in Client, PostAnswered(c) \/ PostResponseLost(c)
      PROVE  Accounted(d)'
  <2>1. /\ Len(queue') = Len(queue) + 1 /\ Len(posted') = Len(posted) + 1
        /\ UNCHANGED <<highwaters, in_queue, received, dropped>>
    BY <1>5 DEF PostAnswered, PostResponseLost, Accept, IInv, TypeOK
  <2>2. Base' = Base
    BY <2>1 DEF Base, IInv, TypeOK
  <2>3. Top(d)' = Top(d) /\ SeqsHeld(d)' = SeqsHeld(d) /\ dropped'[d] = dropped[d]
    BY <2>1, <2>2 DEF Top, FirstUnread, SeqsHeld
  <2>4. QED
    BY <1>2, <2>3, AccountKept
<1>6. ASSUME NEW c \in Client, PollMessage(c)
      PROVE  Accounted(d)'
  <2>1. /\ HasUnread(c) /\ highwaters' = HighwaterAdvanced(c)
        /\ UNCHANGED <<queue, posted, received, dropped>>
        /\ in_queue' = [in_queue EXCEPT ![c] = Append(@, Unread(c))]
        /\ in_queue[c] = << >>
    BY <1>6 DEF PollMessage, IInv, InQueueInv
  <2>2. CASE d = c
    <3>1. in_queue'[c] = <<Unread(c)>>
      BY <1>3, <2>1
    <3>2. SeqsHeld(c)' = SeqsHeld(c) \cup {Unread(c).seq}
      <4>1. {in_queue'[c][i].seq : i \in DOMAIN in_queue'[c]} = {Unread(c).seq}
        BY <3>1
      <4>2. {in_queue[c][i].seq : i \in DOMAIN in_queue[c]} = {}
        BY <2>1
      <4>3. QED
        BY <2>1, <4>1, <4>2 DEF SeqsHeld
    <3>3. Unread(c).seq = Top(c) + 1 /\ Top(c)' = Top(c) + 1
      BY <2>1, GetPassesOne
    <3>4. QED
      BY <1>2, <2>1, <2>2, <3>2, <3>3, OneMore DEF Accounted
  <2>3. CASE d # c
    <3>1. in_queue'[d] = in_queue[d]
      BY <1>3, <2>1, <2>3
    <3>2. SeqsHeld(d)' = SeqsHeld(d)
      BY <2>1, <3>1 DEF SeqsHeld
    <3>3. Top(d)' = Top(d)
      BY <2>1, <2>3, GetPassesOne
    <3>4. QED
      BY <1>2, <2>1, <3>2, <3>3, AccountKept
  <2>4. QED
    BY <2>2, <2>3
<1>7. ASSUME NEW c \in Client, PollResponseLost(c)
      PROVE  Accounted(d)'
  <2>1. /\ HasUnread(c) /\ highwaters' = HighwaterAdvanced(c)
        /\ UNCHANGED <<queue, posted, received, in_queue>>
        /\ dropped' = [dropped EXCEPT ![c] = @ \cup {Unread(c).seq}]
    BY <1>7 DEF PollResponseLost
  <2>2. SeqsHeld(d)' = SeqsHeld(d)
    BY <2>1 DEF SeqsHeld
  <2>3. CASE d = c
    <3>1. Unread(c).seq = Top(c) + 1 /\ Top(c)' = Top(c) + 1
      BY <2>1, GetPassesOne
    <3>2. dropped'[c] = dropped[c] \cup {Top(c) + 1}
      BY <1>3, <2>1, <3>1
    <3>3. QED
      BY <1>2, <2>2, <2>3, <3>1, <3>2, OneMore DEF Accounted
  <2>4. CASE d # c
    <3>1. Top(d)' = Top(d) /\ dropped'[d] = dropped[d]
      BY <1>3, <2>1, <2>4, GetPassesOne
    <3>2. QED
      BY <1>2, <2>2, <3>1, AccountKept
  <2>5. QED
    BY <2>3, <2>4
<1>8. ASSUME NEW c \in Client, NextMessage(c), in_queue[c] # << >>
      PROVE  Accounted(d)'
  <2>1. in_queue[c] \in Seq(Entry) /\ Len(in_queue[c]) \in Nat \ {0}
    BY <1>3, <1>8, EmptySeq
  <2>2. Len(in_queue[c]) = 1
    <3>1. \A n \in Nat \ {0} : n <= 1 => n = 1
      OBVIOUS
    <3>2. QED
      BY <2>1, <3>1, Zenon DEF IInv, InQueueInv
  <2>3. PICK e \in Entry : e = in_queue[c][1]
    BY <2>1
  <2>4. /\ received' = [received EXCEPT ![c] = Append(@, e)]
        /\ in_queue' = [in_queue EXCEPT ![c] = << >>]
        /\ UNCHANGED <<queue, highwaters, posted, dropped>>
    BY <1>3, <1>8, <2>2, <2>3 DEF NextMessage
  <2>5. Top(d)' = Top(d)
    BY <2>4 DEF Top, Base, FirstUnread
  <2>6. SeqsHeld(d)' = SeqsHeld(d)
    <3>1. CASE d = c
      <4>1. received'[c] = Append(received[c], e) /\ in_queue'[c] = << >>
        BY <1>3, <2>4
      <4>2. ASSUME NEW q \in Seq(Entry)
            PROVE  Seqs(Append(q, e)) = Seqs(q) \cup {e.seq}
        <5>1. /\ DOMAIN Append(q, e) = 1..(Len(q) + 1) /\ DOMAIN q = 1..Len(q)
              /\ Append(q, e)[Len(q) + 1] = e
              /\ \A i \in 1..Len(q) : Append(q, e)[i] = q[i]
              /\ Len(q) \in Nat
          OBVIOUS
        <5>2. ASSUME NEW i \in 1..(Len(q) + 1)
              PROVE  Append(q, e)[i].seq \in {q[j].seq : j \in 1..Len(q)} \cup {e.seq}
          <6>1. i = Len(q) + 1 \/ i \in 1..Len(q)
            BY <5>1
          <6>2. QED
            BY <5>1, <6>1, Zenon
        <5>3. ASSUME NEW j \in 1..Len(q)
              PROVE  j \in 1..(Len(q) + 1) /\ q[j].seq = Append(q, e)[j].seq
          BY <5>1
        <5>4. Len(q) + 1 \in 1..(Len(q) + 1) /\ e.seq = Append(q, e)[Len(q) + 1].seq
          BY <5>1
        <5>5. DEFINE S == {Append(q, e)[i].seq : i \in 1..(Len(q) + 1)}
                     T == {q[j].seq : j \in 1..Len(q)} \cup {e.seq}
        <5>6. S \subseteq T
          BY <5>2, Zenon
        <5>7. T \subseteq S
          BY <5>3, <5>4, Zenon
        <5>8. S = T
          BY <5>6, <5>7, Zenon
        <5>9. QED
          BY <5>1, <5>8 DEF Seqs
      <4>3. Seqs(in_queue[c]) = {e.seq}
        BY <2>1, <2>2, <2>3 DEF Seqs
      <4>4. Seqs(in_queue'[c]) = {}
        BY <4>1 DEF Seqs
      <4>5. Seqs(received'[c]) = Seqs(received[c]) \cup {e.seq}
        <5>1. received[c] \in Seq(Entry)
          BY <1>3
        <5>2. QED
          BY <4>1, <4>2, <5>1
      <4>6. /\ SeqsHeld(c) = Seqs(received[c]) \cup Seqs(in_queue[c])
            /\ SeqsHeld(c)' = Seqs(received'[c]) \cup Seqs(in_queue'[c])
        BY DEF SeqsHeld, Seqs
      <4>7. QED
        BY <3>1, <4>3, <4>4, <4>5, <4>6
    <3>2. CASE d # c
      <4>1. received'[d] = received[d] /\ in_queue'[d] = in_queue[d]
        BY <1>3, <2>4, <3>2
      <4>2. QED
        BY <4>1 DEF SeqsHeld
    <3>3. QED
      BY <3>1, <3>2
  <2>7. QED
    BY <1>2, <2>4, <2>5, <2>6, AccountKept
<1>9. CASE Restart
  <2>1. /\ queue' = << >> /\ highwaters' = << >>
        /\ UNCHANGED <<posted, received, in_queue>>
        /\ dropped'[d] = dropped[d] \cup
                            {Base + i : i \in (FirstUnread(d) + 1)..Len(queue)}
    BY <1>9 DEF Restart
  <2>2. Top(d)' = Len(posted)
    BY <2>1 DEF Top, Base, FirstUnread, IInv, TypeOK
  <2>3. SeqsHeld(d)' = SeqsHeld(d)
    BY <2>1 DEF SeqsHeld
  <2>4. /\ Base \in Nat /\ FirstUnread(d) \in 0..Len(queue)
        /\ Len(queue) \in Nat /\ Len(posted) \in Nat
        /\ Base + Len(queue) = Len(posted)
    BY UnreadEntry DEF IInv, TypeOK
  <2>5. {Base + i : i \in (FirstUnread(d) + 1)..Len(queue)} = (Top(d) + 1)..Len(posted)
    <3>1. ASSUME NEW b \in Nat, NEW f \in Nat, NEW q \in Nat
          PROVE  {b + i : i \in (f + 1)..q} = (b + f + 1)..(b + q)
      <4>1. ASSUME NEW p \in (b + f + 1)..(b + q)
            PROVE  \E i \in (f + 1)..q : p = b + i
        <5>1. p - b \in (f + 1)..q /\ p = b + (p - b)
          OBVIOUS
        <5>2. QED
          BY <5>1
      <4>2. \A i \in (f + 1)..q : b + i \in (b + f + 1)..(b + q)
        OBVIOUS
      <4>3. QED
        BY <4>1, <4>2, Zenon
    <3>2. FirstUnread(d) \in Nat
      BY <2>4
    <3>3. {Base + i : i \in (FirstUnread(d) + 1)..Len(queue)}
             = (Base + FirstUnread(d) + 1)..(Base + Len(queue))
      BY <2>4, <3>1, <3>2, Zenon
    <3>4. QED
      BY <2>4, <3>3, Zenon DEF Top
  <2>6. Top(d) <= Len(posted)
    BY <2>4 DEF Top
  <2>7. /\ 1..Top(d) \cup (Top(d) + 1)..Len(posted) = 1..Len(posted)
        /\ 1..Top(d) \cap (Top(d) + 1)..Len(posted) = {}
    BY <1>2, <2>4, <2>6
  <2>8. QED
    BY <1>2, <2>1, <2>2, <2>3, <2>5, <2>7, Zenon DEF Accounted
<1>10. QED
  <2>1. \/ UNCHANGED <<queue, highwaters, posted, in_queue, received, dropped>>
        \/ \E c \in Client : PostAnswered(c) \/ PostResponseLost(c)
        \/ \E c \in Client : PollMessage(c)
        \/ \E c \in Client : PollResponseLost(c)
        \/ \E c \in Client : NextMessage(c) /\ in_queue[c] # << >>
        \/ Restart
    BY DEF Next, vars, SendMessage, SendGivesUp, PollEmpty, NextMessage
  <2>2. QED
    BY <1>4, <1>5, <1>6, <1>7, <1>8, <1>9, <2>1

\* MemState::get skips nothing: for any number of clients, posts, lost responses
\* and restarts, a client's mark has passed exactly the posts the client was
\* given and the ones a lost response or a restart took from it.
THEOREM SkipsNothing == Spec => []NoSilentSkip
<1>1. Init => NoSilentSkip
  BY DEF Init, NoSilentSkip, SeqsHeld, Base, FirstUnread
<1>2. IInv /\ NoSilentSkip /\ [Next]_vars => NoSilentSkip'
  BY NextNoSkip
<1>3. QED
  BY IInvAlways, <1>1, <1>2, PTL DEF Spec

-----------------------------------------------------------------------------
(* Refinement *)

AbsPos == [c \in Client |-> LastReceived(c)]

\* next_message moves the position of its client up, to a post that exists.
LEMMA NextMessageDelivers ==
    ASSUME IInv, NEW c \in Client, NextMessage(c), in_queue[c] # << >>
    PROVE  \E p \in 1..Len(posted) :
              /\ p \in (LastReceived(c) + 1)..Len(posted)
              /\ AbsPos' = [AbsPos EXCEPT ![c] = p]
              /\ UNCHANGED posted
<1>1. in_queue[c] \in Seq(Entry) /\ Len(in_queue[c]) \in Nat \ {0}
  BY EmptySeq DEF IInv, TypeOK
<1>2. Len(in_queue[c]) = 1
  <2>1. \A n \in Nat \ {0} : n <= 1 => n = 1
    OBVIOUS
  <2>2. QED
    BY <1>1, <2>1, Zenon DEF IInv, InQueueInv
<1>3. PICK e \in Entry : e = in_queue[c][1]
  BY <1>1
<1>4. received' = [received EXCEPT ![c] = Append(@, e)] /\ UNCHANGED posted
  BY <1>2, <1>3 DEF NextMessage
<1>5. e.seq \in 1..Len(posted)
  BY <1>3, UnreadEntry DEF IInv, HeldInv, Passed, Entry
<1>6. LastReceived(c) \in Nat /\ LastReceived(c) < e.seq
  <2>1. CASE received[c] = << >>
    BY <2>1, <1>5 DEF LastReceived
  <2>2. CASE received[c] # << >>
    <3>1. received[c] \in Seq(Entry) /\ Len(received[c]) \in Nat \ {0}
      BY <2>2, EmptySeq DEF IInv, TypeOK
    <3>2. received[c][Len(received[c])] \in Entry
      BY <3>1
    <3>3. received[c][Len(received[c])].seq < e.seq
      BY <1>3, <3>1 DEF IInv, HeldInv
    <3>4. QED
      BY <2>2, <3>2, <3>3 DEF LastReceived, Entry
  <2>3. QED
    BY <2>1, <2>2
<1>7. \A d \in Client : LastReceived(d)' = IF d = c THEN e.seq ELSE LastReceived(d)
  <2>1. received[c] \in Seq(Entry)
    BY DEF IInv, TypeOK
  <2>2. received'[c] = Append(received[c], e)
    BY <1>4 DEF IInv, TypeOK
  <2>3. received'[c] # << >> /\ received'[c][Len(received'[c])] = e
    <3>1. ASSUME NEW q \in Seq(Entry)
          PROVE  /\ Append(q, e) # << >>
                 /\ Append(q, e)[Len(Append(q, e))] = e
      OBVIOUS
    <3>2. QED
      BY <2>1, <2>2, <3>1, Zenon
  <2>4. QED
    BY <1>4, <2>3 DEF LastReceived, IInv, TypeOK
<1>8. AbsPos' = [AbsPos EXCEPT ![c] = e.seq]
  BY <1>7 DEF AbsPos
<1>9. e.seq \in (LastReceived(c) + 1)..Len(posted)
  BY <1>5, <1>6
<1>10. QED
  BY <1>4, <1>5, <1>8, <1>9

\* The relay and its clients implement the ordered broadcast over which the
\* signers and the FROST coordinator are modelled.
THEOREM RefinesBroadcast == Spec => ImplementsBroadcast
<1>1. Init => Abstract!Init
  BY DEF Init, Abstract!Init, LastReceived
<1>2. ASSUME IInv, [Next]_vars
      PROVE  [Abstract!Next]_<<posted, AbsPos>>
  <2>1. ASSUME NEW c \in Client, PostAnswered(c) \/ PostResponseLost(c)
        PROVE  Abstract!Next
    <3>1. sending[c] \in Body /\ posted' = Append(posted, sending[c])
          /\ UNCHANGED received
      BY <1>2, <2>1 DEF PostAnswered, PostResponseLost, Accept, IInv, TypeOK
    <3>2. UNCHANGED AbsPos
      BY <3>1 DEF AbsPos, LastReceived
    <3>3. QED
      BY <3>1, <3>2 DEF Abstract!Next, Abstract!Publish, AbsPos
  <2>2. ASSUME NEW c \in Client, NextMessage(c), in_queue[c] # << >>
        PROVE  Abstract!Next
    <3>1. PICK p \in 1..Len(posted) :
             /\ p \in (LastReceived(c) + 1)..Len(posted)
             /\ AbsPos' = [AbsPos EXCEPT ![c] = p]
             /\ UNCHANGED posted
      BY <1>2, <2>2, NextMessageDelivers
    <3>2. AbsPos[c] = LastReceived(c)
      BY DEF AbsPos
    <3>3. QED
      BY <3>1, <3>2 DEF Abstract!Next, Abstract!Deliver, AbsPos
  <2>3. ASSUME UNCHANGED <<posted, received>>
        PROVE  UNCHANGED <<posted, AbsPos>>
    BY <2>3 DEF AbsPos, LastReceived
  <2>4. \/ UNCHANGED <<posted, received>>
        \/ \E c \in Client : PostAnswered(c) \/ PostResponseLost(c)
        \/ \E c \in Client : NextMessage(c) /\ in_queue[c] # << >>
    BY <1>2 DEF Next, vars, SendMessage, SendGivesUp, PollMessage, PollEmpty,
                PollResponseLost, NextMessage, Restart
  <2>5. QED
    BY <2>1, <2>2, <2>3, <2>4
<1>3. QED
  BY IInvAlways, <1>1, <1>2, PTL DEF Spec, ImplementsBroadcast, Abstract!Spec, AbsPos
=============================================================================
