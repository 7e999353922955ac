-------------------------------- MODULE Relay --------------------------------
(***************************************************************************)
(* relay-server (MemState behind Server::update) and the HTTP clients of   *)
(* frost-signer/src/net.rs (HttpNet, HttpNetListen).                       *)
(*                                                                         *)
(* The server handles one connection at a time, so a GET or a POST is one  *)
(* step on its side.  A client polls and pops in one thread and may post   *)
(* from another.  Requests and responses can be lost: a lost POST response *)
(* makes the client post again, a lost GET response loses the message,     *)
(* because the server has already moved its highwater mark.  The server    *)
(* keeps everything in memory, so a restart starts an empty queue.         *)
(*                                                                         *)
(* An entry is [seq, body]: body stands for the bytes that were posted and *)
(* seq (auxiliary) for their position among all the posts ever accepted.   *)
(***************************************************************************)
EXTENDS Naturals, Sequences, FiniteSets

CONSTANTS
    Client,         \* ids of the clients
    Body,           \* message contents
    NoBody,         \* "this client is not sending"
    MaxPosts,       \* bound: posts accepted in a run
    MaxFaults       \* bound: lost responses, given-up sends and restarts

ASSUME RelayAssumption ==
    /\ NoBody \notin Body
    /\ MaxPosts \in Nat
    /\ MaxFaults \in Nat

VARIABLES
    queue,          \* MemState::queue
    highwaters,     \* MemState::highwaters: absent, or 0-based index last read
    sending,        \* the body HttpNet::send_message is trying to post
    pc,             \* what the polling thread does next: poll, or next_message
    in_queue,       \* HttpNetListen::in_queue
    received,       \* auxiliary: the entries next_message returned
    posted,         \* auxiliary: the bodies the server ever accepted
    dropped,        \* auxiliary: seqs a client will never be given
    faults          \* faults so far

vars == <<queue, highwaters, sending, pc, in_queue, received, posted, dropped,
          faults>>

Entry == [seq : Nat \ {0}, body : Body]

-----------------------------------------------------------------------------
(* The server *)

\* MemState::get: the 0-based index of the first message c has not read.
FirstUnread(c) == IF c \in DOMAIN highwaters THEN highwaters[c] + 1 ELSE 0

\* Mutant: an index off by one.
HasTwoUnread(c) == FirstUnread(c) + 1 < Len(queue)

\* queue.get(first_unread) is Some.
HasUnread(c) == FirstUnread(c) < Len(queue)

\* The entry a GET of c returns.
Unread(c) == queue[FirstUnread(c) + 1]

\* Mutants: the mark is not moved; it is moved too far; a client starts at the
\* newest message.
HighwaterKept(c) == highwaters
HighwaterPast(c) ==
    [x \in DOMAIN highwaters \cup {c} |->
        IF x = c THEN FirstUnread(c) + 1 ELSE highwaters[x]]
HighwaterAtEnd(c) ==
    [x \in DOMAIN highwaters \cup {c} |->
        IF x = c THEN Len(queue) - 1 ELSE highwaters[x]]

\* highwaters.insert(node_id, first_unread)
HighwaterAdvanced(c) ==
    [x \in DOMAIN highwaters \cup {c} |->
        IF x = c THEN FirstUnread(c) ELSE highwaters[x]]

\* Mutant: the message is put at the front of the queue.
AcceptAtFront(b) ==
    /\ Len(posted) < MaxPosts
    /\ queue' = <<[seq |-> Len(posted) + 1, body |-> b]>> \o queue
    /\ posted' = Append(posted, b)

\* MemState::post
Accept(b) ==
    /\ Len(posted) < MaxPosts
    /\ queue' = Append(queue, [seq |-> Len(posted) + 1, body |-> b])
    /\ posted' = Append(posted, b)

\* Number of posts accepted before the server's last restart.
Base == Len(posted) - Len(queue)

-----------------------------------------------------------------------------
(* HttpNet::send_message: post, and again until a response arrives *)

SendMessage(c, b) ==
    /\ sending[c] = NoBody
    /\ sending' = [sending EXCEPT ![c] = b]
    /\ UNCHANGED <<queue, highwaters, pc, in_queue, received, posted, dropped,
                   faults>>

PostAnswered(c) ==
    /\ sending[c] # NoBody
    /\ Accept(sending[c])
    /\ sending' = [sending EXCEPT ![c] = NoBody]
    /\ UNCHANGED <<highwaters, pc, in_queue, received, dropped, faults>>

\* The server accepted the message but the client is told of an error: the
\* backoff will call send_request again.
PostResponseLost(c) ==
    /\ sending[c] # NoBody
    /\ faults < MaxFaults
    /\ Accept(sending[c])
    /\ faults' = faults + 1
    /\ UNCHANGED <<highwaters, sending, pc, in_queue, received, dropped>>

\* The backoff's time is over: Err(Timeout), whether or not a post got through.
SendGivesUp(c) ==
    /\ sending[c] # NoBody
    /\ faults < MaxFaults
    /\ faults' = faults + 1
    /\ sending' = [sending EXCEPT ![c] = NoBody]
    /\ UNCHANGED <<queue, highwaters, pc, in_queue, received, posted, dropped>>

-----------------------------------------------------------------------------
(* HttpNetListen::poll and next_message, called in turn by one thread *)

\* The GET is answered with the first unread message.
PollMessage(c) ==
    /\ pc[c] = "poll"
    /\ HasUnread(c)
    /\ highwaters' = HighwaterAdvanced(c)
    /\ in_queue' = [in_queue EXCEPT ![c] = Append(@, Unread(c))]
    /\ pc' = [pc EXCEPT ![c] = "next_message"]
    /\ UNCHANGED <<queue, sending, received, posted, dropped, faults>>

\* The GET is answered with no content, which does not decode as a Message.
PollEmpty(c) ==
    /\ pc[c] = "poll"
    /\ ~HasUnread(c)
    /\ pc' = [pc EXCEPT ![c] = "next_message"]
    /\ UNCHANGED <<queue, highwaters, sending, in_queue, received, posted,
                   dropped, faults>>

\* The server answers but the answer does not arrive: get has moved the
\* highwater mark before response.write can fail.
PollResponseLost(c) ==
    /\ pc[c] = "poll"
    /\ HasUnread(c)
    /\ faults < MaxFaults
    /\ faults' = faults + 1
    /\ highwaters' = HighwaterAdvanced(c)
    /\ dropped' = [dropped EXCEPT ![c] = @ \cup {Unread(c).seq}]
    /\ pc' = [pc EXCEPT ![c] = "next_message"]
    /\ UNCHANGED <<queue, sending, in_queue, received, posted>>

\* in_queue.pop() takes the entry at the end of the vector.
NextMessage(c) ==
    /\ pc[c] = "next_message"
    /\ pc' = [pc EXCEPT ![c] = "poll"]
    /\ IF in_queue[c] = << >>
       THEN UNCHANGED <<in_queue, received>>
       ELSE LET n == Len(in_queue[c]) IN
            /\ received' = [received EXCEPT ![c] = Append(@, in_queue[c][n])]
            /\ in_queue' = [in_queue EXCEPT ![c] = SubSeq(@, 1, n - 1)]
    /\ UNCHANGED <<queue, highwaters, sending, posted, dropped, faults>>

-----------------------------------------------------------------------------
\* Server::run starts with Server::default(): what was queued is forgotten.
Restart ==
    /\ faults < MaxFaults
    /\ faults' = faults + 1
    /\ queue' = << >>
    /\ highwaters' = << >>
    /\ dropped' = [c \in Client |->
                      dropped[c] \cup
                      {Base + i : i \in (FirstUnread(c) + 1)..Len(queue)}]
    /\ UNCHANGED <<sending, pc, in_queue, received, posted>>

Init ==
    /\ queue = << >>
    /\ highwaters = << >>
    /\ sending = [c \in Client |-> NoBody]
    /\ pc = [c \in Client |-> "poll"]
    /\ in_queue = [c \in Client |-> << >>]
    /\ received = [c \in Client |-> << >>]
    /\ posted = << >>
    /\ dropped = [c \in Client |-> {}]
    /\ faults = 0

Next ==
    \/ \E c \in Client :
          \/ \E b \in Body : SendMessage(c, b)
          \/ PostAnswered(c)
          \/ PostResponseLost(c)
          \/ SendGivesUp(c)
          \/ PollMessage(c)
          \/ PollEmpty(c)
          \/ PollResponseLost(c)
          \/ NextMessage(c)
    \/ Restart

\* The polling loop never stops: poll_loop and wait_for_next_message call poll
\* and next_message again and again.
Fairness ==
    \A c \in Client :
        /\ WF_vars(PollMessage(c))
        /\ WF_vars(NextMessage(c))

Spec == Init /\ [][Next]_vars
FairSpec == Spec /\ Fairness

-----------------------------------------------------------------------------
(***************************************************************************)
(* Types.  A highwater mark is the index of a message that is in the queue *)
(* (MemState::get only stores an index it has found there).                *)
(***************************************************************************)
TypeOK ==
    /\ queue \in Seq(Entry)
    /\ DOMAIN highwaters \subseteq Client
    /\ \A c \in DOMAIN highwaters : highwaters[c] \in 0..(Len(queue) - 1)
    /\ sending \in [Client -> Body \cup {NoBody}]
    /\ pc \in [Client -> {"poll", "next_message"}]
    /\ in_queue \in [Client -> Seq(Entry)]
    /\ received \in [Client -> Seq(Entry)]
    /\ posted \in Seq(Body)
    /\ dropped \in [Client -> SUBSET (Nat \ {0})]
    /\ faults \in Nat

(***************************************************************************)
(* relay-server/README.md: "Returning the messages in the same order as    *)
(* received for each client."  Across retries, lost responses and server   *)
(* restarts, what next_message hands to a client is in the order of        *)
(* acceptance, never twice the same post, and with the posted content.     *)
(***************************************************************************)
DeliveredInOrder ==
    \A c \in Client :
        /\ \A i, j \in DOMAIN received[c] :
              i < j => received[c][i].seq < received[c][j].seq
        /\ \A i \in DOMAIN received[c] :
              /\ received[c][i].seq <= Len(posted)
              /\ received[c][i].body = posted[received[c][i].seq]

\* What client c was given, or holds in in_queue.
SeqsHeld(c) ==
    {received[c][i].seq : i \in DOMAIN received[c]}
        \cup {in_queue[c][i].seq : i \in DOMAIN in_queue[c]}

(***************************************************************************)
(* MemState::get never skips a message by itself: every post below the     *)
(* mark of a client reached that client, or was in a response that was     *)
(* lost or in the memory of a server that was restarted; and none above    *)
(* the mark did.                                                           *)
(***************************************************************************)
NoSilentSkip ==
    \A c \in Client :
        /\ SeqsHeld(c) \cup dropped[c] = 1..(Base + FirstUnread(c))
        /\ SeqsHeld(c) \cap dropped[c] = {}

(***************************************************************************)
(* A client that keeps polling gets every accepted post, except the ones   *)
(* that a lost GET response or a restart of the server took from it.       *)
(***************************************************************************)
EventuallyReceived ==
    \A c \in Client, p \in 1..MaxPosts :
        p <= Len(posted) ~> \/ p \in dropped[c]
                            \/ \E i \in DOMAIN received[c] :
                                  received[c][i].seq = p

\* The seq of the last entry next_message gave to c.
LastReceived(c) ==
    IF received[c] = << >> THEN 0 ELSE received[c][Len(received[c])].seq

Abstract == INSTANCE Broadcast WITH
    Node <- Client,
    Message <- Body,
    log <- posted,
    pos <- [c \in Client |-> LastReceived(c)]

(***************************************************************************)
(* The relay and its polling clients implement the ordered broadcast: what *)
(* next_message returns, for MemState, HttpNet and HttpNetListen together, *)
(* is what the protocol modules assume of the network (TotalOrder).        *)
(***************************************************************************)
ImplementsBroadcast == Abstract!Spec
=============================================================================
