------------------------------ MODULE RelayWire ------------------------------
(***************************************************************************)
(* The relay server reached over connections: ProxyState (relay-server),   *)
(* the Call that writes a request to a stream and reads the response, and  *)
(* Server::run and update on the other side.  Module Relay takes a GET or  *)
(* a POST as one step that happens or not; this module is about what the   *)
(* bytes on the way make of that.                                          *)
(*                                                                         *)
(* Every call has a connection of its own (relay-server serves one request *)
(* per connection).  Symbols arrive one at a time, and a connection can    *)
(* break between any two.  The server takes the connections one after the  *)
(* other and waits for each as long as it takes.  Besides ProxyState there *)
(* are clients that write requests their own way (ureq, curl).             *)
(***************************************************************************)
EXTENDS HttpCodec, FiniteSets

CONSTANTS
    NumConn,            \* bound: connections
    Id,                 \* ids of nodes
    Symbol,             \* symbols of contents
    Content,            \* contents of messages, sequences of symbols
    NoId,               \* a GET without an id
    MaxCuts             \* bound: connections that break

ASSUME WireAssumption ==
    /\ NumConn \in Nat /\ MaxCuts \in Nat
    /\ Id \cap Separator = {} /\ NoId \notin Id
    /\ Content \subseteq Seq(Symbol) /\ \A s \in Content : Len(s) <= MaxLength

Conn == 1..NumConn      \* in the order they are made

VARIABLES
    call,               \* call[c]: [by, method, id, content], or NoCall
    up, down,           \* symbols on their way to the server and to the caller
    request,            \* what the server has read of the request it is reading
    response,           \* response[c]: what the caller has read of the response
    state,              \* state[c]: "new", "open", "cut", "closed" (by the server), "returned"
    result,             \* result[c]: "none", "ok" or "error", what the call returned
    backlog,            \* connections the server has not finished with, in order
    queue, highwaters,  \* MemState
    truth               \* auxiliary: the same, and the answers, had the calls been direct

vars == <<call, up, down, request, response, state, result, backlog, queue,
          highwaters, truth>>

NoCall == [by |-> "nobody"]
Calls ==
    [by : {"proxy"}, method : {"GET"}, id : Id, content : {<< >>}]
    \cup [by : {"other"}, method : {"GET"}, id : Id \cup {NoId}, content : {<< >>}]
    \cup [by : {"proxy", "other"}, method : {"POST"}, id : {NoId}, content : Content]

-----------------------------------------------------------------------------
(* The caller.  ProxyState::get and post.                                  *)
ProxyRequest(m) ==
    IF m.method = "GET" THEN WriteRequest("GET", <<"/", "?", "id", "=", m.id>>, << >>)
                        ELSE WriteRequest("POST", <<"/">>, m.content)

(* Another client: its own headers, a length also when there is none, the  *)
(* names in capitals, a blank before the values.                           *)
OtherRequest(m) ==
    <<m.method, "SP">>
    \o (IF m.id = NoId THEN <<"/">> ELSE <<"/", "?", "id", "=", m.id>>)
    \o <<"SP", PROTOCOL>> \o EOL
    \o write_header("Host", <<"relay">>)
    \o write_header("Content-Length", <<"SP", ToString(Len(m.content))>>)
    \o EOL \o m.content

Bytes(m) == IF m.by = "proxy" THEN ProxyRequest(m) ELSE OtherRequest(m)

Connect(c) ==
    /\ state[c] = "new" /\ \A d \in 1..(c - 1) : state[d] # "new"
    /\ \E m \in Calls : /\ call' = [call EXCEPT ![c] = m]
                        /\ up' = [up EXCEPT ![c] = Bytes(m)]
    /\ state' = [state EXCEPT ![c] = "open"]
    /\ backlog' = Append(backlog, c)
    /\ UNCHANGED <<down, request, response, result, queue, highwaters, truth>>

ReadResponse(c) ==
    /\ state[c] = "closed"
    /\ response[c].at \notin {"done", "error"}
    /\ down[c] # << >>
    /\ down' = [down EXCEPT ![c] = Tail(@)]
    /\ response' = [response EXCEPT ![c] = read(@, Head(down[c]))]
    /\ UNCHANGED <<call, up, request, state, result, backlog, queue, highwaters, truth>>

(* The call returns, if only because nothing more comes.                   *)
Return(c) ==
    /\ \/ state[c] = "cut"
       \/ state[c] = "closed" /\ response[c].at \in {"done", "error"}
       \/ state[c] = "closed" /\ down[c] = << >>
    /\ result' = [result EXCEPT ![c] = IF response[c].at = "done" /\ IsResponse(response[c])
                                       THEN "ok" ELSE "error"]
    /\ state' = [state EXCEPT ![c] = "returned"]
    /\ UNCHANGED <<call, up, down, request, response, backlog, queue, highwaters, truth>>

(* The connection breaks, or the caller gives it up: it gets nothing more. *)
(* The server may still be given what was sent before.                     *)
Cut(c) ==
    /\ state[c] \in {"open", "closed"}
    /\ Cardinality({d \in Conn : truth.cut[d]}) < MaxCuts
    /\ state' = [state EXCEPT ![c] = "cut"]
    /\ truth' = [truth EXCEPT !.cut[c] = TRUE]
    /\ UNCHANGED <<call, up, down, request, response, result, backlog, queue, highwaters>>

-----------------------------------------------------------------------------
(* The server.  MemState::get and post as functions of the state.          *)
FirstUnread(marks, id) == IF id \in DOMAIN marks THEN marks[id] + 1 ELSE 0
Get(q, marks, id) ==
    IF FirstUnread(marks, id) < Len(q)
    THEN [content |-> q[FirstUnread(marks, id) + 1],
          marks |-> [x \in DOMAIN marks \cup {id} |->
                        IF x = id THEN FirstUnread(marks, id) ELSE marks[x]]]
    ELSE [content |-> << >>, marks |-> marks]

(* What calls made on MemState itself would have done.                     *)
Direct(c) ==
    LET m == call[c]
        got == Get(truth.queue, truth.highwaters, <<m.id>>)
    IN  IF m.method = "POST"
        THEN [truth EXCEPT !.queue = Append(@, m.content), !.answer[c] = << >>]
        ELSE IF m.id = NoId THEN truth
        ELSE [truth EXCEPT !.highwaters = got.marks, !.answer[c] = got.content]

(* The server is done with c; an answer is on its way unless c broke.      *)
Close(c, bytes) ==
    /\ backlog' = Tail(backlog)
    /\ request' = Unread
    /\ state' = [state EXCEPT ![c] = IF @ = "open" THEN "closed" ELSE @]
    /\ down' = [down EXCEPT ![c] = IF state[c] = "open" THEN bytes ELSE << >>]
    /\ up' = [up EXCEPT ![c] = << >>]
    /\ UNCHANGED <<call, response, result>>

Serving(c) == backlog # << >> /\ c = Head(backlog)

ReadRequest(c) ==
    /\ Serving(c)
    /\ request.at \notin {"done", "error"}
    /\ up[c] # << >>
    /\ up' = [up EXCEPT ![c] = Tail(@)]
    /\ request' = read(request, Head(up[c]))
    /\ UNCHANGED <<call, down, response, state, result, backlog, queue, highwaters, truth>>

(* update: the request is read to its end, applied, and then answered.     *)
Whole(c) == Serving(c) /\ request.at = "done" /\ IsRequest(request)

(* raw_call, for a server in the same process, refuses a request that      *)
(* leaves something unread.                                                *)
LeavesUnread(c) == Serving(c) /\ request.at = "done" /\ up[c] # << >>

UpdatePost(c) ==
    /\ Whole(c)
    /\ RequestMethod(request) = "POST"
    /\ queue' = Append(queue, request.content)
    /\ truth' = Direct(c)
    /\ Close(c, WriteResponse(200, "OK", << >>))
    /\ UNCHANGED highwaters

UpdateGet(c) ==
    /\ Whole(c)
    /\ RequestMethod(request) = "GET"
    /\ \E query \in {url_query(RequestUrl(request))} :
          LET got == Get(queue, highwaters, query[<<"id">>])
          IN  IF <<"id">> \in DOMAIN query
              THEN highwaters' = got.marks /\ Close(c, WriteResponse(200, "OK", got.content))
              ELSE UNCHANGED highwaters /\ Close(c, << >>)
    /\ truth' = Direct(c)
    /\ UNCHANGED queue

(* The request does not parse, or its end does not come: the error is      *)
(* printed and the server goes on with the next connection.                *)
UpdateFails(c) ==
    /\ Serving(c)
    /\ \/ request.at = "error"
       \/ request.at = "done" /\ ~IsRequest(request)
       \/ request.at \notin {"done", "error"} /\ state[c] \in {"cut", "returned"}
    /\ Close(c, << >>)
    /\ UNCHANGED <<queue, highwaters, truth>>

-----------------------------------------------------------------------------
Init ==
    /\ call = [c \in Conn |-> NoCall]
    /\ up = [c \in Conn |-> << >>] /\ down = [c \in Conn |-> << >>]
    /\ state = [c \in Conn |-> "new"]
    /\ result = [c \in Conn |-> "none"]
    /\ request = Unread /\ response = [c \in Conn |-> Unread]
    /\ backlog = << >>
    /\ queue = << >> /\ highwaters = << >>
    /\ truth = [queue |-> << >>, highwaters |-> << >>,
                answer |-> [c \in Conn |-> << >>], cut |-> [c \in Conn |-> FALSE]]

Caller(c) == ReadResponse(c) \/ Return(c)
Server(c) == ReadRequest(c) \/ UpdatePost(c) \/ UpdateGet(c) \/ UpdateFails(c)

Next == \E c \in Conn : Connect(c) \/ Caller(c) \/ Cut(c) \/ Server(c)

Spec == Init /\ [][Next]_vars

(* Callers write to the end and read, the server's loop goes on; both only *)
(* while what they wait for comes.                                         *)
FairSpec ==
    /\ Spec
    /\ \A c \in Conn : WF_vars(Caller(c))
    /\ WF_vars(\E c \in Conn : Server(c))

-----------------------------------------------------------------------------
(* Types, and how far a call has come.                                     *)
TypeOK ==
    /\ \A c \in Conn :
          /\ state[c] \in {"new", "open", "cut", "closed", "returned"}
          /\ call[c] \in Calls \cup {NoCall} /\ (state[c] = "new" <=> call[c] = NoCall)
          /\ up[c] # << >> => c \in ToSet(backlog)
          /\ down[c] # << >> => c \notin ToSet(backlog)
          /\ result[c] \in {"none", "ok", "error"}
          /\ result[c] = "none" <=> state[c] # "returned"
    /\ ToSet(backlog) \subseteq Conn /\ IsInjective(backlog)
    /\ queue \in Seq(Content)

(* The bytes make no difference: MemState is what the calls would have     *)
(* made of it had they been made on it directly, in the order the server   *)
(* took the connections, whatever broke in the middle of a request; and a  *)
(* call that returns Ok returns MemState's answer, never a part of one.    *)
WireIsTransparent ==
    /\ queue = truth.queue /\ highwaters = truth.highwaters
    /\ \A c \in Conn : result[c] = "ok" => response[c].content = truth.answer[c]

(* Only a connection that breaks makes a call fail, or a GET without an    *)
(* id: no content, id or mixture of headers does, and the server reads to  *)
(* the end of what was written and no further.                             *)
FailsOnlyIfCut ==
    \A c \in Conn :
        /\ result[c] = "error" => truth.cut[c] \/ (call[c].method = "GET" /\ call[c].id = NoId)
        /\ ~LeavesUnread(c)

(* Every call returns: caller and server never both wait for bytes of the  *)
(* other, and a request that cannot be answered does not stop the ones     *)
(* behind it.                                                              *)
CallsReturn == \A c \in Conn : state[c] # "new" ~> state[c] = "returned"
=============================================================================
