------------------------------ MODULE SignerApi ------------------------------
(***************************************************************************)
(* stacks-signer-api: the HTTP server in front of a signer's database.     *)
(* The database is SQLite; every statement is atomic, nothing groups       *)
(* several of them, and requests are served concurrently, so each          *)
(* statement is a step.                                                    *)
(*                                                                         *)
(* A transaction is its id; a configuration is its row (secret key,        *)
(* delegate, limit) and its two lists.  The simulator is the only caller   *)
(* of add_transaction.                                                     *)
(***************************************************************************)
EXTENDS Integers, Sequences, SequencesExt, FiniteSets

CONSTANTS
    Client,        \* requests that may be served at the same time
    None,          \* Option::None
    NumTxs,        \* transactions the simulator makes
    Draws,         \* votes it draws from
    Files,         \* configuration files: [row, delegators, denied], the lists optional
    Bodies,        \* configurations clients post
    Queries,       \* queries of the list: [page, limit, status]
    USIZE,         \* the number of values of a usize
    MaxRequests, MaxStarts, MaxFaults  \* bounds

Txid == 1..NumTxs
Choice == {"approve", "reject"}
Status == {"pending", "approved", "rejected", "noconsensus"}

Vote(choice, status, current) ==
    [vote_choice |-> choice, vote_status |-> status, current_consensus |-> current]

(* What generate_vote can return: a choice is there or not, and the        *)
(* consensus lies in the range of the status.  How the vote was cast       *)
(* (auto or manual) is left out; a manual one may have any choice.         *)
generate_vote ==
    LET drawn(status) == CASE status = "pending" -> 1..54
                           [] status \in {"approved", "rejected"} -> 70..99
                           [] status = "noconsensus" -> 1..68
    IN  UNION {{Vote(choice, status, n) : choice \in Choice \cup {None}, n \in drawn(status)} :
               status \in Status}

(* A sequence, whatever its elements are.                                 *)
IsList(s) == s \in Seq(ToSet(s))

ASSUME ApiAssumption ==
    /\ NumTxs \in Nat /\ USIZE \in Nat /\ USIZE > 2 * NumTxs
    /\ Draws \subseteq generate_vote
    /\ None \notin Choice \cup Nat /\ None # "test"
    /\ \A config \in Bodies :
          config.row # None /\ IsList(config.delegators) /\ IsList(config.denied)
    /\ \A raw \in Files :
          raw.row # None /\ \A s \in {raw.delegators, raw.denied} : s = None \/ IsList(s)

VARIABLES
    db,            \* the tables: [config, delegators, denied, transactions, votes]
    persistent,    \* DATABASE_URL names a file
    server,        \* "down", "starting" or "up"
    command,       \* the command the process was started with
    todo,          \* statements left of the start
    req,           \* the requests being served
    cast,          \* choices written by requests since the transaction was added
    base,          \* the consensus each transaction was added with
    acked,         \* the configuration last written, if all of it was and no other
                   \* update overlapped
    alone,         \* the update being served overlaps no other
    steady,        \* requests for the configuration since then, no update having begun
    requests, starts, faults

ackVars == <<acked, alone, steady>>
vars == <<db, persistent, server, command, todo, req, cast, base, ackVars, requests, starts,
          faults>>

EmptyDb == [config |-> None, delegators |-> {}, denied |-> {},
            transactions |-> <<>>, votes |-> <<>>]
Idle == [at |-> "idle"]

-----------------------------------------------------------------------------
(* Statements: a table and the row for it.  Apply is the database after    *)
(* one.                                                                    *)
Statement(table, row) == <<table, row>>
Table(s) == s[1]
Row(s) == s[2]

(* The row the trigger adds to votes.                                      *)
add_empty_vote == Vote(None, "pending", 0)

(* A slip: the old row stays, as an INSERT without the key would do.       *)
add_transaction_twice(d, txid) ==
    [d EXCEPT !.transactions = Append(@, txid),
              !.votes = [t \in DOMAIN @ \cup {txid} |->
                            IF t = txid THEN add_empty_vote ELSE @[t]]]

(* The table without the row of a transaction.                             *)
Rows(transactions, txid) == {i \in DOMAIN transactions : transactions[i] = txid}
Delete(transactions, txid) ==
    IF Rows(transactions, txid) = {} THEN transactions
    ELSE RemoveAt(transactions, CHOOSE i \in Rows(transactions, txid) : TRUE)

(* A slip: there is no trigger, and the vote is deleted with the old row.  *)
add_transaction_no_trigger(d, txid) ==
    [d EXCEPT !.transactions = Append(Delete(@, txid), txid),
              !.votes = [t \in DOMAIN @ \ {txid} |-> @[t]]]

(* REPLACE deletes a transaction that is there, its vote goes with it      *)
(* (ON DELETE CASCADE), and the row is inserted at the end of the table,   *)
(* which makes an empty vote.                                              *)
add_transaction(d, txid) ==
    [d EXCEPT !.transactions = Append(Delete(@, txid), txid),
              !.votes = [t \in DOMAIN @ \cup {txid} |->
                            IF t = txid THEN add_empty_vote ELSE @[t]]]

(* The foreign key refuses a vote on a transaction that is not there.      *)
HasTransaction(d, txid) == \E i \in DOMAIN d.transactions : d.transactions[i] = txid

(* A slip: the statement counts the vote itself.                           *)
add_vote_counting(d, txid, vote) ==
    [d EXCEPT !.votes[txid] = [vote EXCEPT !.current_consensus =
                                              d.votes[txid].current_consensus + 1]]

add_vote(d, txid, vote) == [d EXCEPT !.votes[txid] = vote]

Apply(d, s) ==
    CASE Table(s) = "config" -> [d EXCEPT !.config = Row(s)]
      [] Table(s) = "delegator_public_keys" -> [d EXCEPT !.delegators = @ \cup {Row(s)}]
      [] Table(s) = "auto_deny_addresses" -> [d EXCEPT !.denied = @ \cup {Row(s)}]
      [] Table(s) = "transactions" -> add_transaction(d, Row(s))
      [] Table(s) = "votes" -> add_vote(d, Row(s)[1], Row(s)[2])

(* A slip: the configuration's addresses are forgotten.                    *)
update_config_no_addresses(config) ==
    <<Statement("config", config.row)>>
    \o [i \in DOMAIN config.delegators |->
           Statement("delegator_public_keys", config.delegators[i])]

(* Three loops of statements: the row is replaced, the lists only grow.    *)
update_config(config) ==
    <<Statement("config", config.row)>>
    \o [i \in DOMAIN config.delegators |->
           Statement("delegator_public_keys", config.delegators[i])]
    \o [i \in DOMAIN config.denied |-> Statement("auto_deny_addresses", config.denied[i])]

(* Config::try_from: lists that are not in the file are empty.             *)
OrEmpty(list) == IF list = None THEN <<>> ELSE list
FromRaw(raw) == [row |-> raw.row, delegators |-> OrEmpty(raw.delegators),
                 denied |-> OrEmpty(raw.denied)]
from_secret_key == [row |-> "test", delegators |-> <<>>, denied |-> <<>>]

ASSUME ConfigAssumption == None \notin {FromRaw(raw) : raw \in Files} \cup {from_secret_key}

(* run_simulator: ten transactions, each with a vote drawn for it.         *)
generate_txs_votes(drawn) ==
    [i \in Txid |-> Statement("transactions", i)]
    \o [i \in Txid |-> Statement("votes", <<i, drawn[i]>>)]

-----------------------------------------------------------------------------
(* Starting.  Database errors of the start end the process (Crash).        *)
Begin(cmd, program, config) ==
    /\ server = "down"
    /\ starts < MaxStarts
    /\ starts' = starts + 1
    /\ server' = "starting"
    /\ command' = [name |-> cmd, config |-> config]
    /\ todo' = program
    /\ acked' = IF config = None THEN acked ELSE {}
    /\ UNCHANGED <<db, persistent, req, cast, base, alone, steady, requests, faults>>

(* verify_config, with a file: its configuration is written; without: the  *)
(* database must hold one and must have been named.                        *)
RunWithFile(raw) == Begin("run", update_config(FromRaw(raw)), FromRaw(raw))

Run ==
    /\ persistent
    /\ db.config # None
    /\ Begin("run", <<>>, None)

RunSimulator ==
    \E drawn \in [Txid -> Draws] :
        Begin("simulator", update_config(from_secret_key) \o generate_txs_votes(drawn),
              from_secret_key)

(* The Swagger page comes with all routes and no check of the              *)
(* configuration.                                                          *)
RunSwagger == Begin("swagger", <<>>, None)

StartStatement ==
    /\ server = "starting"
    /\ todo # <<>>
    /\ LET s == Head(todo)
       IN  /\ db' = Apply(db, s)
           /\ cast' = IF Table(s) = "transactions" THEN [cast EXCEPT ![Row(s)] = <<>>] ELSE cast
           /\ base' = CASE Table(s) = "transactions" -> [base EXCEPT ![Row(s)] = 0]
                        [] Table(s) = "votes" ->
                              [base EXCEPT ![Row(s)[1]] = Row(s)[2].current_consensus]
                        [] OTHER -> base
    /\ todo' = Tail(todo)
    /\ UNCHANGED <<persistent, server, command, req, ackVars, requests, starts, faults>>

Serve ==
    /\ server = "starting"
    /\ todo = <<>>
    /\ server' = "up"
    /\ acked' = IF command.config = None THEN acked ELSE {command.config}
    /\ UNCHANGED <<db, persistent, command, todo, req, cast, base, alone, steady, requests,
                   starts, faults>>

(* The process stops between any two statements.  A database in memory is  *)
(* gone with it; that it may also go while the process runs, when the      *)
(* pool's last connection is closed for being idle, is left out.           *)
Crash ==
    /\ server # "down"
    /\ server' = "down"
    /\ command' = None
    /\ todo' = <<>>
    /\ req' = [c \in Client |-> Idle]
    /\ IF persistent THEN UNCHANGED <<db, cast, base, acked>>
       ELSE /\ db' = EmptyDb
            /\ cast' = [t \in Txid |-> <<>>]
            /\ base' = [t \in Txid |-> 0]
            /\ acked' = {}
    /\ steady' = {}
    /\ UNCHANGED <<persistent, alone, requests, starts, faults>>

-----------------------------------------------------------------------------
(* Requests.  A request arrives with its first statement; the others, and  *)
(* the answer, are steps of their own.                                     *)
Arrive(c, r) ==
    /\ server = "up"
    /\ req[c] = Idle
    /\ requests < MaxRequests
    /\ requests' = requests + 1
    /\ req' = [req EXCEPT ![c] = r]
    /\ UNCHANGED <<db, persistent, server, command, todo, cast, base, starts, faults>>

Reply(code, body) == [at |-> "reply", code |-> code, body |-> body, votes |-> 0]

Goes(c, r) ==
    /\ req' = [req EXCEPT ![c] = r]
    /\ UNCHANGED <<persistent, server, command, todo, base, requests, starts, faults>>

(* POST /v1/vote: the vote is read, and written by a later statement.      *)
(* A slip: a vote that was cast is only refused once voting has ended.     *)
ReadBallotOpen(txid, choice) ==
    IF txid \notin DOMAIN db.votes THEN Reply("NOT_FOUND", <<>>)
    ELSE LET v == db.votes[txid]
         IN  IF v.vote_status # "pending" THEN Reply("FORBIDDEN", <<>>)
             ELSE [at |-> "vote", txid |-> txid, votes |-> Len(cast[txid]),
                   vote |-> [v EXCEPT !.vote_choice = choice, !.current_consensus = @ + 1]]

ReadBallot(txid, choice) ==
    IF txid \notin DOMAIN db.votes THEN Reply("NOT_FOUND", <<>>)
    ELSE LET v == db.votes[txid]
         IN  IF v.vote_choice # None THEN Reply("CONFLICT", <<>>)
             ELSE IF v.vote_status # "pending" THEN Reply("FORBIDDEN", <<>>)
             ELSE [at |-> "vote", txid |-> txid, votes |-> Len(cast[txid]),
                   vote |-> [v EXCEPT !.vote_choice = choice, !.current_consensus = @ + 1]]

PostVote(c) ==
    /\ \E txid \in 1..(NumTxs + 1), choice \in Choice : Arrive(c, ReadBallot(txid, choice))
    /\ UNCHANGED ackVars

WriteVote(c) ==
    /\ req[c].at = "vote"
    /\ LET r == req[c]
       IN  IF HasTransaction(db, r.txid)
           THEN /\ db' = add_vote(db, r.txid, r.vote)
                /\ cast' = [cast EXCEPT ![r.txid] = Append(@, r.vote.vote_choice)]
                /\ Goes(c, [Reply("OK", <<r.vote>>) EXCEPT !.votes = r.votes])
           ELSE Goes(c, Reply("INTERNAL_SERVER_ERROR", <<>>)) /\ UNCHANGED <<db, cast>>
    /\ UNCHANGED ackVars

(* POST /v1/config.                                                        *)
PostConfig(c) ==
    /\ \E config \in Bodies :
          Arrive(c, [at |-> "update", todo |-> update_config(config), config |-> config])
    /\ acked' = {} /\ steady' = {}
    /\ alone' = (\A d \in Client : req[d].at # "update")

UpdateConfig(c) ==
    /\ req[c].at = "update"
    /\ LET rest == Tail(req[c].todo)
       IN  /\ db' = Apply(db, Head(req[c].todo))
           /\ acked' = IF rest = <<>> /\ alone THEN {req[c].config} ELSE acked
           /\ Goes(c, IF rest = <<>> THEN Reply("OK", <<>>) ELSE [req[c] EXCEPT !.todo = rest])
    /\ UNCHANGED <<cast, alone, steady>>

(* GET /v1/config: the row, the keys and the addresses are read in turn.   *)
GetConfig(c) ==
    /\ Arrive(c, IF db.config = None THEN Reply("NOT_FOUND", <<>>)
                 ELSE [at |-> "delegators", row |-> db.config])
    /\ steady' = IF acked = {} THEN steady ELSE steady \cup {c}
    /\ UNCHANGED <<acked, alone>>

ReadDelegators(c) ==
    /\ req[c].at = "delegators"
    /\ Goes(c, [at |-> "denied", row |-> req[c].row, delegators |-> db.delegators])
    /\ UNCHANGED <<db, cast, ackVars>>

ReadDenied(c) ==
    /\ req[c].at = "denied"
    /\ Goes(c, Reply("OK", <<[row |-> req[c].row, delegators |-> req[c].delegators,
                              denied |-> db.denied]>>))
    /\ UNCHANGED <<db, cast, ackVars>>

(* paginate_items in the arithmetic of usize.  A slip: pages are counted   *)
(* from 0.                                                                 *)
Lesser(a, b) == IF a < b THEN a ELSE b

paginate_from_zero(items, page, limit) ==
    LET size == IF limit = None THEN USIZE - 1 ELSE limit
        start == Lesser(Len(items), ((IF page = None THEN 0 ELSE page) * size) % USIZE)
        end == Lesser(Len(items), (start + size) % USIZE)
    IN  SubSeq(items, Lesser(start, end) + 1, end)

paginate_items(items, page, limit) ==
    LET size == IF limit = None THEN USIZE - 1 ELSE limit
        start == Lesser(Len(items), (((IF page = None THEN 1 ELSE page) - 1) * size) % USIZE)
        end == Lesser(Len(items), (start + size) % USIZE)
    IN  SubSeq(items, Lesser(start, end) + 1, end)

(* GET /v1/transactions and /v1/transactions/{id}: the transactions are    *)
(* read, then the vote of each.                                            *)
GetTransactions(c) ==
    /\ \E query \in Queries :
          Arrive(c, IF query.page = 0 THEN Reply("BAD_REQUEST", <<>>)
                    ELSE [at |-> "list", rest |-> db.transactions, found |-> <<>>,
                          query |-> query])
    /\ UNCHANGED ackVars

GetTransactionById(c) ==
    /\ \E txid \in 1..(NumTxs + 1) :
          Arrive(c, IF ~HasTransaction(db, txid) THEN Reply("NOT_FOUND", <<>>)
                    ELSE [at |-> "byid", txid |-> txid])
    /\ UNCHANGED ackVars

Matches(query, vote) == query.status # None => vote.vote_status = query.status

ReadListedVote(c) ==
    /\ req[c].at = "list"
    /\ LET r == req[c]
           vote == db.votes[Head(r.rest)]
       IN  Goes(c, IF r.rest = <<>>
                   THEN Reply("OK", paginate_items(r.found, r.query.page, r.query.limit))
                   ELSE IF Head(r.rest) \notin DOMAIN db.votes
                   THEN Reply("INTERNAL_SERVER_ERROR", <<>>)
                   ELSE [r EXCEPT !.rest = Tail(@),
                                  !.found = IF Matches(r.query, vote)
                                            THEN Append(@, [txid |-> Head(r.rest), vote |-> vote])
                                            ELSE @])
    /\ UNCHANGED <<db, cast, ackVars>>

ReadVoteById(c) ==
    /\ req[c].at = "byid"
    /\ Goes(c, IF req[c].txid \in DOMAIN db.votes THEN Reply("OK", <<db.votes[req[c].txid]>>)
               ELSE Reply("INTERNAL_SERVER_ERROR", <<>>))
    /\ UNCHANGED <<db, cast, ackVars>>

(* A statement fails (the database is locked or the disk full).            *)
Fault == faults < MaxFaults /\ faults' = faults + 1
Failed(c, code) ==
    /\ Fault
    /\ req' = [req EXCEPT ![c] = Reply(code, <<>>)]
    /\ UNCHANGED <<db, persistent, server, command, todo, cast, base, ackVars, starts>>

(* The first one of a request.                                             *)
ArrivalFails(c) ==
    /\ server = "up" /\ req[c] = Idle
    /\ requests < MaxRequests /\ requests' = requests + 1
    /\ \E code \in {"NOT_FOUND", "INTERNAL_SERVER_ERROR"} : Failed(c, code)

StatementFails(c) ==
    /\ \/ req[c].at \in {"update", "delegators", "denied"} /\ Failed(c, "NOT_FOUND")
       \/ req[c].at \in {"vote", "list", "byid"} /\ Failed(c, "INTERNAL_SERVER_ERROR")
    /\ UNCHANGED requests

Answer(c) ==
    /\ req[c].at = "reply"
    /\ Goes(c, Idle)
    /\ steady' = steady \ {c}
    /\ UNCHANGED <<db, cast, acked, alone>>

-----------------------------------------------------------------------------
Init ==
    /\ db = EmptyDb
    /\ persistent \in BOOLEAN
    /\ server = "down" /\ command = None /\ todo = <<>>
    /\ req = [c \in Client |-> Idle]
    /\ cast = [t \in Txid |-> <<>>]
    /\ base = [t \in Txid |-> 0]
    /\ acked = {} /\ alone = TRUE /\ steady = {}
    /\ requests = 0 /\ starts = 0 /\ faults = 0

Next ==
    \/ \E raw \in Files : RunWithFile(raw)
    \/ Run
    \/ RunSimulator
    \/ RunSwagger
    \/ StartStatement
    \/ Serve
    \/ Crash
    \/ \E c \in Client :
          \/ PostVote(c)
          \/ WriteVote(c)
          \/ PostConfig(c)
          \/ UpdateConfig(c)
          \/ GetConfig(c)
          \/ ReadDelegators(c)
          \/ ReadDenied(c)
          \/ GetTransactions(c)
          \/ GetTransactionById(c)
          \/ ReadListedVote(c)
          \/ ReadVoteById(c)
          \/ ArrivalFails(c)
          \/ StatementFails(c)
          \/ Answer(c)

Spec == Init /\ [][Next]_vars

-----------------------------------------------------------------------------
(* Types of the tables, and the points a request can be at.                *)
TypeOK ==
    /\ ToSet(db.transactions) \subseteq Txid /\ IsInjective(db.transactions)
    /\ \A t \in DOMAIN db.votes :
          /\ db.votes[t].vote_choice \in Choice \cup {None}
          /\ db.votes[t].vote_status \in Status
          /\ db.votes[t].current_consensus \in 0..100
    /\ server \in {"down", "starting", "up"}
    /\ server # "up" => \A c \in Client : req[c] = Idle
    /\ server # "starting" => todo = <<>>
    /\ cast \in [Txid -> Seq(Choice)]
    /\ base \in [Txid -> 0..99]

(* Every transaction has a vote and every vote its transaction, so no      *)
(* request is ever answered that the database may be corrupted: only a     *)
(* statement that fails makes a request fail.                              *)
VoteForEachTransaction ==
    /\ DOMAIN db.votes = ToSet(db.transactions)
    /\ \A c \in Client : req[c].at = "reply" /\ req[c].code = "INTERNAL_SERVER_ERROR"
                         => faults > 0

(* A vote request that arrives after a vote on the transaction was         *)
(* written, answered or not, is not answered OK: votes that are both       *)
(* accepted overlap, and one whose answer got lost is not cast twice.      *)
LateVoteRefused ==
    \A c \in Client : req[c].at = "reply" /\ req[c].code = "OK" => req[c].votes = 0

(* However many racing requests were accepted, the row holds the choice    *)
(* written last and counts one vote, and its status is still pending; it   *)
(* keeps them over a restart on a file until the simulator adds the        *)
(* transaction again.                                                      *)
RecordedVote ==
    \A t \in Txid : cast[t] # <<>> =>
        db.votes[t] = Vote(Last(cast[t]), "pending", base[t] + 1)

(* A configuration that was written to its end, while no other was being   *)
(* written, is in force until the next update begins, over stops and       *)
(* restarts of a server on a file: nothing of it gets lost, and a request  *)
(* for it, which reads its parts one by one, is answered with all of it    *)
(* unless a statement fails.                                               *)
LatestConfigServed ==
    \A config \in acked :
        /\ db.config = config.row
        /\ ToSet(config.delegators) \subseteq db.delegators
        /\ ToSet(config.denied) \subseteq db.denied
        /\ \A c \in steady : req[c].at = "reply" =>
              IF req[c].code = "OK"
              THEN LET body == req[c].body[1]
                   IN  /\ body.row = config.row
                       /\ ToSet(config.delegators) \subseteq body.delegators
                       /\ ToSet(config.denied) \subseteq body.denied
              ELSE faults > 0

(* The pages of the list, for every limit a client may ask for, are the    *)
(* consecutive runs of that length, as long as the page's offset fits in   *)
(* a usize: the sum that overflows never hides an item.                    *)
PagesPartition ==
    \A page \in 1..(USIZE - 1), limit \in 0..(USIZE - 1) :
        (page - 1) * limit < USIZE =>
            paginate_items(db.transactions, page, limit) =
                SubSeq(db.transactions, (page - 1) * limit + 1,
                       Lesser(Len(db.transactions), page * limit))

(* "Vote has already been cast.": at most one vote is accepted for a       *)
(* transaction.                                                            *)
OneVote == \A t \in Txid : Len(cast[t]) <= 1
=============================================================================
