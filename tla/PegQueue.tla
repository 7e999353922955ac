------------------------------ MODULE PegQueue ------------------------------
(***************************************************************************)
(* stacks-coordinator: the SQLite peg queue (SqlitePegQueue) and the loop  *)
(* of the coordinator around it (Coordinator::run, process_queue), with    *)
(* the process stopping at any point and being started again.              *)
(*                                                                         *)
(* An operation is one row of sbtc_ops, that is, one pair of txid and      *)
(* burn_header_hash: a transaction that is mined again in another block    *)
(* after a Bitcoin reorganisation is another operation with the same txid. *)
(* What peg_in and peg_out do with an operation is not part of this        *)
(* module: they return, or fail and end the process.                       *)
(***************************************************************************)
EXTENDS Integers, FiniteSets

CONSTANTS
    Op,             \* operations that may appear on the chain
    block_height,   \* block_height[o]
    kind,           \* kind[o]: "PegIn" or "PegOutRequest"
    txid,           \* txid[o]
    StartHeights,   \* values the operator may give to --start-block-height
    Persistent,     \* data_directory is configured
    NoOp,           \* no operation is being processed
    MaxHeight,      \* bound: last Bitcoin block
    MaxStops,       \* bound: times the process stops
    MaxUnknown,     \* bound: calls left unanswered by UnknownBlockHeight for a known block
    MaxReorgs       \* bound: Bitcoin reorganisations

ASSUME PegQueueAssumption ==
    /\ IsFiniteSet(Op)
    /\ NoOp \notin Op
    /\ block_height \in [Op -> Nat \ {0}]
    /\ kind \in [Op -> {"PegIn", "PegOutRequest"}]
    /\ StartHeights \subseteq Nat \ {0}
    /\ Persistent \in BOOLEAN
    /\ {MaxHeight, MaxStops, MaxUnknown, MaxReorgs} \subseteq Nat

VARIABLES
    tip,            \* the node's burn_block_height
    chain,          \* the operations in the blocks of the node's chain
    sbtc_ops,       \* sbtc_ops[o]: status column of the row, or "absent"
    last,           \* last_processed_block_height, -1 without a row
    from,           \* auxiliary: the height this database starts from
    pc,             \* where the coordinator is
    target,         \* poll: target_block_height
    height,         \* poll: block_height
    current,        \* the operation being processed
    handed,         \* auxiliary: handed[o], times sbtc_op returned o
    denied,         \* auxiliary: <<h, k>>, the call for kind k at height h was answered
                    \* UnknownBlockHeight
    stops, reorgs   \* how much of the bounds is used

node == <<tip, chain>>
database == <<sbtc_ops, last>>
bounds == <<denied, stops, reorgs>>
vars == <<node, database, from, pc, target, height, current, handed, bounds>>

-----------------------------------------------------------------------------
(* The Bitcoin chain, as the Stacks node reports it *)

\* A transaction is in at most one block of a chain.
TxsOnce(S) == \A o, q \in S : txid[o] = txid[q] => o = q

NewBlock ==
    /\ tip < MaxHeight
    /\ tip' = tip + 1
    /\ \E S \in SUBSET {o \in Op : block_height[o] = tip + 1} :
          /\ chain' = chain \cup S
          /\ TxsOnce(chain')
    /\ UNCHANGED <<database, from, pc, target, height, current, handed, bounds>>

\* The node switches to another fork, at least as long, from height h on.
Reorg ==
    /\ reorgs < MaxReorgs
    /\ reorgs' = reorgs + 1
    /\ \E h \in 1..tip :
       \E S \in SUBSET {o \in Op : block_height[o] \in h..tip} :
          /\ chain' = {o \in chain : block_height[o] < h} \cup S
          /\ TxsOnce(chain')
    /\ UNCHANGED <<tip, database, from, pc, target, height, current, handed,
                   denied, stops>>

-----------------------------------------------------------------------------
(* Starting and stopping *)

\* Mutant: a subtraction that does not saturate.
PredWraps(h) == h - 1

\* start_block_height.saturating_sub(1)
Pred(h) == IF h = 0 THEN 0 ELSE h - 1

\* Mutant: the saved height is not looked at.
OpenForgets(start, last0) == IF start > 0 THEN Pred(start) ELSE Pred(tip)

\* SqlitePegQueue::from_connection on the database that is there, or on an
\* empty one in memory; start is the option's value, or 0 without the option.
Open(start, last0) ==
    IF start > 0 THEN Pred(start)
    ELSE IF last0 = -1 THEN Pred(tip)
    ELSE last0

Start(start) ==
    /\ pc = "down"
    /\ sbtc_ops' = IF Persistent THEN sbtc_ops ELSE [o \in Op |-> "absent"]
    /\ last' = Open(start, IF Persistent THEN last ELSE -1)
    /\ from' = IF start = 0 /\ last # -1 /\ Persistent THEN from ELSE last' + 1
    /\ pc' = "poll"
    /\ UNCHANGED <<node, target, height, current, handed, bounds>>

\* The process is killed, or an error reaches Coordinator::run and ends it.
Stop ==
    /\ stops < MaxStops
    /\ stops' = stops + 1
    /\ pc' = "down"
    /\ current' = NoOp

StopAnywhere ==
    /\ pc # "down"
    /\ Stop
    /\ UNCHANGED <<node, database, from, target, height, handed, denied, reorgs>>

-----------------------------------------------------------------------------
(* PegQueue::poll *)

\* REPLACE INTO sbtc_ops, one row for every operation in S, status New.
Inserted(S) == [o \in Op |-> IF o \in S THEN "new" ELSE sbtc_ops[o]]

\* What get_peg_in_ops or get_peg_out_request_ops returns for a height.
OpsAt(h, k) == {o \in chain : block_height[o] = h /\ kind[o] = k}

\* Mutant: ">=" in the test for new blocks.
PollBeginLate ==
    /\ pc = "poll"
    /\ target' = tip
    /\ height' = last + 1
    /\ pc' = IF last + 1 >= tip THEN "process" ELSE "PegIn"
    /\ UNCHANGED <<node, database, from, current, handed, bounds>>

PollBegin ==
    /\ pc = "poll"
    /\ target' = tip
    /\ height' = last + 1
    /\ pc' = IF last + 1 > tip THEN "process" ELSE "PegIn"
    /\ UNCHANGED <<node, database, from, current, handed, bounds>>

\* Which call of the loop body comes after this one.
NextCall(k) == IF k = "PegIn" THEN "PegOutRequest" ELSE "height"

\* poll_peg_in_ops (k = "PegIn"), then poll_peg_out_request_ops.
PollOps(k) ==
    /\ pc = k
    /\ sbtc_ops' = Inserted(OpsAt(height, k))
    /\ denied' = denied \ {<<height, k>>}
    /\ pc' = NextCall(k)
    /\ UNCHANGED <<node, last, from, target, height, current, handed, stops, reorgs>>

\* The node answers UnknownBlockHeight (any body that is not JSON): nothing is
\* inserted and the poll goes on.
PollOpsUnknown(k) ==
    /\ pc = k
    /\ denied' = denied \cup {<<height, k>>}
    /\ Cardinality(denied') <= MaxUnknown
    /\ pc' = NextCall(k)
    /\ UNCHANGED <<node, database, from, target, height, current, handed,
                   stops, reorgs>>

\* The process stops between the inserts of one call, or the call fails.
PollOpsInterrupted(k) ==
    /\ pc = k
    /\ Stop
    /\ \E S \in SUBSET OpsAt(height, k) : sbtc_ops' = Inserted(S)
    /\ UNCHANGED <<node, last, from, target, height, handed, denied, reorgs>>

\* Mutant: the height is saved for the whole range after its first block.
HeightDoneEarly ==
    /\ pc = "height"
    /\ last' = target
    /\ IF height = target
       THEN pc' = "process" /\ UNCHANGED height
       ELSE pc' = "PegIn" /\ height' = height + 1
    /\ UNCHANGED <<node, sbtc_ops, from, target, current, handed, bounds>>

\* insert_last_processed_block_height, and the next turn of the loop.
HeightDone ==
    /\ pc = "height"
    /\ last' = height
    /\ IF height = target
       THEN pc' = "process" /\ UNCHANGED height
       ELSE pc' = "PegIn" /\ height' = height + 1
    /\ UNCHANGED <<node, sbtc_ops, from, target, current, handed, bounds>>

-----------------------------------------------------------------------------
(* Coordinator::process_queue *)

\* ORDER BY block_height, op: the JSON of a peg-in sorts before the JSON of a
\* peg-out request.
Before(o, q) ==
    \/ block_height[o] < block_height[q]
    \/ /\ block_height[o] = block_height[q]
       /\ kind[o] = "PegIn" /\ kind[q] = "PegOutRequest"

NewOps == {o \in Op : sbtc_ops[o] = "new"}

\* Mutant: the query has no ORDER BY.
AnyNew == NewOps

\* get_single_entry_with_status(New)
FirstNew == {o \in NewOps : \A q \in NewOps : ~Before(q, o)}

\* PegQueue::sbtc_op returns an operation, whose row is now pending.
SbtcOp(o) ==
    /\ pc = "process"
    /\ o \in FirstNew
    /\ sbtc_ops' = [sbtc_ops EXCEPT ![o] = "pending"]
    /\ handed' = [handed EXCEPT ![o] = @ + 1]
    /\ current' = o
    /\ pc' = "op"
    /\ UNCHANGED <<node, last, from, target, height, bounds>>

\* sbtc_op returns None: run sleeps and polls again.
NoSbtcOp ==
    /\ pc = "process"
    /\ NewOps = {}
    /\ pc' = "poll"
    /\ UNCHANGED <<node, database, from, target, height, current, handed, bounds>>

\* peg_in or peg_out returns Ok.  (If it fails the process ends: StopAnywhere.)
OpDone ==
    /\ pc = "op"
    /\ pc' = "process"
    /\ current' = NoOp
    /\ UNCHANGED <<node, database, from, target, height, handed, bounds>>

\* PegQueue::acknowledge, for an operation that was handed out.  Offered by the
\* queue; the coordinator of this repository never calls it.
Acknowledge(o) ==
    /\ pc # "down"
    /\ sbtc_ops[o] = "pending"
    /\ sbtc_ops' = [sbtc_ops EXCEPT ![o] = "acknowledged"]
    /\ UNCHANGED <<node, last, from, pc, target, height, current, handed, bounds>>

-----------------------------------------------------------------------------
Init ==
    /\ tip = 0
    /\ chain = {}
    /\ sbtc_ops = [o \in Op |-> "absent"]
    /\ last = -1
    /\ from = 0
    /\ pc = "down"
    /\ target = 0
    /\ height = 0
    /\ current = NoOp
    /\ handed = [o \in Op |-> 0]
    /\ denied = {}
    /\ stops = 0 /\ reorgs = 0

\* The steps of a coordinator that runs.
Coordinate ==
    \/ PollBegin
    \/ \E k \in {"PegIn", "PegOutRequest"} : PollOps(k)
    \/ HeightDone
    \/ \E o \in Op : SbtcOp(o)
    \/ NoSbtcOp
    \/ OpDone

Next ==
    \/ NewBlock
    \/ Reorg
    \/ \E start \in StartHeights \cup {0} : Start(start)
    \/ Coordinate
    \/ StopAnywhere
    \/ \E k \in {"PegIn", "PegOutRequest"} :
          PollOpsUnknown(k) \/ PollOpsInterrupted(k)
    \/ \E o \in Op : Acknowledge(o)

Spec == Init /\ [][Next]_vars

\* A coordinator that is up goes on: run is an endless loop, and every call of
\* it returns.  The calls to the Stacks node have timeouts and bounded retries,
\* and so have the signing rounds; that the Bitcoin node answers peg_out is an
\* assumption, since ureq waits for it without a limit.
FairSpec == Spec /\ WF_vars(Coordinate)

-----------------------------------------------------------------------------
(***************************************************************************)
(* The types of the tables and of the loop's variables.  A running         *)
(* coordinator has a last_processed_block_height: poll's query for it      *)
(* never fails.                                                            *)
(***************************************************************************)
TypeOK ==
    /\ tip \in Nat
    /\ chain \subseteq Op
    /\ sbtc_ops \in [Op -> {"absent", "new", "pending", "acknowledged"}]
    /\ last \in Nat \cup {-1}
    /\ pc # "down" => last # -1
    /\ from \in Nat
    /\ pc \in {"down", "poll", "PegIn", "PegOutRequest", "height", "process", "op"}
    /\ target \in Nat
    /\ height \in Nat
    /\ current \in Op \cup {NoOp}
    /\ handed \in [Op -> Nat]
    /\ denied \subseteq Nat \X {"PegIn", "PegOutRequest"}
    /\ {stops, reorgs} \subseteq Nat

(***************************************************************************)
(* stacks-coordinator/README.md: "the system will guarantee at-most once   *)
(* porcessing of peg-in/peg-out requests".  sbtc_op hands out a row at     *)
(* most once, wherever the process is stopped and started again.           *)
(***************************************************************************)
AtMostOnce == \A o \in Op : handed[o] <= 1

(***************************************************************************)
(* The same, for a request and not for a row: no two rows of one Bitcoin   *)
(* transaction are handed out.                                             *)
(***************************************************************************)
AtMostOncePerTx ==
    \A o, q \in Op :
        (txid[o] = txid[q] /\ handed[o] > 0 /\ handed[q] > 0) => o = q

(***************************************************************************)
(* sbtc_op hands operations out in the order of the chain, the peg-ins of  *)
(* a block before its peg-out requests, over all polls and restarts: never *)
(* one that comes before an operation that was already handed out.         *)
(***************************************************************************)
HandedInOrder ==
    [][\A o, q \in Op :
          (handed'[o] > handed[o] /\ handed[q] > 0) => ~Before(o, q)]_vars

(***************************************************************************)
(* poll leaves no hole: every operation of the chain at a height that the  *)
(* database counts as processed has a row, although the process may stop   *)
(* between any two statements.  Where the node denied knowing the block,   *)
(* poll goes on and does not come back: that call's operations are missed, *)
(* and no others.  So are those of a fork that the node went over to.      *)
(***************************************************************************)
NothingMissed ==
    reorgs = 0 =>
        \A o \in chain :
            from <= block_height[o] /\ block_height[o] <= last
                => sbtc_ops[o] # "absent" \/ <<block_height[o], kind[o]>> \in denied

(***************************************************************************)
(* The run loop makes progress: an operation in a block that a running     *)
(* coordinator is to look at (from on) is handed out, unless the process   *)
(* stops first (or the node denies knowing its block, or leaves a fork).   *)
(***************************************************************************)
EventuallyHanded ==
    \A o \in Op :
        (o \in chain /\ pc # "down" /\ from <= block_height[o])
            ~> \/ handed[o] > 0 \/ pc = "down"
               \/ <<block_height[o], kind[o]>> \in denied \/ reorgs > 0
=============================================================================
