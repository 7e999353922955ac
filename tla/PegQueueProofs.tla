--------------------------- MODULE PegQueueProofs ---------------------------
(***************************************************************************)
(* The promises of the peg queue, for every set of operations, any number  *)
(* of blocks, reorganisations and stops of the process: as long as the     *)
(* database is on disk and the operator never gives a start block height.  *)
(***************************************************************************)
EXTENDS PegQueue, TLAPS

Kinds == {"PegIn", "PegOutRequest"}

Polling == pc \in {"PegIn", "PegOutRequest", "height"}

\* Rows come from blocks of the chain, and blocks only from below the tip.
BelowTip ==
    /\ \A o \in chain : block_height[o] <= tip
    /\ \A o \in Op : sbtc_ops[o] # "absent" => block_height[o] <= tip

\* A poll works on the block after the last one that was processed.
PollHeight == Polling => height = last + 1 /\ height <= target /\ target <= tip

\* Rows that were handed out are of processed blocks; new rows are at most one
\* block ahead, and not ahead at all when the queue is being processed.
RowHeights ==
    \A o \in Op :
        /\ sbtc_ops[o] \in {"pending", "acknowledged"} => block_height[o] <= last
        /\ sbtc_ops[o] = "new" => block_height[o] <= last + 1
        /\ sbtc_ops[o] = "new" /\ pc \in {"process", "op"}
              => block_height[o] <= last

\* A row is new only before it is handed out.
HandedRows ==
    \A o \in Op :
        /\ handed[o] > 0 => sbtc_ops[o] \in {"pending", "acknowledged"}
        /\ handed[o] <= 1

\* What is still new comes after everything that was handed out.
NewAfterHanded ==
    \A o, q \in Op : sbtc_ops[o] = "new" /\ handed[q] > 0 => ~Before(o, q)

IInv == TypeOK /\ BelowTip /\ PollHeight /\ RowHeights /\ HandedRows /\ NewAfterHanded

-----------------------------------------------------------------------------
\* An empty database, and a coordinator that was never started.
LEMMA InitIInv == Init => IInv
BY PegQueueAssumption
DEF Init, IInv, TypeOK, BelowTip, PollHeight, Polling, RowHeights, HandedRows,
    NewAfterHanded

\* One step per action.  All parts of IInv speak of heights and statuses of
\* rows, so each action is shown to keep them together.
LEMMA NextIInv ==
    ASSUME Persistent, StartHeights = {}, IInv, [Next]_vars
    PROVE  IInv'
<1> USE PegQueueAssumption
    DEF IInv, TypeOK, BelowTip, PollHeight, Polling, RowHeights, HandedRows,
        NewAfterHanded, Before, node, database, bounds
<1>1. CASE UNCHANGED vars
  BY <1>1 DEF vars
<1>2. CASE NewBlock
  BY <1>2 DEF NewBlock
<1>3. CASE Reorg
  BY <1>3 DEF Reorg
<1>4. ASSUME NEW start \in StartHeights \cup {0}, Start(start)
      PROVE  IInv'
  BY <1>4 DEF Start, Open, Pred
<1>5. CASE PollBegin
  BY <1>5 DEF PollBegin
<1>6. ASSUME NEW k \in Kinds, PollOps(k)
      PROVE  IInv'
  BY <1>6 DEF PollOps, NextCall, Inserted, OpsAt, Kinds
<1>7. CASE HeightDone
  BY <1>7 DEF HeightDone
<1>8. ASSUME NEW o \in Op, SbtcOp(o)
      PROVE  IInv'
  BY <1>8 DEF SbtcOp, FirstNew, NewOps
<1>9. CASE NoSbtcOp
  BY <1>9 DEF NoSbtcOp
<1>10. CASE OpDone
  BY <1>10 DEF OpDone
<1>11. CASE StopAnywhere
  BY <1>11 DEF StopAnywhere, Stop
<1>12. ASSUME NEW k \in Kinds, PollOpsUnknown(k)
       PROVE  IInv'
  BY <1>12 DEF PollOpsUnknown, NextCall, Kinds
<1>13. ASSUME NEW k \in Kinds, PollOpsInterrupted(k)
       PROVE  IInv'
  BY <1>13 DEF PollOpsInterrupted, Stop, Inserted, OpsAt, Kinds
<1>14. ASSUME NEW o \in Op, Acknowledge(o)
       PROVE  IInv'
  BY <1>14 DEF Acknowledge
<1>15. QED
  BY <1>1, <1>2, <1>3, <1>4, <1>5, <1>6, <1>7, <1>8, <1>9, <1>10, <1>11, <1>12,
     <1>13, <1>14
  DEF Next, Coordinate, Kinds

\* The inductive invariant holds in every state of every run.
LEMMA IInvAlways ==
    ASSUME Persistent, StartHeights = {}
    PROVE  Spec => []IInv
<1>1. IInv /\ [Next]_vars => IInv'
  BY NextIInv
<1>2. QED
  BY InitIInv, <1>1, PTL DEF Spec

\* The tables and the variables of run and poll keep their types, and a running
\* coordinator always finds its last_processed_block_height.
THEOREM TypeCorrect ==
    ASSUME Persistent, StartHeights = {}
    PROVE  Spec => []TypeOK
<1>1. IInv => TypeOK
  BY DEF IInv
<1>2. QED
  BY IInvAlways, <1>1, PTL

\* sbtc_op returns no row twice, whatever stops the process and wherever, and
\* although insert is REPLACE INTO with status New.
THEOREM HandedAtMostOnce ==
    ASSUME Persistent, StartHeights = {}
    PROVE  Spec => []AtMostOnce
<1>1. IInv => AtMostOnce
  BY DEF IInv, HandedRows, AtMostOnce
<1>2. QED
  BY IInvAlways, <1>1, PTL

\* sbtc_op hands operations out in chain order, over all polls, reorganisations
\* and restarts.
THEOREM HandedOutInOrder ==
    ASSUME Persistent, StartHeights = {}
    PROVE  Spec => HandedInOrder
<1>1. ASSUME IInv, [Next]_vars
      PROVE  [\A o, q \in Op : (handed'[o] > handed[o] /\ handed[q] > 0)
                                 => ~Before(o, q)]_vars
  <2> USE DEF IInv, TypeOK
  <2>1. ASSUME NEW x \in Op, SbtcOp(x)
        PROVE  \A o, q \in Op : (handed'[o] > handed[o] /\ handed[q] > 0)
                                  => ~Before(o, q)
    BY <1>1, <2>1 DEF SbtcOp, FirstNew, NewOps, NewAfterHanded
  <2>2. CASE ~\E x \in Op : SbtcOp(x)
    <3>1. handed' = handed
      BY <1>1, <2>2
      DEF Next, Coordinate, vars, node, database, bounds, NewBlock, Reorg,
          Start, PollBegin, PollOps, HeightDone, NoSbtcOp, OpDone, StopAnywhere,
          PollOpsUnknown, PollOpsInterrupted, Acknowledge
    <3>2. QED
      BY <1>1, <3>1
  <2>3. QED
    BY <2>1, <2>2
<1>2. QED
  BY IInvAlways, <1>1, PTL DEF Spec, HandedInOrder

-----------------------------------------------------------------------------
(* Completeness of polling: what the node did not deny knowing is polled.  *)

\* The operations of kind k at the height being polled have their rows, or
\* their call was denied.
Has(k) == \A o \in chain :
             block_height[o] = height /\ kind[o] = k
                => sbtc_ops[o] # "absent" \/ <<height, k>> \in denied

\* What the loop body of poll has already inserted.
Inserts ==
    reorgs = 0 =>
        /\ pc \in {"PegOutRequest", "height"} => Has("PegIn")
        /\ pc = "height" => Has("PegOutRequest")

\* No block is counted as processed before it is mined.
LastBelowTip == last <= tip

CInv == IInv /\ Inserts /\ LastBelowTip /\ NothingMissed

\* Nothing is mined and nothing is polled at first.
LEMMA InitCInv == Init => CInv
BY InitIInv, PegQueueAssumption
DEF Init, CInv, Inserts, LastBelowTip, NothingMissed

\* One step per action.  The database moves past a block (HeightDone) only after
\* both kinds of operations of that block have their rows.
LEMMA NextCInv ==
    ASSUME Persistent, StartHeights = {}, CInv, [Next]_vars
    PROVE  CInv'
<1>1. IInv'
  BY NextIInv DEF CInv
<1> USE PegQueueAssumption
    DEF CInv, IInv, TypeOK, BelowTip, PollHeight, Polling, RowHeights, Inserts,
        Has, LastBelowTip, NothingMissed, node, database, bounds
<1>2. CASE UNCHANGED vars
  BY <1>1, <1>2 DEF vars
<1>3. CASE NewBlock
  BY <1>1, <1>3 DEF NewBlock
<1>4. CASE Reorg
  BY <1>1, <1>4 DEF Reorg
<1>5. ASSUME NEW start \in StartHeights \cup {0}, Start(start)
      PROVE  CInv'
  BY <1>1, <1>5 DEF Start, Open, Pred
<1>6. CASE PollBegin
  BY <1>1, <1>6 DEF PollBegin
<1>7. ASSUME NEW k \in Kinds, PollOps(k)
      PROVE  CInv'
  BY <1>1, <1>7 DEF PollOps, NextCall, Inserted, OpsAt, Kinds
<1>8. CASE HeightDone
  BY <1>1, <1>8 DEF HeightDone
<1>9. ASSUME NEW o \in Op, SbtcOp(o)
      PROVE  CInv'
  BY <1>1, <1>9 DEF SbtcOp
<1>10. CASE NoSbtcOp \/ OpDone
  BY <1>1, <1>10 DEF NoSbtcOp, OpDone
<1>11. CASE StopAnywhere
  BY <1>1, <1>11 DEF StopAnywhere, Stop
<1>12. ASSUME NEW k \in Kinds, PollOpsUnknown(k)
       PROVE  CInv'
  BY <1>1, <1>12 DEF PollOpsUnknown, NextCall, Kinds
<1>13. ASSUME NEW k \in Kinds, PollOpsInterrupted(k)
       PROVE  CInv'
  BY <1>1, <1>13 DEF PollOpsInterrupted, Stop, Inserted, OpsAt, Kinds
<1>14. ASSUME NEW o \in Op, Acknowledge(o)
       PROVE  CInv'
  BY <1>1, <1>14 DEF Acknowledge
<1>15. QED
  BY <1>2, <1>3, <1>4, <1>5, <1>6, <1>7, <1>8, <1>9, <1>10, <1>11, <1>12, <1>13,
     <1>14
  DEF Next, Coordinate, Kinds

\* poll leaves no hole below last_processed_block_height, wherever it is cut,
\* but for the calls that the node answered with UnknownBlockHeight.
THEOREM NoBlockMissed ==
    ASSUME Persistent, StartHeights = {}
    PROVE  Spec => []NothingMissed
<1>1. CInv /\ [Next]_vars => CInv'
  BY NextCInv
<1>2. CInv => NothingMissed
  BY DEF CInv
<1>3. QED
  BY InitCInv, <1>1, <1>2, PTL DEF Spec
=============================================================================
