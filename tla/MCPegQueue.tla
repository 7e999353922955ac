----------------------------- MODULE MCPegQueue -----------------------------
(* The peg queue on a chain of two blocks, for TLC. *)
EXTENDS PegQueue, TLC

CONSTANTS in1, out1, in2, out2, in2b

(***************************************************************************)
(* A peg-in and a peg-out request in block 1, the same in block 2, and the *)
(* peg-in of block 1 mined again in block 2 after a reorganisation.        *)
(***************************************************************************)
Height == [o \in Op |-> IF o \in {in1, out1} THEN 1 ELSE 2]
OpKind == [o \in Op |-> IF o \in {out1, out2} THEN "PegOutRequest" ELSE "PegIn"]
Tx == [o \in Op |-> IF o = in2b THEN in1 ELSE o]
=============================================================================
