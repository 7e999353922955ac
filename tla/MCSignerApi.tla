----------------------------- MODULE MCSignerApi -----------------------------
(***************************************************************************)
(* Instances of SignerApi for TLC.                                         *)
(***************************************************************************)
EXTENDS SignerApi, TLC

CONSTANTS c1, c2

MCDraws == {Vote(None, "pending", 54), Vote(None, "rejected", 70)}

(* A file with one of the lists.                                           *)
MCFiles == {[row |-> "file", delegators |-> <<"k1">>, denied |-> None]}

(* Two configurations that differ in everything.                           *)
MCBodies == {[row |-> "a", delegators |-> <<"k2">>, denied |-> <<"x1">>],
             [row |-> "b", delegators |-> <<>>, denied |-> <<"x2">>]}

MCQueries == {[page |-> 0, limit |-> None, status |-> None],
              [page |-> 2, limit |-> 1, status |-> None],
              [page |-> None, limit |-> None, status |-> "pending"]}

Symmetry == Permutations(Client)
=============================================================================
