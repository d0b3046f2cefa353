------------------------------ MODULE MCWalFile -----------------------------
(***************************************************************************)
(* WalFile with a batch of two operations, a batched delete and a patch.   *)
(***************************************************************************)
EXTENDS WalFile

CONSTANT torn

Op(op, key, value) == [op |-> op, key |-> key, value |-> value]
a == Cell(10)
b == Cell(11)
x == Cell(12)

MCRecords ==
  {[batch |-> TRUE, ops |-> <<Op(PUT, <<a>>, <<x, b>>), Op(PUT, <<a, b>>, <<b>>)>>],
   [batch |-> TRUE, ops |-> <<Op(DELETE_, <<b>>, <<>>)>>],
   [batch |-> FALSE, ops |-> <<Op(PATCH_I64, <<a>>, <<x>>)>>]}
=============================================================================
