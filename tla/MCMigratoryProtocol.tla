------------------------ MODULE MCMigratoryProtocol ------------------------
(***************************************************************************)
(* Instances of MigratoryProtocol for TLC.                                 *)
(***************************************************************************)
EXTENDS CoherentRefinement

\* Block 0, and the block after it: with one set they compete for its lines,
\* with two they do not.
BlocksZero    == {0}
BlocksNext    == {64}
BlocksTwo     == {0, 64}

\* Processors are interchangeable: no action depends on which one it is.
ProcSymmetry == Permutations(Proc)

=============================================================================
