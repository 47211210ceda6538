---------------------------- MODULE MCWriterLease ----------------------------
(* Two or three server processes contending for the writer lease.          *)
EXTENDS WriterLease, TLC

Symmetry == Permutations(Procs)
=============================================================================
