----------------------------- MODULE MCWorkload -----------------------------
(***************************************************************************)
(* Small instances of the benchmark driver: one inserter and one reader    *)
(* thread besides main, batches of two keys.                               *)
(***************************************************************************)
EXTENDS Workload

MCInserters == {1}
MCReaders == {2}
=============================================================================
