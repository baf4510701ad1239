-------------------------- MODULE MCImportPipeline --------------------------
(* The instance of ImportPipeline for TLC. *)
EXTENDS ImportPipeline

\* Every queue gets full; the one with the most items does so past its first.
MCCapacity == [k \in Queues |-> IF k = "events" THEN 2 ELSE 1]
=============================================================================
