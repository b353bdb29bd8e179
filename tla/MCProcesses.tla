----------------------------- MODULE MCProcesses -----------------------------
(***************************************************************************)
(* A server and an executor that start side by side on one database.       *)
(***************************************************************************)
EXTENDS ServiceLifecycle

MCProvisioning == <<"organizations", "imports", "scheduler_jobs">>
MCManner == [organizations |-> "revalidated", imports |-> "indexed", scheduler_jobs |-> "created"]
=============================================================================
