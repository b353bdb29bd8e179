-------------------------- MODULE MCLeaseScheduler --------------------------
EXTENDS LeaseScheduler, TLC

(* One essential P1 job whose deadline comes.                              *)
OneJob      == {1}
OnePriority == 1 :> "P1"
OneDeadline == 1 :> MaxTime
OneOrigin   == 1 :> "ana"

(* Two jobs of one principal, one of them without a deadline.              *)
TwoJobs     == 1 .. 2
TwoPriority == 1 :> "P1" @@ 2 :> "P0"
TwoDeadline == 1 :> 2 @@ 2 :> MaxTime + 1
TwoOrigin   == 1 :> "ana" @@ 2 :> "ana"
=============================================================================
