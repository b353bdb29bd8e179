----------------------------- MODULE MCActionJobs -----------------------------
EXTENDS ActionJobs, TLC

CONSTANTS older, younger
TheirCreation == older :> 1 @@ younger :> 2
ItsCreation   == older :> 1
=============================================================================
