------------------------- MODULE MCDistributedJobs -------------------------
EXTENDS DistributedJobs

MCSlots == Workers \X (1..Concurrency)
=============================================================================
