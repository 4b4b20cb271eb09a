----------------------------- MODULE MCLiveness -----------------------------
(***************************************************************************)
(* The lock, the requests to a device, the firmware updates, the choice of *)
(* their images and the dispatch of packets: the components of which it is *)
(* checked that they go on.  They share no state: a behaviour picks one of *)
(* them.                                                                   *)
(***************************************************************************)
EXTENDS MCDeviceRequests, FirmwareUpdate, MCImages, MCPackets

CONSTANTS t1, t2, t3, t4

VARIABLES
  part,            \* the component that runs
  lockPc, permits, maxPermits, queue, wakeup, cameBefore
                   \* the lock, which is another semaphore than the device's

lockVars == <<lockPc, permits, maxPermits, queue, wakeup, cameBefore>>

\* One permit that never changes, and no cancellation.
Lock ==
  INSTANCE MCPrioritySemaphore
  WITH Tasks <- {t1, t2, t3, t4}, PriorityOf <- [t \in {t1, t2, t3, t4} |-> IF t = t3 THEN 1 ELSE 0],
       InitialMax <- 1, NewMaxValues <- {}, CanCancel <- FALSE, MaxStale <- 0,
       pc <- lockPc, value <- permits, maxValue <- maxPermits, waiters <- queue,
       wakeupScheduled <- wakeup

\* The lock's properties, as PrioritySemaphore and ArrivalOrder state them.
NoLostWakeup         == Lock!NoLostWakeup
FirstComeFirstServed == Lock!FirstComeFirstServed
TopPriorityServed    == Lock!TopPriorityServed

\* What is chosen in the first state is chosen for the component that runs only.  The
\* others start with nothing that fairness asks them to do.
LivenessInit ==
  /\ part \in {"lock", "requests", "update", "images", "packets"}
  /\ part # "packets" => known = [p \in Senders |-> "initialized"]
  /\ Lock!OrderInit /\ Init /\ UpdateInit /\ ImagesInit /\ PacketsInit

Runs(p, steps, itsVars) == IF part = p THEN steps ELSE UNCHANGED itsVars

LivenessNext ==
  /\ Runs("lock", Lock!OrderNext, lockVars)
  /\ Runs("requests", EndlessNext, vars)
  /\ Runs("update", UpdateNext, updateVars)
  /\ Runs("images", ImagesNext, imageVars)
  /\ Runs("packets", PacketsNext, packetVars)
  /\ UNCHANGED part

LivenessSpec ==
  /\ LivenessInit /\ [][LivenessNext]_<<part, lockVars, vars, updateVars, imageVars,
                                      packetVars>>
  /\ Lock!Fairness /\ Fairness /\ UpdateFairness /\ ImagesFairness /\ PacketsFairness
=============================================================================
