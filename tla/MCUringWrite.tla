----------------------------- MODULE MCUringWrite -----------------------------
(* UringWrite for TLC: the scenarios the MCUring*.cfg choose from.         *)
EXTENDS UringWrite

CONSTANTS s1, s2, s3

Scenario(initialDepth, ioErrors, periodicSyncs, emergency) ==
  [depth |-> initialDepth, ioErrors |-> ioErrors,
   periodicSyncs |-> periodicSyncs, emergency |-> emergency]

\* A device that fails writes, and a kernel that stalls for five minutes.
FaultyOrStalled == {Scenario(2, TRUE, TRUE, FALSE), Scenario(3, FALSE, FALSE, TRUE)}

Faulty == {Scenario(2, TRUE, TRUE, FALSE)}
FaultyAndStalled == {Scenario(2, TRUE, FALSE, TRUE)}
StalledInFlush == {Scenario(2, FALSE, TRUE, TRUE)}
Sound == {Scenario(2, FALSE, FALSE, FALSE)}
===============================================================================
