---------------------------- MODULE MCWaitQueue ----------------------------
(* Three threads, two wait queues, two CPUs that wake.                     *)
EXTENDS WaitQueue
CONSTANTS t1, t2, t3, recvq, sendq, c1, c2
MCThreads == {t1, t2, t3}
MCQueues == {recvq, sendq}
OneQueue == {recvq}
MCCpus == {c1, c2}
OneCpu == {c1}
=============================================================================
