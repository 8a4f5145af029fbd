------------------------ MODULE IterationConsumerMC ------------------------
(***************************************************************************)
(* IterationConsumer on small instances: three iterations, so that one can *)
(* be in progress, one in the worker's hands and one in the queue; a       *)
(* launch that opens no branch, one, or two.                               *)
(***************************************************************************)
EXTENDS IterationConsumer

CONSTANTS i1, i2, i3, w1, w2

ThreeIterations == {i1, i2, i3}
TwoIterations == {i1, i2}
OneWorker == {w1}
TwoWorkers == {w1, w2}
=============================================================================
