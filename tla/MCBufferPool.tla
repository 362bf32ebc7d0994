----------------------------- MODULE MCBufferPool -----------------------------
(* BufferPool on small instances: the sets the configurations name. *)
EXTENDS BufferPool

TwoPages   == {0, 1}
ThreePages == {0, 1, 2}

OneFile  == {3}        \* descriptors start after the standard streams
TwoFiles == {3, 4}

UpToTwo == {1, 2}
=============================================================================
