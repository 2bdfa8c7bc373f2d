--------------------------- MODULE MCContainerLog ---------------------------
(* Small instances of ContainerLog: both pumps, two requests.              *)
EXTENDS ContainerLog, TLC

CONSTANTS f1, f2

(* The last line of the file, and all of it with no byte to spare.         *)
MCTail  == f1 :> 1 @@ f2 :> 100
MCLimit == f1 :> 100 @@ f2 :> 0
=============================================================================
