--------------------------- MODULE MCDescFrontend --------------------------
(* Chains that lie in a row, that jump, and that follow the end of another *)
(* one in memory; eight descriptors, so that the FIFOs overflow.           *)
EXTENDS DescFrontend
MCChains == <<<<0, 1, 4>>, <<5>>, <<7, 8>>, <<10, 11>>>>

(* Six and three, where the memory pauses within a descriptor.             *)
MCThreeChains == <<<<0, 1, 4>>, <<5>>, <<7, 8>>>>
MCTwoChains == <<<<0, 1>>, <<4>>>>
============================================================================
