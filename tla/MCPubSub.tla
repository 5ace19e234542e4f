------------------------------ MODULE MCPubSub ------------------------------
(* PubSub for TLC.  The subscribers are interchangeable, and so are the    *)
(* publishers and the topics: nothing orders them.                         *)
EXTENDS PubSub, TLC

Symmetry == Permutations(Subs) \cup Permutations(Pubs) \cup Permutations(Topics)
=============================================================================
