------------------------------ MODULE Handoff ------------------------------
(***************************************************************************)
(* What the block list of 04/ and 05/ promises: a producer hands blocks of *)
(* numbers over one at a time, and of each block the least and greatest    *)
(* number are reported, once, before the next block is made.               *)
(***************************************************************************)
EXTENDS Integers, Sequences, FiniteSetsExt

CONSTANT Numbers

VARIABLES blocks,  \* the blocks made so far, each a set of numbers
          answers  \* what has been reported of them

HandoffInit == blocks = <<>> /\ answers = <<>>

Make ==
    /\ Len(answers) = Len(blocks)
    /\ \E d \in (SUBSET Numbers) \ {{}} : blocks' = Append(blocks, d)
    /\ UNCHANGED answers

Report ==
    /\ Len(answers) < Len(blocks)
    /\ LET d == blocks[Len(answers) + 1]
       IN  answers' = Append(answers, <<Min(d), Max(d)>>)
    /\ UNCHANGED blocks

HandoffSpec == HandoffInit /\ [][Make \/ Report]_<<blocks, answers>>
=============================================================================
