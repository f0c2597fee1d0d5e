---------------------------- MODULE NestedBlocks ----------------------------
(***************************************************************************)
(* What the intermediate language promises about its blocks: they nest, a  *)
(* block works on the values it owns and on no other, ends only as the     *)
(* kind it began as, takes everything it still owns with it except the     *)
(* values it hands on, and only code blocks and frames hold variables.     *)
(***************************************************************************)
EXTENDS Integers, Sequences

CONSTANT Counts      \* how many values one step may take or give

VARIABLE blocks        \* the open blocks, innermost last: [kind, own]

Block(kind, own) == [kind |-> kind, own |-> own]
Inner == blocks[Len(blocks)]
Around == SubSeq(blocks, 1, Len(blocks) - 1)

Init == blocks = <<Block("ROOT", 0)>>

Take(n) == [blocks EXCEPT ![Len(blocks)].own = @ - n]

(* An operation takes values of the innermost block and gives it others.   *)
Work(take, give) ==
  /\ take <= Inner.own
  /\ blocks' = Take(take - give)

Reserve(n) ==
  /\ Inner.kind \in {"CB", "SF"}
  /\ blocks' = Take(-n)

Open(kind, take, give) ==
  /\ kind # "ROOT"
  /\ take <= Inner.own
  /\ blocks' = Append(Take(take), Block(kind, give))

Close(kind, take, give) ==
  /\ kind # "ROOT" /\ Inner.kind = kind
  /\ take <= Inner.own
  /\ blocks' = [Around EXCEPT ![Len(Around)].own = @ + give]

Next ==
  \E take, give \in Counts :
    \/ Work(take, give)
    \/ Reserve(give)
    \/ \E kind \in {"SECT", "CB", "NONLIN", "SF"} :
         Open(kind, take, give) \/ Close(kind, take, give)

Spec == Init /\ [][Next]_blocks
=============================================================================
