--------------------------- MODULE MCCpu0Lowering ---------------------------
(***************************************************************************)
(* A program is a main of three blocks and a callee.  main saves $lr, and  *)
(* ends by restoring it and returning or calling the callee in tail        *)
(* position; what its first two blocks do and where they lead is free.     *)
(***************************************************************************)
EXTENDS Cpu0Lowered, TLC

I(op, a, b, c, cx) == [op |-> op, a |-> a, b |-> b, c |-> c, cx |-> cx]
Save == I("ADDu", Saved, LR, 0, 0)
Restore == I("ADDu", LR, Saved, 0, 0)
Toggle == I("SLTi", 5, 5, 0, 1)      \* $5 becomes 1 if it is 0, else 0
Flip == I("XORi", 5, 5, 0, 1)        \* so does this
Test == I("CMP", 0, 5, 0, 0)
CallIt == I("JSUB", 0, 0, 0, 2)
Jump(n) == I("JMP", 0, 0, 0, n)

\* How a block may end: falling through, jumping, branching, or both.
BlockEnds == {<<>>} \cup {<<Jump(n)>> : n \in 2 .. 3}
             \cup {<<i>> : i \in {I("JEQ", 0, 0, 0, 1), I("BNE", 5, 0, 0, 3)}}
             \cup {<<I("JNE", 0, 0, 0, 3), Jump(n)>> : n \in 2 .. 3}
Works == {<<>>, <<Toggle>>, <<Test>>, <<Toggle, Test>>, <<CallIt>>, <<CallIt, Test>>}
Leaves == {<<Restore, I("RetLR", 0, 0, 0, 0)>>,
           <<Restore, I("TAILCALL", 0, 0, 0, 2)>>}

MCMirPrograms ==
  { << << <<Save>> \o w1 \o e1, w2 \o e2, leave>>,
       << c \o <<I("RetLR", 0, 0, 0, 0)>> >> >> :
    w1 \in {<<Toggle>>, <<Toggle, Test>>, <<CallIt, Test>>}, e1 \in BlockEnds,
    w2 \in Works, e2 \in BlockEnds,
    leave \in Leaves, c \in {<<>>, <<Flip>>} }

MCPrograms == {Compiled(p) : p \in MCMirPrograms}
MCCodeAddr == {4 * k : k \in 0 .. 24}
MCDataAddr == {}
MCDataImages == {[a \in {} |-> 0]}
MCUndef == {1}             \* no address of the code
MCAlu(op, x, y) ==
  IF op = "ADDu" THEN Wrap(x + y)
  ELSE IF op = "XORi" THEN Wrap(y - x)   \* as it is for bits
  ELSE x
MCHiLo(op, x, y) == {<<x, y>>}
MCExtend(op, w) == w
MCMerge(op, old, w) == w
MCSwFlags(w) == {}
MCSwWord(s) == 0
=============================================================================
