----------------------------- MODULE MCCpu0Frame -----------------------------
(***************************************************************************)
(* Small programs of two functions that call each other, for Cpu0Frame.    *)
(***************************************************************************)
EXTENDS Cpu0Frame

I32 == [kind |-> "i32", align |-> 4]
I64 == [kind |-> "i64"]
ByVal(size, align) == [kind |-> "byval", size |-> size, align |-> align]

Signatures ==
  {<<I32>>, <<I32, I32, I32>>, <<I32, I64>>, <<I32, ByVal(3, 1)>>, <<ByVal(12, 8), I32>>}
Large == <<ByVal(52, 4)>>   \* 8 + 52 bytes: more than ImmLimit with the alignment

Function(conv, args, saves, locals, calls) ==
  [conv |-> conv, args |-> args, saves |-> saves, locals |-> locals, calls |-> calls]

\* Main calls f only, so that its call frame has the size of the arguments of
\* f; f calls itself and g.  All functions of a program belong to one ABI.
Program(abi, f, g) == [main |-> Function(abi, <<>>, TRUE, 4, {"f"}), f |-> f, g |-> g]

\* Calls whose arguments do not fit a reserved call frame.
LargeCalls ==
  {Program("O32", Function("O32", sf, TRUE, 4, {"f", "g"}), Function("O32", Large, FALSE, 0, {})) :
     sf \in Signatures}

\* Frames about as large as the offsets of their instructions reach, so that
\* the saved registers are the first to be beyond, or the arguments alone.
LargeFrames ==
  {Program("O32", Function(cf, sf, TRUE, locals, {"g"}), Function("Fast", <<I32, I32, I32>>, FALSE, 0, {})) :
     cf \in {"O32", "Fast"}, sf \in Signatures, locals \in {32, 40, 48, 52}}

MCPrograms ==
  {Program("O32", Function(cf, sf, TRUE, 4, {"f", "g"}), Function(cg, sg, calls = {}, 0, calls)) :
     cf, cg \in {"O32", "Fast"}, sf, sg \in Signatures, calls \in {{}, {"f"}}}
  \cup
  {Program("S32", Function("S32", sf, TRUE, 4, {"g"}), Function("S32", sg, FALSE, 0, {})) :
     sf, sg \in Signatures \ {<<I32, ByVal(3, 1)>>}}
  \cup LargeCalls \cup LargeFrames
=============================================================================
