----------------------------- MODULE MCDebugger -----------------------------
(* Constants of the runs of Debugger: a program of a loop with a CALL, a    *)
(* write, a routine that reads a port, and a repeating block instruction.  *)
EXTENDS Debugger, TLC

IdleTick == [kind |-> "idle", address |-> 0, value |-> 0]
On(kind, address, value) == [kind |-> kind, address |-> address, value |-> value]
Ins(kind, length, accesses, next) ==
  [kind |-> kind, length |-> length, accesses |-> accesses, next |-> next]
To(a, pops) == [to |-> a, pops |-> pops]

Loop ==
  (0 :> Ins("call", 1, <<On("write", 1, 1)>>, {To(3, -1)})) @@
  (1 :> Ins("block", 1, <<IdleTick>>, {To(1, 0), To(2, 0)})) @@
  (2 :> Ins("plain", 1, <<IdleTick>>, {To(0, 0)})) @@
  (3 :> Ins("return", 1, <<On("in", 3, 0)>>, {To(1, 1)}))

N(n) == [name |-> "", number |-> n]
R(name) == [name |-> name, number |-> 0]
Point(kind, first, last, value, condition, target) ==
  [kind |-> kind, enabled |-> TRUE, start |-> first, end |-> last, value |-> value,
   condition |-> condition, target |-> target, hits |-> 0]
Inputs ==
  {Point("exec", 1, 2, AnyValue, NoCondition, 1),
   Point("in", 1, 1, AnyValue,
         [operands |-> <<N(1), N(1), R("SP"), R("VALUE")>>, operators |-> <<"+", "<", "==">>], 2)}
Sets == {[name |-> "PC", e |-> [operands |-> <<N(1)>>, operators |-> <<>>]],
         [name |-> "SP", e |-> [operands |-> <<N(1), R("SP")>>, operators |-> <<"+">>]]}
=============================================================================
