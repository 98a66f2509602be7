---------------------------- MODULE MCNextMemory ----------------------------
(* Uses of the Next's memory for the runs of NextMemory.                    *)
EXTENDS NextMemory, TLC

Idle ==
  [outs |-> {}, ins |-> {}, registers |-> {}, fetches |-> {0}, bytes |-> {}, stacks |-> {},
   files |-> {}, probes |-> {}, writes |-> 0, copper |-> FALSE]
File(kind, flag, value) == [kind |-> kind, flag |-> flag, value |-> value]

\* Legacy paging against NR 50-57, 69 and 8E, locks, snapshots and resets.
Paging ==
  [Idle EXCEPT
     !.outs = {<<"7ffd", 17>>, <<"7ffd", 35>>, <<"1ffd", 0>>, <<"1ffd", 7>>, <<"dffd", 17>>},
     !.registers = {<<142, 154>>, <<142, 7>>, <<86, 30>>, <<105, 64>>, <<8, 128>>,
                    <<2, 1>>, <<2, 2>>},
     !.stacks = {49152},
     !.files = {File("snx", TRUE, 37), File("snx", FALSE, 0), File("nex", FALSE, 3)}]

\* Everything that maps over the bottom 16K, and Layer 2 over 48K.
Overlays ==
  [Idle EXCEPT
     !.outs = {<<"e3", 0>>, <<"e3", 143>>, <<"e3", 192>>, <<"123b", 0>>, <<"123b", 5>>, <<"123b", 205>>,
               <<"123b", 23>>},
     !.registers = {<<3, 3>>, <<3, 7>>, <<3, 0>>, <<4, 4>>, <<4, 15>>, <<4, 127>>, <<4, 128>>,
                    <<18, 125>>, <<80, 31>>, <<140, 128>>, <<140, 224>>, <<142, 3>>},
     !.fetches = {0, 8191},
     !.probes = {0, 8191, 8192, 16383, 16384, 40960, 65535}]

\* NMIs with a stack in ordinary memory and under ROM, divMMC and Layer 2.
Nmi ==
  [Idle EXCEPT
     !.outs = {<<"123b", 1>>},
     !.ins = {"bf"},
     !.registers = {<<3, 3>>, <<2, 8>>, <<192, 8>>, <<185, 2>>},
     !.fetches = {8, 8184},
     !.bytes = {<<32768, 5>>},
     !.stacks = {32770, 8194},
     !.writes = 1]

\* The same, with a Copper that writes registers inside instructions.
Copper ==
  [Idle EXCEPT
     !.registers = {<<3, 3>>, <<2, 8>>, <<2, 1>>, <<192, 8>>, <<80, 31>>},
     !.ins = {"3f"}, !.outs = {<<"3f", 0>>},
     !.stacks = {8194},
     !.copper = TRUE]

\* An NMI asked for while one is pending, ended before it comes or served, and
\* a handler that writes its return address;
\* one is accepted where PC is that of the handler.
Nested ==
  [Idle EXCEPT
     !.registers = {<<2, 8>>, <<192, 8>>, <<194, 7>>},
     !.fetches = {102, 515}, !.stacks = {32768, 32770},
     !.copper = TRUE]

CopperOnly == {Copper}
All == {Paging, Overlays, Nmi, Copper, Nested}
=============================================================================
