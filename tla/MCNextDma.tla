----------------------------- MODULE MCNextDma ------------------------------
(* Constants of the model-checking runs of NextDma, the loop of             *)
(* next_dma_block_bytes as the code writes it, and programs that each use   *)
(* a part of the controller.                                               *)
EXTENDS NextDma

RECURSIVE LoopBytes(_, _, _)
LoopBytes(c, len, moved) ==
  IF Inc(c) >= len THEN moved + 1 ELSE LoopBytes(Inc(c), len, moved + 1)

ASSUME BlockBytesIsLoop ==
  \A c, len \in Word : BlockBytes(c, len) = LoopBytes(c, len, 0)

Wr0Byte(dir, flags) ==
  [a_to_b |-> dir, a_low |-> "a" \in flags, a_high |-> "A" \in flags,
   len_low |-> "l" \in flags, len_high |-> "L" \in flags]
PortByte(mode, io, timing) == [mode |-> mode, io |-> io, timing |-> timing]
Wr4Byte(mode, low, control) ==
  [mode |-> mode, b_low |-> low, b_high |-> FALSE, control |-> control]
ParameterByte(value, cycles, prescaled, mask) ==
  [value |-> value, cycles |-> cycles, prescaled |-> prescaled, mask |-> mask]

\* Port A is memory.  Port B is an I/O port, which may be the controller's own
\* or reset the machine; blocks of 0 or 2 bytes, with and without the
\* prescaler, held and not.
IoWr0 == {Wr0Byte(TRUE, {"L"})}
IoWr1 == {PortByte("DECREMENT", FALSE, FALSE)}
IoWr2 == {PortByte("FIXED", TRUE, TRUE)}
IoWr4 == {Wr4Byte("BURST", FALSE, FALSE), Wr4Byte("CONTINUOUS", FALSE, TRUE)}
IoParameters == {ParameterByte(1, 3, TRUE, {1})}

\* Memory to memory, for the run about bursts.
MemoryWr0 == {Wr0Byte(TRUE, {"l", "L"})}
MemoryWr1 == {PortByte("INCREMENT", FALSE, FALSE)}
MemoryWr2 == {PortByte("FIXED", FALSE, TRUE)}
MemoryWr4 == {Wr4Byte("BURST", FALSE, FALSE), Wr4Byte("CONTINUOUS", FALSE, FALSE)}
MemoryCommands == {"LOAD", "ENABLE", "DISABLE", "CONTINUE"}
PacedParameters == {ParameterByte(1, 3, TRUE, {})}

\* A program that uses both ports, and one that uses only the Next's, reads
\* the controller back and sets no prescaler.
VARIABLE program
Reads(d) == d.read_reg # 0 \/ d.read_mask # 0..6
Fits(p, d) ==
  /\ d.z80_mode => p = "writer"
  /\ Reads(d) => p = "reader"
  /\ p = "reader" => d.prescaler = 0

MCInit == program \in {"writer", "reader"} /\ Init
MCNext == Next /\ UNCHANGED program /\ Fits(program, dma')
MCSpec ==
  /\ MCInit
  /\ [][MCNext]_<<vars, program>>
  /\ WF_<<vars, program>>(MCNext)
=============================================================================
