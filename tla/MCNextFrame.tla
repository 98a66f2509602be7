----------------------------- MODULE MCNextFrame -----------------------------
(* Constants of the model-checking runs of NextFrame.                      *)
EXTENDS NextFrame

Use(registers, ports, charges, stops, maxWrites, maxFrames) ==
  [registers |-> registers, ports |-> ports, charges |-> charges,
   stops |-> stops, maxWrites |-> maxWrites, maxFrames |-> maxFrames]

\* Speed and interrupts changed by NEXTREG at any tick, under a debugger that
\* stops between any two; and through the I/O port.
Turbo == Use({"SPEED", "INTERRUPTS"}, FALSE, {0}, TRUE, 2, 2)
Ports == Use({"SPEED", "INTERRUPTS"}, TRUE, {0}, FALSE, 2, 2)
\* Interrupts changed both ways, over more frames.
Lines == Use({"INTERRUPTS"}, TRUE, {0}, FALSE, 1, 3)
\* Ticks that the DMA makes longer, over the end of a frame too.
Dma == Use({"INTERRUPTS"}, FALSE, {0, 1, 4}, FALSE, 1, 3)
\* Blocks of the DMA that take longer than a frame.
Blocks == Use({"INTERRUPTS"}, FALSE, {0, 25}, FALSE, 1, 4)
\* Resets by the program and from the menu.
Resets == Use({"RESET", "SOFT", "INTERRUPTS"}, TRUE, {0}, FALSE, 2, 2)

AllUses == {Turbo, Ports, Lines, Dma, Blocks, Resets}
=============================================================================
