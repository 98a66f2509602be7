------------------------------ MODULE Debugger ------------------------------
(* The debugger (src/src/debugger.c): breakpoints and watchpoints, pause,   *)
(* step, step over, step out and run-to, over a machine that is executed a  *)
(* slice at a time.  One step is one tick of the machine in a slice, with   *)
(* the hook the debugger puts behind it, or one command between slices:     *)
(* everything runs on one thread.                                          *)
(*                                                                         *)
(* The program of the machine is a constant: an instruction takes the tick  *)
(* that fetches it, at the end of which the one before it is complete, and  *)
(* a tick for each access.  SP stands for the registers; memory, the view   *)
(* of the window and messages are left out.                                *)
EXTENDS Integers, Sequences, SequencesExt

CONSTANTS
  Program,      \* address -> [kind, length, accesses, next]
  AddressTop,   \* 10000h
  PageTop,      \* 100h
  ValueTop,     \* values of SP wrap here
  FrameLength,  \* ticks of a frame
  PointInputs,  \* breakpoints the user may add
  AddressInputs,  \* addresses the user names
  MaxPoints,    \* bound of the list
  RegisterInputs       \* what registers are set to: [name, e]

Addresses == 0..(AddressTop - 1)
Values == 0..(ValueTop - 1)
AnyValue == -1    \* point.value of a point that asks for none

AccessType == [kind : {"idle", "read", "write", "in", "out"}, address : Addresses, value : Int]
InstructionType ==
  [kind : STRING, length : Nat, accesses : Seq(AccessType) \ {<<>>},
   next : SUBSET [to : Addresses, pops : Int] \ {{}}]

\* Operators of conditions, those that bind most first.
Levels == <<{"*", "/"}, {"+", "-"}, {"<"}, {"=="}, {"&&"}, {"||"}>>
Operators == {"*", "/", "+", "-", "<", "==", "&&", "||"}
Expressions ==
  {e \in [operands : Seq([name : STRING, number : Int]), operators : Seq(Operators)] :
     Len(e.operands) = Len(e.operators) + 1}
NoCondition == [operands |-> <<>>, operators |-> <<>>]

PointType ==
  [kind : {"exec", "read", "write", "in", "out"}, enabled : BOOLEAN, start : Addresses,
   end : Addresses, value : Int, condition : Expressions \cup {NoCondition},
   target : Nat \ {0}, hits : Nat]

ASSUME ProgramAssumption ==
  /\ AddressTop \in Nat \ {0} /\ PageTop \in 1..AddressTop /\ ValueTop \in Nat \ {0}
  /\ Program \in [Addresses -> InstructionType]

\* A frame is longer than any instruction that the ULA holds.
ASSUME LengthAssumption ==
  FrameLength \in Nat /\ \A a \in Addresses : Len(Program[a].accesses) + 2 <= FrameLength

ASSUME InputsAssumption ==
  /\ MaxPoints \in Nat /\ AddressInputs \subseteq Addresses
  /\ \A p \in PointInputs : p \in PointType /\ p.hits = 0
  /\ \A r \in RegisterInputs : r \in [name : {"SP", "PC"}, e : Expressions]

VARIABLES
  system,   \* "classic" or "next"
  cpu,      \* address of the instruction, ticks since its fetch, whether it has
            \* been held, SP
  left,     \* ticks to the end of the frame or of the slice
  slice,    \* what is being executed: by whom, with the hook or without
  points,   \* debug.points
  saved,    \* section debugger_points of the settings file
  debug,    \* the rest of DebugState
  seen      \* history, for the properties: shown, whether the user has seen the
            \* machine stand where it is, or set it going from there; resumed,
            \* the address it was last set going from, until the hook sees it
            \* arrive there; passed, whether this is that arrival; whole, whether
            \* a step has begun before an instruction; done, how many it executed

debuggerVars == <<system, cpu, left, slice, points, saved, debug, seen>>

Prefetch == -1    \* cpu.tick between z80_prefetch and the fetch
None == -1        \* of an address or a stack pointer that is not active

-----------------------------------------------------------------------------
(* Where the machine is.                                                   *)

AtBoundary == cpu.tick = 0

\* app_debug_current_pc: past the instruction when in the middle of it.
CurrentPc ==
  IF cpu.tick \in {0, Prefetch} THEN cpu.at 
  ELSE (cpu.at + Program[cpu.at].length) % AddressTop

StepOverCandidate(a) == Program[a].kind \in {"call", "rst", "djnz", "block"}

-----------------------------------------------------------------------------
(* Conditions: operands joined by operators of levels that bind ever less.  *)

\* app_debug_eval_variable and numbers
Operand(o, names) ==
  [ok |-> TRUE, value |-> IF o.name \in DOMAIN names THEN names[o.name] ELSE o.number]

Truth(b) == IF b THEN 1 ELSE 0

\* Division of C, towards zero.
Magnitude(x) == IF x < 0 THEN -x ELSE x
Quotient(x, y) ==
  LET q == Magnitude(x) \div Magnitude(y) IN IF (x < 0) = (y < 0) THEN q ELSE -q

Binary(op, x, y) ==
  [ok |-> x.ok /\ y.ok /\ ~(op = "/" /\ y.value = 0),
   value |-> CASE op = "*" -> x.value * y.value
               [] op = "/" -> IF y.value = 0 THEN 0 ELSE Quotient(x.value, y.value)
               [] op = "+" -> x.value + y.value
               [] op = "-" -> x.value - y.value
               [] op = "<" -> Truth(x.value < y.value)
               [] op = "==" -> Truth(x.value = y.value)
               [] op = "&&" -> Truth(x.value # 0 /\ y.value # 0)
               [] op = "||" -> Truth(x.value # 0 \/ y.value # 0)]

\* One level of app_debug_eval_binary, from left to right: an operator of the
\* level joins its right operand to what is there, any other stays.  Both
\* sides are always evaluated, those of && and || included.
Joined(level, done, op, right) ==
  IF op \in level THEN [done EXCEPT !.operands[Len(done.operands)] = Binary(op, @, right)]
  ELSE [operands |-> Append(done.operands, right), operators |-> Append(done.operators, op)]
Reduce(x, level) ==
  LET done[i \in 0..Len(x.operators)] ==
        IF i = 0 THEN [operands |-> <<Head(x.operands)>>, operators |-> <<>>]
        ELSE Joined(level, done[i - 1], x.operators[i], x.operands[i + 1])
  IN  done[Len(x.operators)]

\* app_debug_evaluate
Evaluate(e, address, value) ==
  LET names == [SP |-> cpu.sp, ADDR |-> address, VALUE |-> value]
      reduced[i \in 0..Len(Levels)] ==
        IF i = 0 THEN [operands |-> [k \in DOMAIN e.operands |-> Operand(e.operands[k], names)],
                       operators |-> e.operators]
        ELSE Reduce(reduced[i - 1], Levels[i])
  IN  reduced[Len(Levels)].operands[1]

-----------------------------------------------------------------------------
(* Points.                                                                 *)

\* app_debug_point_covers: a port of one byte stands for all that end in it.
Covers(p, a) ==
  LET short == p.kind \in {"in", "out"} /\ p.end < PageTop
  IN  (IF short THEN a % PageTop ELSE a) \in p.start..p.end

\* app_debug_point_triggers, but for the count: a condition that cannot be
\* evaluated holds.
Holds(p, address, value) ==
  /\ p.value # AnyValue /\ p.kind # "exec" => p.value = value
  /\ p.condition.operands # <<>> =>
       LET r == Evaluate(p.condition, address, value) IN r.ok => r.value # 0

\* app_debug_match_point: the first point that triggers; those before it that
\* hold are counted too.  A count stays where it is once it has reached the
\* target, to bound it.
Matches(p, kind, address, value) ==
  p.enabled /\ p.kind = kind /\ Covers(p, address) /\ Holds(p, address, value)
Triggers(p, kind, address, value) ==
  Matches(p, kind, address, value) /\ p.hits + 1 >= p.target
Counted(p) == [p EXCEPT !.hits = IF @ < p.target THEN @ + 1 ELSE @]
MatchPoint(kind, address, value) ==
  LET index == SelectInSeq(points, LAMBDA p : Triggers(p, kind, address, value))
  IN  [index  |-> index,
       points |-> [i \in DOMAIN points |->
                     IF (index = 0 \/ i <= index) /\ Matches(points[i], kind, address, value)
                     THEN Counted(points[i]) ELSE points[i]]]

HasBreakpoint(a) ==
  \E i \in DOMAIN points : points[i].enabled /\ points[i].kind = "exec" /\ Covers(points[i], a)
HasEnabledPoints == \E i \in DOMAIN points : points[i].enabled

\* app_debug_format_point and app_debug_parse_point: what a point is saved as.
Stored(p) == [p EXCEPT !.hits = 0]

Between == slice.by = "none"
Save(list) == points' = list /\ saved' = [i \in DOMAIN list |-> Stored(list[i])]

Edit(list) ==
  /\ Between /\ debug.open
  /\ Save(list)
  /\ UNCHANGED <<system, cpu, left, slice, debug, seen>>

\* "bp", "br", "bw", "bi", "bo": a condition must evaluate when it is added.
AddPoint(p) ==
  /\ Len(points) < MaxPoints
  /\ p.condition.operands # <<>> => Evaluate(p.condition, 0, 0).ok
  /\ Edit(Append(points, p))

Simple(kind, a) ==
  [kind |-> kind, enabled |-> TRUE, start |-> a, end |-> a, value |-> AnyValue,
   condition |-> NoCondition, target |-> 1, hits |-> 0]

\* app_debug_toggle_simple_point: removes the first point at just that address.
TogglePoint(kind, a) ==
  LET i == SelectInSeq(points, LAMBDA p : p.kind = kind /\ p.start = a /\ p.end = a)
  IN  \/ i # 0 /\ Edit(RemoveAt(points, i))
      \/ i = 0 /\ Len(points) < MaxPoints /\ Edit(Append(points, Simple(kind, a)))

\* app_debug_point_list_command of one point or of all, and the list's keys.
Chosen == {{i} : i \in DOMAIN points} \cup {DOMAIN points}
DeletePoint(i)     == Edit(RemoveAt(points, i))
DeletePoints       == Edit(<<>>)
EnablePoints(S, b) == Edit([i \in DOMAIN points |-> [points[i] EXCEPT !.enabled = IF i \in S THEN b ELSE @]])
ResetHits(S)       == Edit([i \in DOMAIN points |-> [points[i] EXCEPT !.hits = IF i \in S THEN 0 ELSE @]])

-----------------------------------------------------------------------------
(* Starting and stopping.                                                  *)

\* app_debug_clear_stop_state
Cleared(d) ==
  [d EXCEPT !.stopRequested = FALSE, !.pointHit = FALSE, !.runToHit = FALSE,
            !.pending = FALSE, !.leftBoundary = FALSE]

Idle == [by |-> "none", armed |-> FALSE]

\* Mutant: the address to pass is not kept, the next breakpoint is passed.
Skipping_Any(d, a) == d.skip # None

\* The breakpoint the machine was resumed on is passed once.
Skipping(d, a) == d.skip = a

\* app_debug_resume
Resumed ==
  [Cleared(debug) EXCEPT !.paused = FALSE, !.stepping = FALSE,
                         !.skip = IF HasBreakpoint(CurrentPc) THEN CurrentPc ELSE None]

\* app_debug_exec_armed_slice, its beginning: on the classic machine a frame's
\* ticks, on the Next what is left of the frame.
BeginSlice(by, armed) ==
  /\ slice' = [by |-> by, armed |-> armed]
  /\ left' = IF system = "classic" THEN FrameLength ELSE left
  /\ seen' = [seen EXCEPT !.passed = @ \/ (AtBoundary /\ seen.resumed = cpu.at),
                          !.whole = by = "step" /\ AtBoundary]

Command(d) ==
  /\ debug' = d
  /\ UNCHANGED <<system, cpu, left, slice, points, saved, seen>>

\* A command that sets the machine going: from the instruction it stands
\* before, the user has seen it there.
SetGoing(d) ==
  /\ debug' = d
  /\ seen' = [seen EXCEPT !.shown = @ \/ (cpu.tick <= 0 /\ d.skip = cpu.at), !.resumed = d.skip]
  /\ UNCHANGED <<system, cpu, left, slice, points, saved>>

Resume == Between /\ debug.paused /\ SetGoing(Resumed)

\* app_debug_pause: finishes an instruction that a frame has ended in.
Pause ==
  /\ Between /\ ~debug.paused
  /\ LET d == [Cleared(debug) EXCEPT !.paused = TRUE, !.stepping = ~AtBoundary,
                                     !.runTo = None, !.stepOut = None,
                                     !.leftBoundary = ~AtBoundary]
     IN  debug' = d
  /\ IF AtBoundary
     THEN /\ seen' = [seen EXCEPT !.shown = TRUE]
          /\ UNCHANGED <<left, slice>>
     ELSE BeginSlice("pause", TRUE)
  /\ UNCHANGED <<system, cpu, points, saved>>

\* app_debug_step_instruction; its key works while the machine runs, too.
Step ==
  /\ Between /\ debug.open
  /\ debug' = [Cleared(debug) EXCEPT !.paused = TRUE, !.stepping = TRUE,
                                     !.runTo = None, !.stepOut = None]
  /\ BeginSlice("step", TRUE)
  /\ UNCHANGED <<system, cpu, points, saved>>

\* app_debug_step_over_instruction where it does not just step.
StepOver ==
  /\ Between /\ debug.open /\ StepOverCandidate(CurrentPc)
  /\ SetGoing([Resumed EXCEPT !.runTo = (CurrentPc + Program[CurrentPc].length) % AddressTop,
                              !.skip = CurrentPc])

StepOut ==
  /\ Between /\ debug.open /\ debug.paused
  /\ SetGoing([Resumed EXCEPT !.stepOut = cpu.sp, !.runTo = None])

\* app_debug_run_to_address: there already, it pauses.
RunTo(a) ==
  /\ Between /\ debug.open
  /\ \/ /\ a = CurrentPc
        /\ debug' = [Cleared(debug) EXCEPT !.paused = TRUE, !.runTo = None, !.runToHit = TRUE]
        /\ seen' = [seen EXCEPT !.shown = TRUE]
        /\ UNCHANGED <<system, cpu, left, slice, points, saved>>
     \/ /\ a # CurrentPc
        /\ SetGoing([Resumed EXCEPT !.runTo = a])

Jumped(a) == [cpu EXCEPT !.at = a, !.tick = Prefetch, !.held = FALSE]

\* app_debug_run_from_address: from the debugger's window, or a run of the
\* assembler, which needs no window.
RunFrom(a) ==
  /\ Between
  /\ cpu' = Jumped(a)
  /\ debug' = [Resumed EXCEPT !.runTo = None, !.skip = a]
  /\ seen' = [seen EXCEPT !.shown = TRUE, !.resumed = a]
  /\ UNCHANGED <<system, left, slice, points, saved>>

\* app_debug_set_register
SetRegister(r) ==
  /\ Between /\ debug.open
  /\ LET v == Evaluate(r.e, 0, 0)
     IN  /\ v.ok
         /\ cpu' = CASE r.name = "SP" -> [cpu EXCEPT !.sp = v.value % ValueTop]
                     [] r.name = "PC" -> Jumped(v.value % AddressTop)
  /\ seen' = [seen EXCEPT !.shown = @ /\ r.name # "PC"]
  /\ UNCHANGED <<system, left, slice, points, saved, debug>>

-----------------------------------------------------------------------------
(* Slices.                                                                 *)

\* app_debug_run_frame, its beginning.  A breakpoint at the instruction a
\* frame ended before is looked for again.  On the Next a closed window
\* leaves the debugger out.
StopBefore ==
  /\ debug.open /\ AtBoundary /\ ~Skipping(debug, CurrentPc)
  /\ MatchPoint("exec", cpu.at, 0).index # 0
BeginFrame ==
  /\ Between /\ ~debug.paused
  /\ points' = IF debug.open /\ AtBoundary /\ ~Skipping(debug, CurrentPc)
               THEN MatchPoint("exec", cpu.at, 0).points ELSE points
  /\ \/ /\ StopBefore
        /\ debug' = [debug EXCEPT !.pointHit = TRUE, !.runTo = None, !.stepOut = None,
                                  !.paused = TRUE]
        /\ seen' = [seen EXCEPT !.shown = TRUE]
        /\ UNCHANGED <<left, slice>>
     \/ /\ ~StopBefore
        /\ debug' = IF system = "next" /\ ~debug.open THEN debug ELSE Cleared(debug)
        /\ BeginSlice("frame", debug.open /\ 
                                  (HasEnabledPoints \/ debug.runTo # None \/ debug.stepOut # None))
  /\ UNCHANGED <<system, cpu, saved>>

\* Mutant: a stop leaves the address to run to.
StopWith_KeepsGoal(d) == [d EXCEPT !.pointHit = TRUE, !.stepOut = None, !.stopRequested = TRUE]

\* app_debug_stop_with
StopWith(d) ==
  [d EXCEPT !.pointHit = TRUE, !.runTo = None, !.stepOut = None, !.stopRequested = TRUE]

\* app_debug_callback at a tick with an access, or none.
SeesAccess(access) ==
  LET m == MatchPoint(access.kind, access.address, access.value)
      looks == access.kind # "idle" /\ ~debug.pending
  IN  /\ points' = IF looks THEN m.points ELSE points
      /\ debug' = [debug EXCEPT !.pending = @ \/ (looks /\ m.index # 0),
                                !.leftBoundary = @ \/ debug.stepping]

\* app_debug_callback where an instruction is complete, and a its successor.
ReachesRunTo(d, a) ==
  IF d.runTo = a
  THEN [d EXCEPT !.runTo = None, !.runToHit = TRUE, !.stopRequested = TRUE] ELSE d
LeavesRoutine(d, sp) == d.stepOut # None /\ (sp - d.stepOut) % ValueTop \in 1..(ValueTop \div 2 - 1)
SeesInstruction(a, sp) ==
  LET skips == Skipping(debug, a)
      d == [debug EXCEPT !.skip = IF skips THEN None ELSE @]
      m == MatchPoint("exec", a, 0)
  IN  \/ /\ debug.pending
         /\ debug' = StopWith([d EXCEPT !.pending = FALSE]) /\ UNCHANGED points
      \/ /\ ~debug.pending /\ ~skips /\ m.index # 0
         /\ debug' = StopWith(d) /\ points' = m.points
      \/ /\ ~debug.pending /\ (skips \/ m.index = 0)
         /\ points' = IF skips THEN points ELSE m.points
         /\ debug' = IF LeavesRoutine(d, sp) THEN StopWith(ReachesRunTo(d, a))
                     ELSE [ReachesRunTo(d, a) EXCEPT
                             !.stopRequested = @ \/ (d.stepping /\ d.leftBoundary)]

Capped(n) == IF n < 2 THEN n + 1 ELSE n

\* A tick of the CPU with the hook behind it.  The user has seen the machine
\* at an instruction that PC was set to; any other is a new arrival.
Fetch(a, sp) ==
  /\ cpu' = [cpu EXCEPT !.at = a, !.tick = 0, !.sp = sp, !.held = FALSE]
  /\ IF slice.armed THEN SeesInstruction(a, sp) ELSE UNCHANGED <<points, debug>>
  /\ seen' = [seen EXCEPT !.shown = @ /\ cpu.tick = Prefetch,
                          !.passed = seen.resumed = a,
                          !.resumed = IF slice.armed /\ @ = a THEN None ELSE @,
                          !.done = IF seen.whole /\ cpu.tick # Prefetch THEN Capped(@) ELSE @]
Access ==
  LET accesses == Program[cpu.at].accesses
  IN  /\ cpu.tick \in 0..(Len(accesses) - 1)
      /\ cpu' = [cpu EXCEPT !.tick = @ + 1]
      /\ IF slice.armed THEN SeesAccess(accesses[cpu.tick + 1]) ELSE UNCHANGED <<points, debug>>
      /\ UNCHANGED seen
Complete ==
  \/ cpu.tick = Prefetch /\ Fetch(cpu.at, cpu.sp)
  \/ /\ cpu.tick = Len(Program[cpu.at].accesses)
     /\ \E s \in Program[cpu.at].next : Fetch(s.to, (cpu.sp + s.pops) % ValueTop)

\* Mutant: the hook looks at the CPU while contention holds it.
Stall_Seen ==
  /\ system = "classic" /\ cpu.tick # Prefetch /\ ~cpu.held
  /\ IF slice.armed /\ AtBoundary THEN SeesInstruction(cpu.at, cpu.sp)
     ELSE UNCHANGED <<points, debug>>
  /\ cpu' = [cpu EXCEPT !.held = TRUE]
  /\ UNCHANGED seen

\* The ULA holds the clock of the CPU, once in an instruction here, or the DMA
\* the bus in the middle of one: the hook sees no access and no instruction,
\* but on the Next it notes that a step has left its boundary.
Stall ==
  /\ \/ system = "classic" /\ ~cpu.held /\ UNCHANGED debug
     \/ /\ system = "next" /\ cpu.tick > 0
        /\ debug' = [debug EXCEPT !.leftBoundary = @ \/ (slice.armed /\ debug.stepping)]
  /\ cpu' = [cpu EXCEPT !.held = system = "classic"]
  /\ UNCHANGED <<points, seen>>

Running == slice.by # "none" /\ left > 0 /\ ~(slice.armed /\ debug.stopRequested)

\* _zx_exec_ticks and next_machine_exec_frame, a tick.
MachineTick ==
  /\ Running
  /\ left' = left - 1
  /\ Access \/ Complete \/ Stall
  /\ UNCHANGED <<system, slice, saved>>

\* Mutant: a step that has ended goes on marking instructions.
Ended_Stepping(d) ==
  [d EXCEPT !.paused = @ \/ (slice.by = "frame" /\ (d.pointHit \/ d.runToHit))]

\* What each caller does after its slice.
Ended(d) ==
  [d EXCEPT !.stepping = FALSE,
            !.leftBoundary = IF slice.by = "pause" THEN FALSE ELSE @,
            !.paused = @ \/ (/\ slice.by = "frame" /\ (system = "classic" \/ d.open)
                             /\ (d.pointHit \/ d.runToHit))]
EndSlice ==
  /\ ~Between /\ ~Running
  /\ debug' = Ended(debug)
  /\ slice' = Idle
  /\ left' = IF left = 0 \/ system = "classic" THEN FrameLength ELSE left
  /\ seen' = [seen EXCEPT !.shown = @ \/ debug'.paused, !.done = 0, !.whole = FALSE]
  /\ UNCHANGED <<system, cpu, points, saved>>

-----------------------------------------------------------------------------
(* Around it.                                                              *)

NoDebug ==
  [open |-> FALSE, paused |-> FALSE, stepping |-> FALSE, stopRequested |-> FALSE,
   pointHit |-> FALSE, runToHit |-> FALSE, pending |-> FALSE, leftBoundary |-> FALSE,
   runTo |-> None, stepOut |-> None, skip |-> None]
ResetCpu == [at |-> 0, tick |-> Prefetch, held |-> FALSE, sp |-> 0]
NothingSeen ==
  [shown |-> FALSE, passed |-> FALSE, resumed |-> None, done |-> 0, whole |-> FALSE]

OpenWindow == Between /\ ~debug.open /\ Command([debug EXCEPT !.open = TRUE])

\* WM_DESTROY of app_debugger_dlgproc: the machine runs on.
CloseWindow ==
  /\ Between /\ debug.open
  /\ Command([debug EXCEPT !.open = FALSE, !.paused = FALSE, !.stepping = FALSE,
                           !.stopRequested = FALSE, !.runTo = None, !.runToHit = FALSE,
                           !.stepOut = None])

\* app_debug_machine_changed, after a reset, a snapshot or another machine.
MachineChanged ==
  /\ Between
  /\ system' \in {"classic", "next"}
  /\ cpu' = ResetCpu /\ left' = FrameLength
  /\ debug' = [Cleared(debug) EXCEPT !.stepping = FALSE, !.runTo = None, !.stepOut = None,
                                     !.skip = None]
  /\ seen' = NothingSeen
  /\ UNCHANGED <<slice, points, saved>>

\* The program is left and started again: app_debug_load_points.
Restart ==
  /\ Between
  /\ system' = "classic" /\ cpu' = ResetCpu /\ left' = FrameLength
  /\ points' = saved /\ debug' = NoDebug /\ seen' = NothingSeen
  /\ UNCHANGED <<slice, saved>>

InitDebugger ==
  /\ system = "classic" /\ cpu = ResetCpu /\ left = FrameLength /\ slice = Idle
  /\ points = <<>> /\ saved = <<>> /\ debug = NoDebug /\ seen = NothingSeen

Points ==
  \/ \E p \in PointInputs : AddPoint(p)
  \/ \E a \in AddressInputs : TogglePoint("exec", a) \/ TogglePoint("write", a)
  \/ DeletePoints \/ \E i \in DOMAIN points : DeletePoint(i)
  \/ \E S \in Chosen : ResetHits(S) \/ \E b \in BOOLEAN : EnablePoints(S, b)
Commands ==
  \/ Resume \/ Pause \/ Step \/ StepOver \/ StepOut
  \/ \E a \in AddressInputs : RunTo(a) \/ RunFrom(a)
  \/ \E r \in RegisterInputs : SetRegister(r)

NextDebugger ==
  \/ Points \/ Commands \/ BeginFrame \/ MachineTick \/ EndSlice
  \/ OpenWindow \/ CloseWindow \/ MachineChanged \/ Restart

SpecDebugger == InitDebugger /\ [][NextDebugger]_debuggerVars

-----------------------------------------------------------------------------
(* Properties.                                                             *)

CpuType == [at : Addresses, tick : Int, held : BOOLEAN, sp : Values]
DebugType ==
  [open : BOOLEAN, paused : BOOLEAN, stepping : BOOLEAN, stopRequested : BOOLEAN,
   pointHit : BOOLEAN, runToHit : BOOLEAN, pending : BOOLEAN, leftBoundary : BOOLEAN,
   runTo : Addresses \cup {None}, stepOut : Values \cup {None}, skip : Addresses \cup {None}]

SeenType ==
  [shown : BOOLEAN, passed : BOOLEAN, resumed : Addresses \cup {None}, done : 0..2,
   whole : BOOLEAN]

\* The state is well formed, and what the settings file holds is the list.
DebuggerTypeOK ==
  /\ system \in {"classic", "next"}
  /\ cpu \in CpuType /\ cpu.tick \in Prefetch..Len(Program[cpu.at].accesses)
  /\ left \in 0..FrameLength
  /\ slice \in [by : {"none", "frame", "step", "pause"}, armed : BOOLEAN]
  /\ points \in Seq(PointType) /\ Len(points) <= MaxPoints
  /\ \A i \in DOMAIN points : points[i].hits <= points[i].target
  /\ saved = [i \in DOMAIN points |-> Stored(points[i])]
  /\ debug \in DebugType
  /\ seen \in SeenType
  /\ slice.by \in {"step", "pause"} <=> debug.stepping

Plain(p) == p.enabled /\ p.target = 1 /\ p.condition.operands = <<>> /\ p.value = AnyValue
Leaves(a) == cpu.tick = 0 /\ cpu.at = a /\ cpu'.tick = 1

\* An instruction with a breakpoint on it is not executed while the window is
\* open until the machine has been paused before it; and a watchpoint that
\* was hit stops it when the instruction is complete.  Two cases are excepted
\* in which the code differs from docs/debugger.md:62, 86 and 76: the first
\* arrival that the hook sees at the address the machine was last set going
\* from is executed without a stop (debugger.c:1713-1718, seen.passed), and a
\* hit is forgotten when a slice ends before its instruction (1948).
BreakpointsStop ==
  [][/\ \A a \in Addresses :
          Leaves(a) /\ slice.by = "frame" /\ debug.open
            /\ (\E i \in DOMAIN points : points[i].kind = "exec" /\ Plain(points[i])
                                           /\ Covers(points[i], a))
            => seen.shown \/ seen.passed
     /\ debug.pending /\ slice.armed /\ slice.by = "frame" /\ cpu.tick > 0 /\ cpu'.tick = 0
            => debug'.stopRequested]_debuggerVars

\* A step that starts before an instruction executes that instruction and no
\* other, whatever breakpoints are met and however the CPU is held, unless
\* the frame of the Next ends in it.
StepsOneInstruction ==
  [][slice.by = "step" /\ slice'.by = "none" /\ seen.whole
       => \/ seen.done = 1 /\ AtBoundary
          \/ system = "next" /\ left = 0 /\ ~debug.stopRequested]_debuggerVars

\* A run-to that was asked for does not outlive a pause: what is resumed
\* later does not stop at an address given up on.
RunToEnds == debug.paused /\ Between => debug.runTo = None
=============================================================================
