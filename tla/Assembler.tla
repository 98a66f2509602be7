----------------------------- MODULE Assembler -----------------------------
(* The assembler of the editor (src/src/assembler_core.c, driven by the     *)
(* build and export commands of src/src/assembler_ui.c): INCLUDE files are  *)
(* expanded, the first ORG is looked for, and the lines are assembled twice,*)
(* first to place the labels and then to write bytes, into the memory of    *)
(* the machine or into a tape file.  One step takes one line.               *)
(*                                                                         *)
(* Data.  A line is a record: its labels, a mnemonic or directive, its      *)
(* operands.  An operand is an expression in one of the shapes the parser   *)
(* tells apart; a register is the expression that only names it.  A byte    *)
(* is told by the part of the instruction it is, with the value it was made *)
(* from: opcodes are not told apart.  Addresses and fields are scaled down. *)
EXTENDS Integers, Sequences, FiniteSets, SequencesExt

CONSTANTS
  Projects,     \* programs: the file the editor shows, whether it has a path,
                \* the text of each file, and the sizes its INCBIN file may have
  ProgramCounters,
  RamStart,     \* 4000h
  MemoryTop,    \* 10000h
  IntMax,       \* INT_MAX, one less than a power of two
  FieldRange,   \* values each kind of field holds
  MaxLabels,    \* entries of each symbol table, 512
  MaxDepth,     \* nested files, 32
  ChunkSize,    \* bytes DEFS writes at a time, 256
  LineBytes     \* bytes of one DB or DW, 256

Missing == -1    \* size of a file that is not there
Places == 0..(MemoryTop - 1)
Int32 == (-IntMax - 1)..IntMax    \* the values of int

InfixOperators == {"*", "+", "-", "&"}
AtomType == [kind : {"number", "here", "symbol"}, name : STRING, value : Int32]
ExpressionType ==
  {e \in [atoms : Seq(AtomType), operators : Seq(InfixOperators)] :
     Len(e.atoms) = Len(e.operators) + 1 \/ e = [atoms |-> <<>>, operators |-> <<>>]}
OperandType ==
  [form : {"plain", "paren", "IX", "IY", "quoted", "missing"}, e : ExpressionType, size : Nat]
LineType == [labels : Seq(STRING), op : STRING, name : STRING, operands : Seq(OperandType)]

ASSUME ScaleAssumption ==
  /\ RamStart \in Nat /\ MemoryTop \in Nat /\ RamStart < MemoryTop
  /\ IntMax \in Nat /\ MemoryTop <= IntMax
  /\ MaxLabels \in Nat /\ MaxDepth \in Nat \ {0, 1}
  /\ ChunkSize \in Nat \ {0} /\ LineBytes \in Nat \ {0}
  /\ ProgramCounters \subseteq Places

ASSUME ProjectsAssumption ==
  \A p \in Projects :
    /\ p.saved \in BOOLEAN /\ p.binSizes \subseteq Nat \cup {Missing}
    /\ p.root \in DOMAIN p.text
    /\ \A file \in DOMAIN p.text : p.text[file] \in Seq(LineType)

VARIABLES
  project,   \* which of Projects is open; does not change
  binSize,   \* size of the file of INCBIN, which another program may replace
  ram,       \* memory of the machine
  job,       \* the build: phase, command, what it works on
  ctx,       \* AssemblerContext, with the AssemblerBinaryOutput
  tape,      \* the last tape file exported
  running,   \* where the last run entered the program
  history    \* bytes each line of pass 2 gave and where they went, and whether
             \* the file of INCBIN stayed as it was

assemblerVars == <<project, binSize, ram, job, ctx, tape, running, history>>

Nowhere == -1
NoOutput == [start |-> Nowhere, bytes |-> <<>>]

-----------------------------------------------------------------------------
(* Values.                                                                 *)

NoValue  == [ok |-> FALSE, value |-> 0, resolved |-> FALSE]
Known(n) == [ok |-> TRUE, value |-> n, resolved |-> TRUE]

Sym(name) == [atoms |-> <<[kind |-> "symbol", name |-> name, value |-> 0]>>,
              operators |-> <<>>]

\* app_parse_value, an atom: a constant hides a label, and a name not yet
\* defined is zero for now in pass 1 and an error in pass 2.
Atom(c, a) ==
  CASE a.kind = "number" -> Known(a.value)
    [] a.kind = "here" -> Known(c.address)
    [] a.kind = "symbol" /\ a.name \in DOMAIN c.constants -> Known(c.constants[a.name])
    [] a.kind = "symbol" /\ a.name \in DOMAIN c.labels \ DOMAIN c.constants ->
         Known(c.labels[a.name])
    [] OTHER -> [ok |-> c.pass = 1, value |-> 0, resolved |-> FALSE]

Unsigned(n) == n % (2 * (IntMax + 1))
Signed(n)   == IF n > IntMax THEN n - 2 * (IntMax + 1) ELSE n
SharedBits(x, y) ==
  LET shared[a, b \in Nat] ==
        IF a = 0 \/ b = 0 THEN 0 ELSE (a % 2) * (b % 2) + 2 * shared[a \div 2, b \div 2]
  IN  shared[x, y]

\* app_parse_value, one operator: a result that leaves int is an error.
Apply(op, x, y) ==
  LET n == CASE op = "*" -> x.value * y.value
             [] op = "+" -> x.value + y.value
             [] op = "-" -> x.value - y.value
             [] op = "&" -> Signed(SharedBits(Unsigned(x.value), Unsigned(y.value)))
  IN  IF x.ok /\ y.ok /\ n \in Int32
      THEN [ok |-> TRUE, value |-> n, resolved |-> x.resolved /\ y.resolved] ELSE NoValue

\* One sweep over the operators of a level, from left to right: an operator of
\* the level joins its right value to what is there, any other stays.
Combined(level, done, op, right) ==
  IF op \in level THEN [done EXCEPT !.values[Len(done.values)] = Apply(op, @, right)]
  ELSE [values |-> Append(done.values, right), operators |-> Append(done.operators, op)]
Collapse(x, level) ==
  LET done[i \in 0..Len(x.operators)] ==
        IF i = 0 THEN [values |-> <<Head(x.values)>>, operators |-> <<>>]
        ELSE Combined(level, done[i - 1], x.operators[i], x.values[i + 1])
  IN  done[Len(x.operators)]
Swept(x) == Collapse(Collapse(Collapse(x, {"*"}), {"+", "-"}), {"&"})

\* app_parse_value
ParseValue(c, e) ==
  IF e.atoms = <<>> \/ \E i \in DOMAIN e.atoms : ~Atom(c, e.atoms[i]).ok THEN NoValue
  ELSE LET v == Swept([values |-> [i \in DOMAIN e.atoms |-> Atom(c, e.atoms[i])],
                       operators |-> e.operators]).values[1]
       IN  IF v.ok THEN v ELSE NoValue

-----------------------------------------------------------------------------
(* Operands.  Shapes: "plain" e, "paren" (e), "IX" and "IY" (IX+e), without  *)
(* an e when e has no atoms, "quoted" text of size characters, "missing"    *)
(* between commas, "none" for an operand the line does not have.            *)

Absent == [form |-> "none", e |-> [atoms |-> <<>>, operators |-> <<>>], size |-> 0,
           value |-> NoValue, index |-> NoValue, indirect |-> NoValue]
OperandOf(l, i) == IF i \in DOMAIN l.operands THEN l.operands[i] ELSE Absent
Lhs(l)   == OperandOf(l, 1)
Rhs(l)   == OperandOf(l, 2)
Count(l) == Len(l.operands)

Is(o, name)      == o.form = "plain" /\ o.e = Sym(name)
Within(o, name)  == o.form = "paren" /\ o.e = Sym(name)
OneOf(o, names)  == \E n \in names : Is(o, n)

Reg8(o)      == OneOf(o, {"A", "B", "C", "D", "E", "H", "L"}) \/ Within(o, "HL")
Reg16(o)     == OneOf(o, {"BC", "DE", "HL", "SP"})
Reg16Push(o) == OneOf(o, {"BC", "DE", "HL", "AF"})
IndexReg16(o, index) == OneOf(o, {"BC", "DE", index, "SP"})
ShortConditions == {"NZ", "Z", "NC", "C"}
Condition(o) == OneOf(o, ShortConditions \cup {"PO", "PE", "P", "M"})
IsRegisterName(o) ==
  OneOf(o, {"A", "B", "C", "D", "E", "H", "L", "I", "R", "F", "AF", "AF'", "BC",
            "DE", "HL", "SP", "IX", "IY", "IXH", "IXL", "IYH", "IYL", "HX", "LX",
            "HY", "LY", "XH", "XL", "YH", "YL"})

\* app_parse_number: a literal.
Number(o) == o.form = "plain" /\ Len(o.e.atoms) = 1 /\ o.e.atoms[1].kind = "number"

\* What the line makes of an operand, of which v is the value inside: a plain
\* value (app_parse_value), a displacement (app_parse_indexed_operand), an
\* address (app_parse_indirect_address).  (IX+e) passes for an address in
\* pass 1, where any name is a value.  No symbol is named like a register.
Pairs == {"HL", "BC", "DE", "SP", "IX", "IY"}
Read(c, o, v) ==
  [form |-> o.form, e |-> o.e, size |-> o.size,
   value |-> IF o.form = "plain" THEN v ELSE NoValue,
   index |-> CASE o.form \in {"IX", "IY"} /\ o.e.atoms = <<>> -> Known(0)
               [] o.form \in {"IX", "IY"} /\ o.e.atoms # <<>> -> v
               [] OTHER -> NoValue,
   indirect |-> CASE o.form = "paren" /\ \A p \in Pairs : ~Within(o, p) -> v
                  [] o.form \in {"IX", "IY"} ->
                       [ok |-> v.ok /\ c.pass = 1, value |-> 0, resolved |-> FALSE]
                  [] OTHER -> NoValue]
ReadOperands(c, l) ==
  [l EXCEPT !.operands = [i \in DOMAIN @ |-> Read(c, @[i], ParseValue(c, @[i].e))]]

-----------------------------------------------------------------------------
(* Instructions: the bytes of a line, or its refusal.                      *)

Emit(bytes) == [ok |-> TRUE, bytes |-> bytes]
Refuse      == [ok |-> FALSE, bytes |-> <<>>]
Codes(n)    == [i \in 1..n |-> [kind |-> "code", value |-> 0]]
Low(v)      == [kind |-> "low", value |-> v]
High(v)     == [kind |-> "high", value |-> v]

\* The range of a field is checked in pass 2 only; in pass 1 its value may
\* still be unknown.
InField(c, kind, v) == v.ok /\ (c.pass = 1 \/ v.value \in FieldRange[kind])
Field(kind, v) ==
  IF kind \in {"word", "address"} THEN <<Low(v), High(v)>>
  ELSE <<[kind |-> kind, value |-> v]>>

\* n bytes of opcode, then a field.
With(c, n, kind, v) ==
  IF InField(c, kind, v) THEN Emit(Codes(n) \o Field(kind, v.value)) ELSE Refuse
WithIndex(c, o, extra) ==
  IF InField(c, "displacement", o.index)
  THEN Emit(Codes(2) \o Field("displacement", o.index.value) \o extra) ELSE Refuse

\* An if-else-if chain: the first form whose guard holds.
Row(guard, form) == [when |-> guard, form |-> form]
FirstOf(rows) ==
  LET i == SelectInSeq(rows, LAMBDA r : r.when)
  IN  IF i = 0 THEN Refuse ELSE rows[i].form

\* app_assemble_z80n, implied[]: the operands that may be written out.
Z80nImplied ==
  [m \in {"SWAPNIB", "MIRROR", "BSLA", "BSRA", "BSRL", "BSRF", "BRLC", "MUL", "OUTINB",
          "PIXELDN", "PIXELAD", "SETAE", "LDIX", "LDWS", "LDDX", "LDIRX", "LDPIRX", "LDDRX"} |->
     CASE m \in {"SWAPNIB", "MIRROR"} -> <<"A">>
       [] m \in {"BSLA", "BSRA", "BSRL", "BSRF", "BRLC"} -> <<"DE", "B">>
       [] m = "MUL" -> <<"D", "E">>
       [] OTHER -> <<>>]

Spelled(l, names) ==
  Count(l) = Len(names) /\ \A i \in DOMAIN names : Is(OperandOf(l, i), names[i])

Z80nByte(o) == IF IsRegisterName(o) THEN NoValue ELSE o.value

NextReg(c, l) ==
  LET reg == Z80nByte(Lhs(l)) data == Z80nByte(Rhs(l))
  IN  IF Count(l) # 2 \/ ~InField(c, "byte", reg) THEN Refuse
      ELSE IF Is(Rhs(l), "A") THEN With(c, 2, "byte", reg)
      ELSE IF ~InField(c, "byte", data) THEN Refuse
      ELSE Emit(Codes(2) \o Field("byte", reg.value) \o Field("byte", data.value))

\* app_assemble_z80n, PUSH nn: the high byte comes first.
PushWord(c, l) ==
  LET v == Lhs(l).value
  IN  IF InField(c, "word", v) THEN Emit(Codes(2) \o <<High(v.value), Low(v.value)>>)
      ELSE Refuse

\* app_assemble_z80n: the forms it claims, the others are left to the Z80's.
Z80n(c, l) ==
  LET pair == OneOf(Lhs(l), {"HL", "DE", "BC"})
  IN  << Row(l.op \in DOMAIN Z80nImplied,
             IF l.op \in DOMAIN Z80nImplied
                /\ (Count(l) = 0 \/ Spelled(l, Z80nImplied[l.op]))
             THEN Emit(Codes(2)) ELSE Refuse),
         Row(l.op = "TEST", IF Count(l) = 1 THEN With(c, 2, "byte", Z80nByte(Lhs(l)))
                            ELSE Refuse),
         Row(l.op = "NEXTREG", NextReg(c, l)),
         Row(l.op = "JP" /\ Count(l) = 1 /\ Within(Lhs(l), "C"), Emit(Codes(2))),
         Row(l.op = "ADD" /\ Count(l) = 2 /\ pair /\ Is(Rhs(l), "A"), Emit(Codes(2))),
         Row(l.op = "ADD" /\ Count(l) = 2 /\ pair /\ ~IsRegisterName(Rhs(l))
               /\ Rhs(l).form = "plain", With(c, 2, "word", Rhs(l).value)),
         Row(l.op = "PUSH" /\ Count(l) = 1 /\ ~IsRegisterName(Lhs(l)), PushWord(c, l)) >>

\* Instructions without operands, by their size.
Implied ==
  [m \in {"NOP", "HALT", "DI", "EI", "SCF", "CCF", "CPL", "DAA", "RLCA", "RRCA", "RLA", "RRA",
          "EXX", "LDIR", "NEG"} |-> IF m \in {"LDIR", "NEG"} THEN 2 ELSE 1]

BitForm(c, l) ==
  IF ~(Count(l) = 2 /\ Number(Lhs(l)) /\ Lhs(l).e.atoms[1].value \in 0..7) THEN Refuse
  ELSE FirstOf(<< Row(Reg8(Rhs(l)), Emit(Codes(2))),
                  Row(Rhs(l).index.ok, WithIndex(c, Rhs(l), Codes(1))) >>)

RetForm(l) == IF Count(l) = 0 \/ (Count(l) = 1 /\ Condition(Lhs(l))) THEN Emit(Codes(1))
              ELSE Refuse

\* The vectors are not scaled: 0, 8, .. 38h.
RstForm(l) ==
  IF Count(l) = 1 /\ Number(Lhs(l)) /\ \E n \in 0..7 : Lhs(l).e.atoms[1].value = 8 * n
  THEN Emit(Codes(1)) ELSE Refuse

\* The displacement of DJNZ and JR, from the address after the instruction.
Relative(c, o) ==
  LET v == o.value IN [v EXCEPT !.value = @ - (c.address + 2)]

DjnzForm(c, l) ==
  IF Count(l) = 1 THEN With(c, 1, "relative", Relative(c, Lhs(l))) ELSE Refuse

JrForm(c, l) ==
  FirstOf(<< Row(Count(l) = 1, With(c, 1, "relative", Relative(c, Lhs(l)))),
             Row(Count(l) = 2 /\ OneOf(Lhs(l), ShortConditions),
                 With(c, 1, "relative", Relative(c, Rhs(l)))) >>)

JpForm(c, l) ==
  FirstOf(<< Row(Count(l) = 1 /\ Within(Lhs(l), "HL"), Emit(Codes(1))),
             Row(Count(l) = 1 /\ Lhs(l).form \in {"IX", "IY"} /\ Lhs(l).e.atoms = <<>>,
                 Emit(Codes(2))),
             Row(Count(l) = 1, With(c, 1, "address", Lhs(l).value)),
             Row(Count(l) = 2 /\ Condition(Lhs(l)),
                 With(c, 1, "address", Rhs(l).value)) >>)

CallForm(c, l) ==
  FirstOf(<< Row(Count(l) = 1, With(c, 1, "address", Lhs(l).value)),
             Row(Count(l) = 2 /\ Condition(Lhs(l)),
                 With(c, 1, "address", Rhs(l).value)) >>)

OutForm(c, l) ==
  IF Count(l) = 2 /\ Is(Rhs(l), "A") THEN With(c, 1, "port", Lhs(l).indirect)
  ELSE Refuse

InForm(c, l) ==
  FirstOf(<< Row(Count(l) = 2 /\ Is(Lhs(l), "A") /\ Within(Rhs(l), "C"), Emit(Codes(2))),
             Row(Count(l) = 2 /\ Is(Lhs(l), "A"),
                 With(c, 1, "port", Rhs(l).indirect)) >>)

StackForm(l) ==
  FirstOf(<< Row(Count(l) = 1 /\ Reg16Push(Lhs(l)), Emit(Codes(1))),
             Row(Count(l) = 1 /\ OneOf(Lhs(l), {"IX", "IY"}), Emit(Codes(2))) >>)

StepForm(c, l) ==
  LET o == Lhs(l)
  IN  FirstOf(<< Row(Count(l) # 1, Refuse),
                 Row(Reg8(o) \/ Reg16(o), Emit(Codes(1))),
                 Row(OneOf(o, {"IX", "IY"}), Emit(Codes(2))),
                 Row(o.index.ok, WithIndex(c, o, <<>>)) >>)

ExForm(l) ==
  FirstOf(<< Row(Spelled(l, <<"DE", "HL">>) \/ Spelled(l, <<"AF", "AF'">>), Emit(Codes(1))),
             Row(Count(l) = 2 /\ Within(Lhs(l), "SP") /\ Is(Rhs(l), "HL"), Emit(Codes(1))),
             Row(Count(l) = 2 /\ Within(Lhs(l), "SP") /\ OneOf(Rhs(l), {"IX", "IY"}),
                 Emit(Codes(2))) >>)

\* What A is combined with: a register, (IX+d), a byte.
AluForm(c, o) ==
  FirstOf(<< Row(Reg8(o), Emit(Codes(1))),
             Row(o.index.ok, WithIndex(c, o, <<>>)),
             Row(TRUE, With(c, 1, "byte", o.value)) >>)

AdcForm(c, l) == IF Count(l) = 2 /\ Is(Lhs(l), "A") THEN AluForm(c, Rhs(l)) ELSE Refuse

AddForm(c, l) ==
  FirstOf(<< Row(Count(l) # 2, Refuse),
             Row(Is(Lhs(l), "HL") /\ Reg16(Rhs(l)), Emit(Codes(1))),
             Row(\E i \in {"IX", "IY"} : Is(Lhs(l), i) /\ IndexReg16(Rhs(l), i),
                 Emit(Codes(2))),
             Row(Is(Lhs(l), "A"), AluForm(c, Rhs(l))) >>)

LogicForm(c, l) == IF Count(l) = 1 THEN AluForm(c, Lhs(l)) ELSE Refuse

\* LD of 16-bit registers from registers and values.
LdWide(c, l) ==
  LET v == Rhs(l).value
  IN  << Row(Is(Lhs(l), "SP") /\ Is(Rhs(l), "HL"), Emit(Codes(1))),
         Row(Is(Lhs(l), "SP") /\ OneOf(Rhs(l), {"IX", "IY"}), Emit(Codes(2))),
         Row(Reg16(Lhs(l)) /\ v.ok, With(c, 1, "word", v)),
         Row(OneOf(Lhs(l), {"IX", "IY"}) /\ v.ok, With(c, 2, "word", v)) >>

\* LD to and from (IX+d)
LdIndexed(c, l) ==
  LET to == Lhs(l).index.ok from == Rhs(l).index.ok v == Rhs(l).value
  IN  << Row(Reg8(Lhs(l)) /\ Lhs(l).form = "plain" /\ from, WithIndex(c, Rhs(l), <<>>)),
         Row(to /\ Reg8(Rhs(l)) /\ Rhs(l).form = "plain", WithIndex(c, Lhs(l), <<>>)),
         Row(to /\ v.ok, IF InField(c, "byte", v)
                         THEN WithIndex(c, Lhs(l), Field("byte", v.value)) ELSE Refuse),
         Row(Is(Lhs(l), "A") /\ Is(Rhs(l), "R"), Emit(Codes(2))) >>

\* LD to and from (nn)
LdMemory(c, l) ==
  LET to == Lhs(l).indirect from == Rhs(l).indirect
  IN  << Row(to.ok /\ OneOf(Rhs(l), {"A", "HL"}), With(c, 1, "address", to)),
         Row(from.ok /\ OneOf(Lhs(l), {"A", "HL"}), With(c, 1, "address", from)),
         Row(to.ok /\ OneOf(Rhs(l), {"IX", "IY", "BC", "DE", "SP"}), With(c, 2, "address", to)),
         Row(from.ok /\ OneOf(Lhs(l), {"IX", "IY", "BC", "DE", "SP"}),
             With(c, 2, "address", from)) >>

\* LD of bytes
LdByte(c, l) ==
  LET v == Rhs(l).value
  IN  << Row(\E p \in {"BC", "DE"} : \/ Within(Lhs(l), p) /\ Is(Rhs(l), "A")
                                     \/ Is(Lhs(l), "A") /\ Within(Rhs(l), p),
             Emit(Codes(1))),
         Row(Within(Lhs(l), "HL") /\ Within(Rhs(l), "HL"), Refuse),
         Row(Reg8(Lhs(l)) /\ Reg8(Rhs(l)), Emit(Codes(1))),
         Row(Reg8(Lhs(l)) /\ v.ok, With(c, 1, "byte", v)) >>

LdForm(c, l) ==
  IF Count(l) # 2 THEN Refuse
  ELSE FirstOf(LdWide(c, l) \o LdIndexed(c, l) \o LdMemory(c, l) \o LdByte(c, l))

\* The instructions of the Z80 by mnemonic.
Z80(c, l) ==
  CASE l.op \in DOMAIN Implied -> IF Count(l) = 0 THEN Emit(Codes(Implied[l.op]))
                                  ELSE Refuse
    [] l.op \in {"BIT", "SET", "RES"} -> BitForm(c, l)
    [] l.op = "RET"  -> RetForm(l)
    [] l.op = "RST"  -> RstForm(l)
    [] l.op = "DJNZ" -> DjnzForm(c, l)
    [] l.op = "JR"   -> JrForm(c, l)
    [] l.op = "JP"   -> JpForm(c, l)
    [] l.op = "CALL" -> CallForm(c, l)
    [] l.op = "OUT"  -> OutForm(c, l)
    [] l.op = "IN"   -> InForm(c, l)
    [] l.op \in {"PUSH", "POP"} -> StackForm(l)
    [] l.op \in {"INC", "DEC"}  -> StepForm(c, l)
    [] l.op = "EX"   -> ExForm(l)
    [] l.op = "ADC"  -> AdcForm(c, l)
    [] l.op = "ADD"  -> AddForm(c, l)
    [] l.op \in {"SUB", "AND", "OR", "XOR", "CP"} -> LogicForm(c, l)
    [] l.op = "LD"   -> LdForm(c, l)
    [] OTHER -> Refuse

\* app_assemble_line, from the Z80N forms to the last mnemonic.
Encode(c, l) ==
  FirstOf(<<Row(Count(l) > 2, Refuse)>> \o Z80n(c, l) \o <<Row(TRUE, Z80(c, l))>>)

-----------------------------------------------------------------------------
(* The context: symbols and bytes written.                                 *)

NoSymbols == [n \in {} |-> 0]
Named(table, name, value) ==
  [n \in DOMAIN table \cup {name} |-> IF n = name THEN value ELSE table[n]]

NewContext(address) ==
  [pass |-> 1, address |-> address, exhausted |-> FALSE, target |-> "none",
   labels |-> NoSymbols, constants |-> NoSymbols, total |-> 0, output |-> NoOutput]

Done(c, r)   == [ok |-> TRUE, ctx |-> c, ram |-> r]
Failed(c, r) == [ok |-> FALSE, ctx |-> c, ram |-> r]

\* Mutant: a full table takes another symbol.
Fresh_Unbounded(c, table, name) == name \notin DOMAIN c.labels \cup DOMAIN c.constants

\* A name that neither table has, and room for it.
Fresh(c, table, name) ==
  name \notin DOMAIN c.labels \cup DOMAIN c.constants /\ Cardinality(DOMAIN table) < MaxLabels

\* Mutant: pass 2 does not compare the addresses.
DefineLabel_Trusts(c, name) ==
  CASE c.pass = 2 -> [ok |-> name \in DOMAIN c.labels, ctx |-> c]
    [] c.pass = 1 /\ ~Fresh(c, c.labels, name) -> [ok |-> FALSE, ctx |-> c]
    [] OTHER -> [ok |-> TRUE, ctx |-> [c EXCEPT !.labels = Named(@, name, c.address)]]

\* app_define_label: a new name in pass 1, the same address in pass 2.
DefineLabel(c, name) ==
  CASE c.pass = 2 ->
         [ok |-> name \in DOMAIN c.labels /\ c.labels[name] = c.address, ctx |-> c]
    [] c.pass = 1 /\ ~Fresh(c, c.labels, name) -> [ok |-> FALSE, ctx |-> c]
    [] OTHER -> [ok |-> TRUE, ctx |-> [c EXCEPT !.labels = Named(@, name, c.address)]]

\* The labels of a line, until one is refused.
DefineLabels(c, names) ==
  LET done[i \in 0..Len(names)] ==
        IF i = 0 THEN [ok |-> TRUE, ctx |-> c]
        ELSE IF done[i - 1].ok THEN DefineLabel(done[i - 1].ctx, names[i]) ELSE done[i - 1]
  IN  done[Len(names)]

\* app_define_constant
DefineConstant(c, name, value) ==
  CASE c.pass = 2 ->
         [ok |-> name \in DOMAIN c.constants /\ c.constants[name] = value, ctx |-> c]
    [] c.pass = 1 /\ ~Fresh(c, c.constants, name) -> [ok |-> FALSE, ctx |-> c]
    [] OTHER -> [ok |-> TRUE, ctx |-> [c EXCEPT !.constants = Named(@, name, value)]]

\* app_parse_equ_definition: the value must be known in both passes.
Equ(c, l) ==
  LET v == Lhs(l).value
  IN  IF Count(l) = 1 /\ v.ok /\ v.resolved THEN DefineConstant(c, l.name, v.value)
      ELSE [ok |-> FALSE, ctx |-> c]

\* Mutant: only pass 2 looks whether the bytes fit.
Fits_Late(c, n) ==
  c.pass = 1 \/ (c.address >= RamStart /\ ~c.exhausted /\ c.address + n <= MemoryTop)

\* app_assemble_write_bytes, no bytes in ROM and none past FFFFh.
Fits(c, n) == c.address >= RamStart /\ ~c.exhausted /\ c.address + n <= MemoryTop

\* app_assemble_write_bytes, a tape takes one contiguous range.
FollowsOutput(c) ==
  c.output.start = Nowhere \/ c.output.start + Len(c.output.bytes) = c.address

Extended(c, bytes) ==
  [start |-> IF c.output.start = Nowhere THEN c.address ELSE c.output.start,
   bytes |-> c.output.bytes \o bytes]

\* app_assemble_write_bytes.  After a byte at FFFFh the address stays where
\* the last write began.
Placed(c, r, bytes, end) ==
  Done([c EXCEPT !.address = IF end = MemoryTop THEN @ ELSE end,
                 !.exhausted = @ \/ end = MemoryTop,
                 !.output = IF c.target = "tape" THEN Extended(c, bytes) ELSE @],
       IF c.target = "machine"
       THEN [a \in Places |-> IF a \in c.address..(end - 1)
                                 THEN bytes[a - c.address + 1] ELSE r[a]]
       ELSE r)
WriteBytes(c, r, bytes) ==
  CASE bytes = <<>> -> Done(c, r)
    [] bytes # <<>> /\ Fits(c, Len(bytes)) /\ (c.target = "tape" => FollowsOutput(c)) ->
         Placed(c, r, bytes, c.address + Len(bytes))
    [] OTHER -> Failed(c, r)

\* app_assemble_fill_bytes: in chunks; those before one that fails stay.
FillBytes(c, r, count, value) ==
  LET full == count \div ChunkSize
      n == IF count % ChunkSize = 0 THEN full ELSE full + 1
      chunk(i) == [b \in 1..(IF i <= full THEN ChunkSize ELSE count % ChunkSize) |->
                     [kind |-> "data", value |-> value]]
      filled[i \in 0..n] ==
        IF i = 0 THEN Done(c, r)
        ELSE IF filled[i - 1].ok THEN WriteBytes(filled[i - 1].ctx, filled[i - 1].ram, chunk(i))
        ELSE filled[i - 1]
  IN  filled[n]

CountedBytes(w, n) == IF w.ok THEN [w EXCEPT !.ctx.total = @ + n] ELSE w
Written(c, r, made) ==
  IF made.ok THEN CountedBytes(WriteBytes(c, r, made.bytes), Len(made.bytes)) ELSE Failed(c, r)

-----------------------------------------------------------------------------
(* app_assemble_line                                                       *)

Data(n) == [i \in 1..n |-> [kind |-> "data", value |-> 0]]

\* app_assemble_db_item and DW: the bytes of an operand.
DataItem(c, o, kind) ==
  IF kind = "byte" /\ o.form = "quoted" THEN Emit(Data(o.size))
  ELSE With(c, 0, kind, o.value)

DataLine(c, l, kind) ==
  LET items == [i \in DOMAIN l.operands |-> DataItem(c, l.operands[i], kind)]
      bytes == FlattenSeq([i \in DOMAIN items |-> items[i].bytes])
  IN  IF l.operands = <<>> \/ (\E i \in DOMAIN items : ~items[i].ok) \/ Len(bytes) > LineBytes
      THEN Refuse ELSE Emit(bytes)

Org(c, r, l) ==
  LET v == Lhs(l).value
  IN  IF Count(l) = 1 /\ v.ok /\ v.resolved /\ v.value \in Places
      THEN Done([c EXCEPT !.address = v.value, !.exhausted = FALSE], r)
      ELSE Failed(c, r)

\* DEFS and DS: the count must be known in pass 1.
Defs(c, r, l) ==
  LET count == Lhs(l).value
      fill  == IF Count(l) = 2 THEN Rhs(l).value ELSE Known(0)
  IN  IF Count(l) \in 1..2 /\ count.ok /\ count.resolved /\ count.value >= 0
         /\ InField(c, "byte", fill)
      THEN CountedBytes(FillBytes(c, r, count.value, fill.value), count.value)
      ELSE Failed(c, r)

\* INCBIN: the file is read in each pass.
Incbin(c, r, l) ==
  Written(c, r, IF Count(l) = 1 /\ binSize # Missing THEN Emit(Data(binSize)) ELSE Refuse)

MissingOperand(l) == \E i \in DOMAIN l.operands : l.operands[i].form = "missing"

AfterEqu(q, r) == [ok |-> q.ok, ctx |-> q.ctx, ram |-> r]

\* The line after its labels.
Directive(c, r, l) ==
  CASE l.op = "" -> Done(c, r)
    [] l.op # "" /\ MissingOperand(l) -> Failed(c, r)
    [] l.op = "EQU" /\ ~MissingOperand(l) -> AfterEqu(Equ(c, l), r)
    [] l.op = "ORG" /\ ~MissingOperand(l) -> Org(c, r, l)
    [] l.op = "DB" /\ ~MissingOperand(l) -> Written(c, r, DataLine(c, l, "byte"))
    [] l.op = "DW" /\ ~MissingOperand(l) -> Written(c, r, DataLine(c, l, "word"))
    [] l.op = "DS" /\ ~MissingOperand(l) -> Defs(c, r, l)
    [] l.op = "INCBIN" /\ ~MissingOperand(l) -> Incbin(c, r, l)
    [] OTHER -> Written(c, r, Encode(c, l))

AfterLabels(d, r, l) ==
  IF d.ok THEN Directive(d.ctx, r, ReadOperands(d.ctx, l)) ELSE Failed(d.ctx, r)

AssembleLine(c, r, l) == AfterLabels(DefineLabels(c, l.labels), r, l)

-----------------------------------------------------------------------------
(* The build.                                                              *)

Text(file) == project.text[file]
\* lines holds the prepared source; stack the files being expanded with the
\* line each has come to, in ORG's scan and the passes line is the next one.
IdleJob == [phase |-> "idle", command |-> "none", stack |-> <<>>, lines |-> <<>>,
         line |-> 1, start |-> Nowhere, result |-> "none"]
NoHistory == [at |-> <<>>, bytes |-> <<>>, steady |-> TRUE]

\* app_assembler_write_tap_file: a header with the length and the address to
\* load at, and the block.
TapeFile(out) == [start |-> out.start, length |-> Len(out.bytes), bytes |-> out.bytes]

InitAssembler ==
  /\ project \in Projects
  /\ binSize \in project.binSizes
  /\ ram = [a \in Places |-> [kind |-> "old", value |-> 0]]
  /\ job = IdleJob
  /\ ctx = NewContext(0)
  /\ tape = TapeFile(NoOutput)
  /\ running = Nowhere
  /\ history = NoHistory

Finish(result) == job' = [IdleJob EXCEPT !.result = result]

\* app_assembler_apply_source, app_assembler_export_tap and
\* app_assembler_prepare_source: an empty document is not built.
StartBuild(command) ==
  /\ job.phase = "idle"
  /\ IF Text(project.root) = <<>> THEN Finish("error")
     ELSE job' = [IdleJob EXCEPT !.phase = "expand", !.command = command,
                              !.stack = <<[file |-> project.root, line |-> 1]>>]
  /\ history' = NoHistory
  /\ UNCHANGED <<project, binSize, ram, ctx, tape, running>>

\* Mutant: coming back from an INCLUDE leaves the next line out.
Advance_Twice(stack) ==
  [stack EXCEPT ![Len(stack)].line = @ + IF Len(stack) > 1 THEN 2 ELSE 1]

Advance(stack) == [stack EXCEPT ![Len(stack)].line = @ + 1]

\* A document without a path is not on the stack of included files.
Open(stack) == {stack[i].file : i \in (IF project.saved THEN 1 ELSE 2)..Len(stack)}

FileName(l) == Lhs(l).e.atoms[1].name

\* app_assembler_expand_source, an INCLUDE line; its labels go with it.
Include(l) ==
  LET file == FileName(l)
  IN  IF Count(l) # 1 \/ file \notin DOMAIN project.text \/ file \in Open(job.stack)
         \/ Cardinality(Open(job.stack)) + 1 >= MaxDepth
      THEN Finish("error")
      ELSE job' = [job EXCEPT !.stack = Append(Advance(@), [file |-> file, line |-> 1])]

\* Only the first two operands are looked at before the passes.
Malformed(l) == \E i \in {1, 2} : OperandOf(l, i).form = "missing"

\* app_assembler_expand_source, one line or the end of a file.
Expand ==
  /\ job.phase = "expand"
  /\ LET top == Last(job.stack)
         ended == top.line > Len(Text(top.file))
         l == Text(top.file)[top.line]
     IN  \/ /\ ended /\ Len(job.stack) > 1
            /\ job' = [job EXCEPT !.stack = Front(@)]
            /\ UNCHANGED ctx
         \/ /\ ended /\ Len(job.stack) = 1
            /\ job' = [job EXCEPT !.phase = "scan", !.stack = <<>>]
            /\ ctx' = NewContext(0)
         \/ /\ ~ended /\ l.op # "" /\ Malformed(l)
            /\ Finish("error") /\ UNCHANGED ctx
         \/ /\ ~ended /\ ~Malformed(l) /\ l.op = "INCLUDE"
            /\ Include(l) /\ UNCHANGED ctx
         \/ /\ ~ended /\ (l.op = "" \/ (~Malformed(l) /\ l.op # "INCLUDE"))
            /\ job' = [job EXCEPT !.stack = Advance(@), !.lines = Append(@, l)]
            /\ UNCHANGED ctx
  /\ UNCHANGED <<project, binSize, ram, tape, running, history>>

BeginPasses(start) ==
  /\ job' = [job EXCEPT !.phase = "pass", !.line = 1, !.start = start]
  /\ ctx' = NewContext(start)

\* app_assembler_find_source_org, one line: labels are at 0 until the first
\* ORG, which gives the address of the build.  Without one, or with a symbol
\* defined twice before it, the build starts at the PC.
BeginAtPc == \E pc \in ProgramCounters : BeginPasses(pc)
NextLine(c) == job' = [job EXCEPT !.line = @ + 1] /\ ctx' = c
ScanDirective(c, l) ==
  CASE l.op = "EQU" /\ ~MissingOperand(l) -> Equ(c, l)
    [] l.op = "EQU" /\ MissingOperand(l) -> [ok |-> FALSE, ctx |-> c]
    [] OTHER -> [ok |-> TRUE, ctx |-> c]
IsOrg(l) == l.op = "ORG" /\ Lhs(l).value.ok /\ Lhs(l).value.resolved
              /\ Lhs(l).value.value \in Places
ScanRead(q, l) ==
  \/ ~q.ok /\ BeginAtPc
  \/ q.ok /\ IsOrg(l) /\ BeginPasses(Lhs(l).value.value)
  \/ q.ok /\ ~IsOrg(l) /\ NextLine(q.ctx)
ScanUnlabelled(c, l) == ScanRead(ScanDirective(c, l), l)
ScanLine(d, l) ==
  \/ ~d.ok /\ BeginAtPc
  \/ d.ok /\ ScanUnlabelled(d.ctx, ReadOperands(d.ctx, l))

ScanOrg ==
  /\ job.phase = "scan"
  /\ \/ job.line > Len(job.lines) /\ BeginAtPc
     \/ /\ job.line <= Len(job.lines)
        /\ ScanLine(DefineLabels(ctx, job.lines[job.line].labels), job.lines[job.line])
  /\ UNCHANGED <<project, binSize, ram, tape, running, history>>

\* The address of a line of pass 2 and what it wrote.
Recorded(w, n) ==
  [history EXCEPT
     !.at = Append(@, ctx.address),
     !.bytes = Append(@, [b \in 1..n |->
                            IF ctx.target = "tape"
                            THEN w.ctx.output.bytes[Len(w.ctx.output.bytes) - n + b]
                            ELSE w.ram[ctx.address + b - 1]])]

\* app_assemble_source, one line of a pass.
AfterLine(w) ==
  /\ ram' = w.ram
  /\ ctx' = w.ctx
  /\ \/ ~w.ok /\ Finish("error")
     \/ w.ok /\ job' = [job EXCEPT !.line = @ + 1]
  /\ history' = IF ctx.pass = 2 /\ w.ok THEN Recorded(w, w.ctx.total - ctx.total)
                ELSE history
Assemble ==
  /\ job.phase = "pass" /\ job.line <= Len(job.lines)
  /\ AfterLine(AssembleLine(ctx, ram, job.lines[job.line]))
  /\ UNCHANGED <<project, binSize, tape, running>>

\* app_assembler_export_tap after the passes: it may be cancelled, and the
\* file is written whole or not at all.
ExportTape ==
  \/ Finish("error") /\ UNCHANGED tape
  \/ /\ ctx.output.bytes # <<>>
     /\ Finish("ok") /\ tape' = TapeFile(ctx.output)

\* The rest of app_assemble_source between and after the passes, and of
\* app_assembler_apply_source: a program is run from the address the scan
\* found.
EndPass ==
  /\ job.phase = "pass" /\ job.line > Len(job.lines)
  /\ \/ /\ ctx.pass = 1
        /\ ctx' = [ctx EXCEPT !.pass = 2, !.address = job.start, !.exhausted = FALSE,
                              !.total = 0,
                              !.target = IF job.command = "export" THEN "tape" ELSE "machine"]
        /\ job' = [job EXCEPT !.line = 1]
        /\ UNCHANGED <<tape, running>>
     \/ /\ ctx.pass = 2 /\ job.command # "export"
        /\ Finish("ok")
        /\ running' = IF job.command = "run" THEN job.start ELSE running
        /\ UNCHANGED <<ctx, tape>>
     \/ /\ ctx.pass = 2 /\ job.command = "export"
        /\ ExportTape
        /\ UNCHANGED <<ctx, running>>
  /\ UNCHANGED <<project, binSize, ram, history>>

\* Another program replaces the binary file while a build goes on.
ReplaceBinary ==
  /\ job.phase = "pass"
  /\ \E size \in project.binSizes \ {binSize} : binSize' = size
  /\ history' = [history EXCEPT !.steady = FALSE]
  /\ UNCHANGED <<project, ram, job, ctx, tape, running>>

NextAssembler ==
  \/ Expand \/ ScanOrg \/ Assemble \/ EndPass \/ ReplaceBinary
  \/ \E command \in {"assemble", "run", "export"} : StartBuild(command)

SpecAssembler == InitAssembler /\ [][NextAssembler]_assemblerVars

-----------------------------------------------------------------------------
(* Properties.                                                             *)

BytesType == [kind : {"old", "code", "low", "high", "byte", "data", "port", "relative",
                      "displacement"}, value : Int]

\* What the build keeps is well formed: addresses within memory, tables
\* within their size, an entry of each table under one name only.
AssemblerTypeOK ==
  /\ project \in Projects /\ binSize \in project.binSizes
  /\ \A a \in Places : ram[a] \in BytesType
  /\ job.phase \in {"idle", "expand", "scan", "pass"}
  /\ job.command \in {"none", "assemble", "run", "export"}
  /\ job.line \in 1..(Len(job.lines) + 1) /\ job.start \in Places \cup {Nowhere}
  /\ Len(job.stack) <= MaxDepth
  /\ ctx.pass \in {1, 2} /\ ctx.address \in Places /\ ctx.exhausted \in BOOLEAN
  /\ ctx.target \in {"none", "machine", "tape"} /\ ctx.total \in Nat
  /\ \A n \in DOMAIN ctx.labels : ctx.labels[n] \in Places
  /\ \A n \in DOMAIN ctx.constants : ctx.constants[n] \in Int
  /\ DOMAIN ctx.labels \cap DOMAIN ctx.constants = {}
  /\ Cardinality(DOMAIN ctx.labels) <= MaxLabels
  /\ Cardinality(DOMAIN ctx.constants) <= MaxLabels
  /\ ctx.output.start \in Places \cup {Nowhere} /\ tape.length = Len(tape.bytes)
  /\ running \in Places \cup {Nowhere}

Assembled == job.phase = "pass" /\ ctx.pass = 2 /\ job.line > Len(job.lines)

\* The line whose bytes stand where a label does: the first that has any, at
\* the label's line or after it, with no ORG between.
LabelLine(name) == CHOOSE i \in DOMAIN job.lines : name \in ToSet(job.lines[i].labels)
Targets(name) ==
  {j \in LabelLine(name)..Len(job.lines) :
     /\ history.bytes[j] # <<>>
     /\ \A i \in LabelLine(name)..j : job.lines[i].op # "ORG"
     /\ \A i \in LabelLine(name)..(j - 1) : history.bytes[i] = <<>>}

\* References go where their label's line was put: in a finished build the
\* word of JP and the displacement of JR lead to the first byte after the
\* label, forward or back, whatever INCBIN read in the pass before.
JumpsLand ==
  Assembled =>
    \A i \in DOMAIN job.lines, name \in DOMAIN ctx.labels :
      LET l == job.lines[i] bytes == history.bytes[i]
      IN  l.op \in {"JP", "JR"} /\ Count(l) = 1 /\ Is(Lhs(l), name) =>
            \A j \in Targets(name) :
              IF l.op = "JP" THEN bytes[2] = Low(history.at[j])
              ELSE bytes[2].value + history.at[i] + 2 = history.at[j]

\* A tape loads as the program was assembled: one block, every byte of every
\* line at the distance from its start that the line's address has.
TapeLoadsInPlace ==
  ctx.target = "tape" /\ (job.phase = "pass" \/ job.result = "ok") =>
    /\ \A i \in DOMAIN history.at : \A b \in DOMAIN history.bytes[i] :
         LET place == history.at[i] - ctx.output.start + b
         IN  /\ place \in DOMAIN ctx.output.bytes
             /\ ctx.output.bytes[place] = history.bytes[i][b]
    /\ Len(ctx.output.bytes) = ctx.total

\* Code is where its references and its tape block take it to be.
LandsInPlace == JumpsLand /\ TapeLoadsInPlace

\* What is prepared is the text of the program with each INCLUDE line
\* replaced by the lines of its file, in their order and however deep.
Pieces(text, flat) ==
  [i \in DOMAIN text |->
     IF text[i].op # "INCLUDE" THEN <<text[i]>>
     ELSE IF FileName(text[i]) \in DOMAIN flat THEN flat[FileName(text[i])] ELSE <<>>]
Flattened ==
  LET flat[depth \in 0..(MaxDepth + 1)] ==
        [file \in DOMAIN project.text |->
           IF depth = 0 THEN <<>> ELSE FlattenSeq(Pieces(Text(file), flat[depth - 1]))]
  IN  flat[MaxDepth + 1][project.root]
IncludesInPlace == job.phase \in {"scan", "pass"} => job.lines = Flattened

\* Memory changes by whole lines of the second pass, never by pass 1, an
\* export or an expansion: the first pass has found every line that does not
\* fit, DEFS that would be refused between two of its chunks included, unless
\* the file of INCBIN changed its size.
RefusedWritesNothing ==
  [][ram' # ram => /\ job.phase = "pass" /\ ctx.pass = 2 /\ job.command # "export"
                   /\ history.steady => job'.line = job.line + 1]_assemblerVars
=============================================================================
