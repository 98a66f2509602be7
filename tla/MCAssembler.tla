---------------------------- MODULE MCAssembler ----------------------------
(* Constants of the model-checking run of Assembler: memory of 24 bytes     *)
(* with ROM in the first 4, and programs that hold every form of every      *)
(* instruction.                                                            *)
EXTENDS Assembler

Lone(a)    == [atoms |-> <<a>>, operators |-> <<>>]
Num(n)     == Lone([kind |-> "number", name |-> "", value |-> n])
Here       == Lone([kind |-> "here", name |-> "", value |-> 0])
Two(x, op, y) == [atoms |-> x.atoms \o y.atoms, operators |-> x.operators \o <<op>> \o y.operators]
NoExpression == [atoms |-> <<>>, operators |-> <<>>]

Plain(e)   == [form |-> "plain", e |-> e, size |-> 0]
Name(n)    == Plain(Sym(n))
Imm(n)     == Plain(Num(n))
Paren(e)   == [form |-> "paren", e |-> e, size |-> 0]
Ix(e)      == [form |-> "IX", e |-> e, size |-> 0]
Iy(e)      == [form |-> "IY", e |-> e, size |-> 0]
Quoted(n)  == [form |-> "quoted", e |-> NoExpression, size |-> n]
Comma      == [form |-> "missing", e |-> Sym(""), size |-> 0]

Op(op, operands)         == [labels |-> <<>>, op |-> op, name |-> "", operands |-> operands]
At(label, l)             == [l EXCEPT !.labels = <<label>>]
Const(name, e)           == [Op("EQU", <<Plain(e)>>) EXCEPT !.name = name]
Nothing                  == Op("", <<>>)

Sizes == {Missing, 1, 3}
UsesBinary(text) == \E l \in ToSet(text) : l.op = "INCBIN"
Single(text) == [root |-> "main", saved |-> TRUE, text |-> [f \in {"main"} |-> text],
                 binSizes |-> IF UsesBinary(text) THEN Sizes ELSE {Missing}]
\* One line on its own, among lines that need both passes.
Around(l) == Single(<<Op("ORG", <<Imm(6)>>), Op("JP", <<Name("end")>>), l,
                      At("end", Op("NOP", <<>>))>>)

v == Name("end")
m == Paren(Sym("end"))
Z80nLines ==
  {Op("SWAPNIB", <<>>), Op("BSLA", <<Name("DE"), Name("B")>>), Op("MUL", <<Name("D")>>),
   Op("LDIRX", <<>>), Op("TEST", <<Imm(2)>>), Op("TEST", <<Name("A")>>),
   Op("NEXTREG", <<Imm(1), Name("A")>>), Op("NEXTREG", <<Imm(1), Imm(2)>>),
   Op("NEXTREG", <<Imm(1), Imm(99)>>), Op("JP", <<Paren(Sym("C"))>>),
   Op("ADD", <<Name("HL"), Name("A")>>), Op("ADD", <<Name("DE"), v>>),
   Op("PUSH", <<v>>), Op("PUSH", <<m>>)}
FlowLines ==
  {Op("RET", <<>>), Op("RET", <<Name("PE")>>), Op("RET", <<v>>), Op("RST", <<Imm(8)>>),
   Op("RST", <<Imm(9)>>), Op("DJNZ", <<v>>), Op("DJNZ", <<Imm(0)>>), Op("JR", <<v>>),
   Op("JR", <<Name("NC"), v>>), Op("JR", <<Name("PO"), v>>), Op("JP", <<Paren(Sym("HL"))>>),
   Op("JP", <<Ix(NoExpression)>>), Op("JP", <<Name("M"), v>>), Op("JP", <<v, v>>),
   Op("CALL", <<v>>), Op("CALL", <<Name("Z"), v>>), Op("CALL", <<m>>),
   Op("HALT", <<Imm(0)>>), Op("LDIR", <<>>), Op("RETX", <<>>)}
DataLines ==
  {Op("DB", <<Imm(1), Quoted(2)>>), Op("DB", <<Quoted(9)>>), Op("DB", <<>>),
   Op("DB", <<Imm(1), Comma>>), Op("DB", <<Imm(99)>>), Op("DB", <<v>>), Op("DW", <<v, Plain(Here)>>),
   Op("DW", <<m>>), Op("DS", <<Imm(5)>>), Op("DS", <<Imm(3), v>>), Op("DS", <<v>>),
   Op("DS", <<Imm(-1)>>), Op("DS", <<Imm(14)>>), Op("INCBIN", <<Name("bin")>>),
   Op("INCBIN", <<>>), Op("ORG", <<v>>), Op("ORG", <<Imm(12)>>), Op("ORG", <<Imm(9)>>)}
RegisterLines ==
  {Op("BIT", <<Imm(7), Paren(Sym("HL"))>>), Op("SET", <<Imm(1), Ix(Num(1))>>),
   Op("RES", <<Imm(8), Name("A")>>), Op("BIT", <<Imm(0), Iy(Num(9))>>),
   Op("OUT", <<Paren(Num(1)), Name("A")>>), Op("OUT", <<Ix(Num(1)), Name("A")>>),
   Op("IN", <<Name("A"), Paren(Sym("C"))>>), Op("IN", <<Name("A"), Paren(Num(2))>>),
   Op("IN", <<Name("B"), Paren(Num(2))>>), Op("PUSH", <<Name("AF")>>), Op("POP", <<Name("IX")>>),
   Op("PUSH", <<Name("SP")>>), Op("INC", <<Name("SP")>>), Op("DEC", <<Ix(NoExpression)>>),
   Op("INC", <<Name("IY")>>), Op("DEC", <<v>>), Op("EX", <<Name("DE"), Name("HL")>>),
   Op("EX", <<Paren(Sym("SP")), Name("HL")>>), Op("EX", <<Paren(Sym("SP")), Name("IX")>>),
   Op("EX", <<Name("HL"), Name("DE")>>), Op("ADC", <<Name("A"), Name("B")>>),
   Op("ADC", <<Name("A"), Iy(v.e)>>), Op("ADD", <<Name("A"), Imm(3)>>),
   Op("ADD", <<Name("HL"), Name("SP")>>), Op("ADD", <<Name("IX"), Name("IX")>>),
   Op("ADD", <<Name("IX"), Name("HL")>>), Op("SUB", <<Name("L")>>), Op("CP", <<Imm(3)>>),
   Op("XOR", <<Name("A"), Name("A")>>), Op("AND", <<Name("IXH")>>)}
LdLines ==
  {Op("LD", <<Name("SP"), Name("HL")>>), Op("LD", <<Name("SP"), Name("IX")>>),
   Op("LD", <<Name("BC"), v>>), Op("LD", <<Name("IY"), v>>), Op("LD", <<Name("HL"), Name("BC")>>),
   Op("LD", <<Name("B"), Ix(Num(1))>>), Op("LD", <<Iy(Num(-1)), Name("H")>>),
   Op("LD", <<Ix(NoExpression), Imm(2)>>), Op("LD", <<Ix(Num(1)), Name("HL")>>),
   Op("LD", <<Name("A"), Name("R")>>), Op("LD", <<m, Name("A")>>), Op("LD", <<Name("HL"), m>>),
   Op("LD", <<m, Name("IY")>>), Op("LD", <<Name("SP"), m>>), Op("LD", <<m, Name("DE")>>),
   Op("LD", <<Name("HL"), Ix(Num(1))>>), Op("LD", <<Paren(Sym("BC")), Name("A")>>),
   Op("LD", <<Name("A"), Paren(Sym("DE"))>>), Op("LD", <<Paren(Sym("HL")), Paren(Sym("HL"))>>),
   Op("LD", <<Name("B"), Paren(Sym("HL"))>>), Op("LD", <<Paren(Sym("HL")), Imm(3)>>),
   Op("LD", <<Name("A"), Name("IXH")>>), Op("LD", <<Name("A")>>),
   Op("LD", <<Name("A"), Imm(1), Imm(2)>>)}

\* Symbols, expressions, ORG and the end of memory.
Layouts ==
  {<<At("a", Op("ORG", <<Plain(Two(Sym("a"), "+", Num(6)))>>)), At("b", Op("JR", <<Name("b")>>))>>,
   <<Const("n", Two(Num(2), "+", Two(Num(3), "*", Num(2)))), Op("ORG", <<Name("n")>>),
     Op("JP", <<Name("x")>>), Op("DS", <<Plain(Two(Num(6), "&", Num(3)))>>),
     At("x", Op("JR", <<Name("x")>>))>>,
   <<Op("ORG", <<Imm(22)>>), At("p", Op("DW", <<Name("q")>>)), At("q", Nothing)>>,
   <<Op("ORG", <<Imm(21)>>), Op("JP", <<Name("q")>>), At("q", Op("NOP", <<>>))>>,
   <<Op("ORG", <<Imm(22)>>), Op("DB", <<Imm(1), Imm(2)>>), Op("ORG", <<Imm(4)>>),
     At("q", Op("JR", <<Name("q")>>))>>,
   <<Op("NOP", <<>>), At("a", Op("NOP", <<>>)), Op("ORG", <<Imm(8)>>), Op("JP", <<Name("a")>>)>>,
   <<At("a", Op("NOP", <<>>)), At("a", Op("NOP", <<>>))>>,
   <<Const("a", Num(1)), At("a", Op("NOP", <<>>))>>,
   <<At("a", Const("a", Num(1)))>>, <<Const("a", Num(1)), Const("a", Num(1))>>,
   <<Const("c", Sym("later")), At("later", Op("NOP", <<>>))>>,
   <<Const("big", Two(Num(40), "*", Num(40))), Op("NOP", <<>>)>>,
   <<At("a", Nothing), At("b", Nothing), At("c", Nothing), At("d", Nothing), At("e", Nothing)>>,
   <<Op("JR", <<Name("e")>>), Op("DS", <<Imm(1)>>), Op("INCBIN", <<Name("bin")>>), At("e", Op("JP", <<Name("e")>>))>>,
   <<Op("ORG", <<Imm(6)>>), Op("INCBIN", <<Name("bin")>>), Const("n", Here), Op("NOP", <<>>)>>,
   <<Op("ORG", <<Imm(9)>>), Op("DS", <<Imm(16)>>)>>,
   <<Op("ORG", <<Imm(18)>>), Op("INCBIN", <<Name("bin")>>), Op("DS", <<Imm(4)>>)>>,
   <<Op("DS", <<Imm(2)>>), Op("ORG", <<Imm(40)>>)>>, <<Nothing>>, <<>>}

File(f) == Name(f)
Inc(f) == Op("INCLUDE", <<File(f)>>)
Nop == Op("NOP", <<>>)
WithFiles(saved, main, a, b) ==
  [root |-> "main", saved |-> saved, binSizes |-> {Missing},
   text |-> [f \in {"main", "a", "b"} |-> CASE f = "main" -> main [] f = "a" -> a [] f = "b" -> b]]
Includes ==
  {WithFiles(TRUE, <<Op("JP", <<Name("z")>>), Inc("a"), Inc("b"), At("z", Nop)>>,
             <<Inc("b"), Nop>>, <<Op("JR", <<Name("z")>>)>>),
   WithFiles(FALSE, <<Nop, Inc("a")>>, <<Inc("b")>>, <<Inc("a")>>),
   WithFiles(TRUE, <<Nop, Inc("a")>>, <<Inc("main")>>, <<Nop>>),
   WithFiles(FALSE, <<Inc("a"), Nop>>, <<Nop, Inc("b"), Nop>>, <<Nop>>),
   WithFiles(FALSE, <<Inc("a")>>, <<Inc("main")>>, <<Nop>>),
   WithFiles(TRUE, <<At("x", Inc("a")), Op("JP", <<Name("x")>>)>>, <<Nop>>, <<Nop>>),
   WithFiles(TRUE, <<Inc("gone")>>, <<Nop>>, <<Nop>>),
   WithFiles(TRUE, <<Op("INCLUDE", <<File("a"), File("b")>>)>>, <<Nop>>, <<Nop>>),
   WithFiles(TRUE, <<Op("DB", <<Imm(1), Comma>>)>>, <<Nop>>, <<Nop>>)}

AllProjects ==
  {Around(l) : l \in Z80nLines \cup FlowLines \cup DataLines \cup RegisterLines \cup LdLines}
  \cup {Single(text) : text \in Layouts} \cup Includes

Ranges ==
  [byte |-> -8..15, word |-> -32..63, address |-> 0..23, port |-> 0..7,
   relative |-> -8..7, displacement |-> -8..7]
=============================================================================
