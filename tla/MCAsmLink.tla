------------------------------- MODULE MCAsmLink -------------------------------
EXTENDS AsmLink

Line(label, op, args) == [label |-> IF label = "" THEN None ELSE Name(label), op |-> op, args |-> args, cp |-> ""]
Cp(l) == [l EXCEPT !.cp = "p"]
Area(a) == Line("", "area", <<Sym(a)>>)
Local == [base |-> "Q", id |-> Mark]

MCMains ==
    {<<Area("_BIOS"), Line("", "org", <<Num(24)>>), Line("B", "two", <<Sym("X")>>), Area("_CODE"),
       Line("G", "one", <<Sym("G")>>), Line("", "globl", <<Sym("G"), Sym("X"), Sym("B")>>),
       Line("D", "dw", <<Sym("B"), Sym("G")>>), Area("_DATA"), Line("", "dw", <<Sym("D")>>)>>,
     <<Line("", "globl", <<Sym("G"), Sym("s__DATA")>>), Line("", "org", <<Num(24)>>),
       Line("G", "two", <<Sym("s__DATA")>>), Area("_VECTOR"), Line("", "dw", <<Num(7), Sym("G")>>),
       Area("_WORK"), Line("W", "ds", <<Num(2)>>), Area("_DATA"), Line("", "dw", <<Sym("W")>>)>>}

MacroM == <<Line("", "macro", <<Sym("M"), Sym("P")>>),
            [Line("", "one", <<[Sym("") EXCEPT !.sym = Local]>>) EXCEPT !.label = Local],
            Line("", "dw", <<Sym("P"), [Sym("P") EXCEPT !.off = 1]>>), Line("", "endm", <<>>)>>
Globl == Line("", "globl", <<Sym("G"), Sym("X"), Sym("s__DATA")>>)
MCBeginnings ==
    {<<Globl, Line("K", "equ", <<Num(5)>>), Line("X", "one", <<Sym("X")>>)>>,
     <<Globl, Area("_SYS_PAGE0"), Line("Z", "ds", <<Num(2)>>), Area("_DATA"), Line("X", "dw", <<Sym("G")>>)>>,
     MacroM \o <<Globl, Line("X", "call", <<Sym("M"), Sym("X")>>),
                  Line("", "rept", <<Num(2)>>), Line("", "call", <<Sym("M"), Num(1)>>), Line("", "endm", <<>>)>>,
     <<Globl, Area("_WORK"), Line("W", "blkw", <<Num(3)>>), Area("_CODE"),
       Line("C", "dw", <<Text(2)>>), Line("X", "two", <<Sym("W")>>)>>}

MCLines ==
    {Area("_DATA"), Area("_BIOS"),
     Line("A", "two", <<Sym("G")>>),
     Line("A", "dw", <<Sym("X"), Operand("len", Name("C"), 0)>>),
     Cp(Line("", "blkw", <<Sym("K")>>)),
     Cp(Line("", "", <<>>)),
     Line("F", "dw", <<Sym("s__DATA"), [Sym("X") EXCEPT !.sub = Name("W")]>>),
     Line("", "one", <<[Sym("Z") EXCEPT !.form = "star"]>>),
     Line("", "three", <<Num(9), Sym("A")>>),
     Line("", "ai", <<Num(20)>>),
     Line("", "call", <<Sym("M"), Sym("A")>>),
     Line("", "org", <<Num(40)>>)}
=============================================================================
