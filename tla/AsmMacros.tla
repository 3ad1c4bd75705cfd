------------------------------ MODULE AsmMacros ------------------------------
(***************************************************************************)
(* Macro and repeat expansion, which runs over the source before the two   *)
(* passes (retrocpu_asm_ts: macros.ts).  A call is a line with op "call"    *)
(* whose first operand names the macro; the mark ? of a local name is the   *)
(* id Mark, which an expansion replaces by its own number.                   *)
(***************************************************************************)
EXTENDS Assembler

CONSTANTS
  MaxDepth,   \* MAX_EXPAND_DEPTH: expansions inside each other
  MaxPasses   \* MAX_PASSES: rounds of expansion

Mark == -1
Opens == {"macro", "rept", "irp"}

(* The .endm that closes the block opened at line i, {} when none does.     *)
Count(lines, i, j, ops) == Cardinality({k \in i..j : lines[k].op \in ops})
Closes(lines, i) ==
    LET balanced == {j \in i..Len(lines) : Count(lines, i, j, Opens) = Count(lines, i, j, {"endm"})}
    IN  {j \in balanced : \A k \in balanced : j <= k}
Close(lines, i) == CHOOSE j \in Closes(lines, i) : TRUE
Body(lines, i) == SubSeq(lines, i + 1, Close(lines, i) - 1)
TopLevel(lines, i) == Count(lines, 1, i - 1, Opens) = Count(lines, 1, i - 1, {"endm"})

(* The macros defined outside every block, and the source without them.     *)
Definitions(lines) == {i \in DOMAIN lines : lines[i].op = "macro" /\ TopLevel(lines, i)}
MacroName(lines, i) == lines[i].args[1].sym
WellFormed(lines) ==
    /\ \A i \in DOMAIN lines : TopLevel(lines, i) => lines[i].op # "endm"
    /\ \A i \in DOMAIN lines : TopLevel(lines, i) /\ lines[i].op \in Opens => Closes(lines, i) # {}
    /\ \A i, j \in Definitions(lines) : MacroName(lines, i) = MacroName(lines, j) => i = j
MacroTable(lines) ==
    [n \in {MacroName(lines, i) : i \in Definitions(lines)} |->
       LET i == CHOOSE k \in Definitions(lines) : MacroName(lines, k) = n
       IN  [formals |-> Tail(lines[i].args), body |-> Body(lines, i)]]
WithoutDefinitions(lines) ==
    LET gone == UNION {i..Close(lines, i) : i \in Definitions(lines)}
    IN  FoldLeftDomain(LAMBDA q, i : IF i \in gone THEN q ELSE Append(q, lines[i]), <<>>, lines)

(* One line of a body: the actual operands for the formal ones, and the     *)
(* number of this expansion for every ? that is still there.                 *)
Marked(n, id) == IF n.id = Mark THEN [n EXCEPT !.id = id] ELSE n
Bound(o, formals, actuals, id) ==
    LET ks == {k \in DOMAIN formals : formals[k].sym = o.sym /\ o.sym # None}
        k == CHOOSE x \in ks : TRUE
        given == IF ks = {} THEN o
                 ELSE IF k \in DOMAIN actuals THEN [actuals[k] EXCEPT !.off = @ + o.off]
                 ELSE Num(o.off)
    IN  [given EXCEPT !.sym = Marked(@, id), !.sub = Marked(@, id)]
Instance(l, formals, actuals, id) ==
    [l EXCEPT !.label = Marked(@, id),
              !.args = [k \in DOMAIN @ |-> Bound(@[k], formals, actuals, id)]]
CutAtExit(body) ==
    LET exits == {i \in DOMAIN body : body[i].op = "mexit"}
    IN  IF exits = {} THEN body
        ELSE SubSeq(body, 1, (CHOOSE i \in exits : \A j \in exits : i <= j) - 1)

(* A label on a call goes to the first line the call leaves.                 *)
LabelOnly(n) == [label |-> n, op |-> "", args |-> <<>>, cp |-> ""]
WithLabel(n, out) ==
    CASE n = None -> out
      [] out = <<>> \/ Head(out).label # None \/ Head(out).op = "" -> <<LabelOnly(n)>> \o out
      [] OTHER -> [out EXCEPT ![1].label = n]

(* Expansion carries the number of the last expansion through the lines.    *)
RECURSIVE ExpandLines(_, _, _, _)
ExpandOnce(body, formals, actuals, id, depth, table) ==
    LET cut == CutAtExit(body)
    IN  ExpandLines([i \in DOMAIN cut |-> Instance(cut[i], formals, actuals, id + 1)],
                    depth + 1, id + 1, table)

RepeatedOneNumber(body, formals, rows, id, depth, table) ==
    FoldLeft(LAMBDA r, row :
               LET x == ExpandOnce(body, formals, row, id, depth, table)
               IN  [out |-> r.out \o x.out, id |-> x.id, ok |-> r.ok /\ x.ok],
             [out |-> <<>>, id |-> id, ok |-> TRUE], rows)
Repeated(body, formals, rows, id, depth, table) ==
    FoldLeft(LAMBDA r, row :
               LET x == ExpandOnce(body, formals, row, r.id, depth, table)
               IN  [out |-> r.out \o x.out, id |-> x.id, ok |-> r.ok /\ x.ok],
             [out |-> <<>>, id |-> id, ok |-> TRUE], rows)
Rows(l) ==
    IF l.op = "rept" THEN [k \in 1..l.args[1].off |-> <<>>]
    ELSE [k \in 1..(Len(l.args) - 1) |-> <<l.args[k + 1]>>]
ExpandLines(lines, depth, id, table) ==
    LET l == Head(lines)
        macro == table[l.args[1].sym]
        block == l.op \in {"rept", "irp"}
        known == l.op = "call" /\ l.args[1].sym \in DOMAIN table
        first ==
          CASE block /\ Closes(lines, 1) # {} ->
                 Repeated(Body(lines, 1), IF l.op = "irp" THEN <<l.args[1]>> ELSE <<>>, Rows(l),
                          id, depth, table)
            [] known /\ Len(l.args) - 1 <= Len(macro.formals) ->
                 LET x == ExpandOnce(macro.body, macro.formals, Tail(l.args), id, depth, table)
                 IN  [x EXCEPT !.out = WithLabel(l.label, @)]
            [] block \/ known \/ l.op = "mexit" -> [out |-> <<>>, id |-> id, ok |-> FALSE]
            [] OTHER -> [out |-> <<l>>, id |-> id, ok |-> TRUE]
        rest == ExpandLines(IF block /\ first.ok THEN SubSeq(lines, Close(lines, 1) + 1, Len(lines))
                            ELSE Tail(lines), depth, first.id, table)
    IN  IF lines = <<>> THEN [out |-> <<>>, id |-> id, ok |-> depth <= MaxDepth]
        ELSE IF depth > MaxDepth \/ ~first.ok THEN [out |-> <<>>, id |-> id, ok |-> FALSE]
        ELSE [out |-> first.out \o rest.out, id |-> rest.id, ok |-> rest.ok]

(* Definitions inside a body appear when it is expanded: pass after pass,   *)
(* each numbering from 1, until nothing changes.                             *)
RECURSIVE ExpandPasses(_, _)
ExpandPasses(lines, pass) ==
    LET x == ExpandLines(WithoutDefinitions(lines), 0, 0, MacroTable(lines))
    IN  IF pass > MaxPasses \/ ~WellFormed(lines) THEN [ok |-> FALSE, out |-> <<>>]
        ELSE IF ~x.ok THEN [ok |-> FALSE, out |-> <<>>]
        ELSE IF x.out = lines THEN [ok |-> TRUE, out |-> lines]
        ELSE ExpandPasses(x.out, pass + 1)
ExpandMacros(source) == ExpandPasses(source, 1)
=============================================================================
