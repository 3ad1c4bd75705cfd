------------------------------ MODULE Assembler ------------------------------
(***************************************************************************)
(* The two passes of the assembler and the object file it writes          *)
(* (retrocpu_asm_ts: assembler.ts, expression.ts, checkpoint.ts,           *)
(* relWriter.ts), for both CPUs.  A source is a sequence of lines          *)
(*   [label, op, args, cp, nested]                                         *)
(* and an operand a record [form, sym, sub, off], the value of             *)
(* sym - sub + off: what the parser leaves of one line.  Instructions are  *)
(* told apart only by their number of words and by what their operand      *)
(* becomes (a relative displacement, a page-0 byte, a whole word).         *)
(* Addresses count words on the MN1613 and bytes on the TMS9995.           *)
(***************************************************************************)
EXTENDS Integers, SequencesExt

Name(b) == [base |-> b, id |-> 0]
None == Name("")

Operand(form, sym, off) == [form |-> form, sym |-> sym, sub |-> None, off |-> off]
Num(n) == Operand("plain", None, n)
Sym(b) == Operand("plain", Name(b), 0)
Text(n) == Operand("text", None, n)

Word == 65536
Opcode == 32768
Step(cpu) == IF cpu = "tms9995" THEN 2 ELSE 1
Canonical(area) == IF area = "" THEN "_CODE" ELSE area

Known(o, symbols) == {o.sym, o.sub} \subseteq DOMAIN symbols \cup {None}
Value(o, symbols) ==
    LET V(n) == IF n \in DOMAIN symbols THEN symbols[n] ELSE 0
    IN  o.off + V(o.sym) - V(o.sub)

(* What a pass carries: the current area, the location counter of every    *)
(* area opened so far, the symbols, and in the second pass the words.       *)
Fresh == [cur |-> "", pc |-> "" :> 0, noload |-> {}, symbols |-> <<>>, symArea |-> <<>>,
          words |-> <<>>, relocs |-> {}, at |-> <<>>, bad |-> FALSE]
Failed(s) == [s EXCEPT !.bad = TRUE]
Here(s) == s.pc[s.cur]
Placed(s, n) == [s EXCEPT !.pc[s.cur] = n % Word]
Moved(s, n) == Placed(s, Here(s) + n)
Switched(s, a) ==
    [s EXCEPT !.cur = a.sym.base,
              !.pc = @ @@ (a.sym.base :> 0),
              !.noload = IF a.form = "noload" \/ a.sym.base = "_WORK"
                         THEN @ \cup {a.sym.base} ELSE @]
NoInit(s) == s.cur \in s.noload

Reserve(cpu, l, symbols) ==
    (Value(l.args[1], symbols) * IF l.op = "blkw" THEN Step(cpu) ELSE 1) % Word

(* len(label): the length of the strings of the .dw that follows the label. *)
AllText(l) == l.op = "dw" /\ \A k \in DOMAIN l.args : l.args[k].form = "text"
StringLens(lines) ==
    LET Length(l) == FoldLeft(LAMBDA n, o : n + o.off, 0, l.args)
        Names(i) ==
            {lines[j].label : j \in {k \in 1..i :
                lines[k].label # None /\ \A h \in k..(i - 1) : lines[h].op = ""}}
    IN  FoldLeftDomain(LAMBDA f, i : IF AllText(lines[i])
                                     THEN [n \in Names(i) |-> Length(lines[i])] @@ f ELSE f,
                       <<>>, lines)
GloblNames(lines) ==
    UNION {{lines[i].args[k].sym : k \in DOMAIN lines[i].args}
             : i \in {j \in DOMAIN lines : lines[j].op = "globl"}}
LensKnown(lines) ==
    \A i \in DOMAIN lines : \A k \in DOMAIN lines[i].args :
       lines[i].args[k].form = "len"
          => lines[i].args[k].sym \in DOMAIN StringLens(lines) \ GloblNames(lines)
LensReplaced(lines) ==
    LET lens == StringLens(lines)
        Arg(o) == IF o.form = "len" THEN Num(lens[o.sym]) ELSE o
    IN  [i \in DOMAIN lines |->
           [lines[i] EXCEPT !.args = [k \in DOMAIN @ |-> Arg(@[k])]]]

---------------------------------------------------------------------------
(* The first pass gives every label its address.  An expression may name a *)
(* symbol that is not defined yet: it then counts as 0.                     *)
Labelled(s, l) ==
    CASE l.label = None -> s
      [] l.label \in DOMAIN s.symbols -> Failed(s)
      [] OTHER -> [s EXCEPT !.symbols = (l.label :> Here(s)) @@ @,
                            !.symArea = (l.label :> Canonical(s.cur)) @@ @]
Chunks(n) == IF n <= 15 THEN 1 ELSE (n + 14) \div 15
DirectiveArgs(args) == Len(args)
DirectiveWords(args) ==
    FoldLeft(LAMBDA n, o : n + IF o.form = "text" THEN o.off ELSE 1, 0, args)
InstructionWords(cpu, l, symbols) ==
    CASE l.op = "one" -> 1
      [] l.op = "two" -> 2
      [] l.op = "three" -> 3
      [] l.op = "ai" -> IF cpu = "mn1613" THEN Chunks(Value(l.args[1], symbols)) ELSE 2
      [] OTHER -> 1
Size(cpu, l, symbols) ==
    Step(cpu) * IF l.op = "dw" THEN DirectiveWords(l.args)
                ELSE InstructionWords(cpu, l, symbols)

Pass1Line(cpu, s, l) ==
    LET t == IF l.op = "equ" THEN s ELSE Labelled(s, l)
    IN  CASE s.bad \/ t.bad -> Failed(s)
          [] l.op \in {"", "globl"} -> t
          [] l.op = "equ" ->
               [t EXCEPT !.symbols = (l.label :> Value(l.args[1], t.symbols)) @@ @]
          [] l.op = "org" -> Placed(t, Value(l.args[1], t.symbols))
          [] l.op = "area" -> Switched(t, l.args[1])
          [] l.op \in {"ds", "blkw"} ->
               IF Value(l.args[1], t.symbols) < 0 THEN Failed(t)
               ELSE Moved(t, Reserve(cpu, l, t.symbols))
          [] OTHER -> IF NoInit(t) THEN Failed(t) ELSE Moved(t, Size(cpu, l, t.symbols))
Pass1(cpu, lines) == FoldLeft(LAMBDA s, l : Pass1Line(cpu, s, l), Fresh, lines)

SymbolInfos(s, globl) ==
    [n \in DOMAIN s.symbols \cup globl |->
       IF n \notin DOMAIN s.symbols THEN [value |-> 0, kind |-> "external", area |-> ""]
       ELSE [value |-> s.symbols[n],
             kind |-> IF n \in globl THEN "global" ELSE "local",
             area |-> IF n \in DOMAIN s.symArea THEN s.symArea[n] ELSE ""]]

---------------------------------------------------------------------------
(* Which operands the linker has to complete: a plain symbol that is        *)
(* declared .globl, or a label of one of the areas the linker moves.        *)
Page0Areas == {"_SYS_PAGE0", "_USR_PAGE0"}
MovedAreas == {"_CODE", "_DATA", "_WORK"} \cup Page0Areas
Reloc(o, infos, moved) ==
    IF o.off # 0 \/ o.sub # None \/ o.sym \notin DOMAIN infos THEN {}
    ELSE LET i == infos[o.sym]
         IN  CASE i.kind # "local" -> {[by |-> "symbol", name |-> o.sym, area |-> ""]}
               [] i.kind = "local" /\ i.area \in moved ->
                    {[by |-> "area", name |-> None, area |-> i.area]}
               [] OTHER -> {}
AbsAddrReloc(o, infos) == IF o.form = "plain" THEN Reloc(o, infos, MovedAreas) ELSE {}
Page0StarReloc(o, infos) == IF o.form = "star" THEN Reloc(o, infos, Page0Areas) ELSE {}
MentionsExternal(o, infos) ==
    \E n \in {o.sym, o.sub} \cap DOMAIN infos : infos[n].kind = "external"

(* The bytes the object file holds where the linker adds an address: bytes  *)
(* on both CPUs, so twice the word address on the MN1613.                    *)
InBytes(cpu, n) == (IF cpu = "mn1613" THEN 2 * n ELSE n) % Word
PlaceholderInWords(cpu, r, v) == IF r.by = "symbol" THEN 0 ELSE v
Placeholder(cpu, r, v) == IF r.by = "symbol" THEN 0 ELSE InBytes(cpu, v)

EmitWord(s, i, v) ==
    [s EXCEPT !.words = Append(@, [area |-> Canonical(s.cur), address |-> Here(s),
                                   value |-> v % Word, line |-> i]),
              !.at = @ @@ (i :> [area |-> Canonical(s.cur), address |-> Here(s)])]
Relocated(s, r, low8, at) ==
    [s EXCEPT !.relocs = @ \cup {[by |-> r.by, name |-> r.name, from |-> r.area,
                                  area |-> Canonical(s.cur), address |-> at, low8 |-> low8]}]

EmitDw(cpu, symbols, infos, i, s, o) ==
    LET rel == AbsAddrReloc(o, infos)
    IN  CASE o.form = "text" ->
               FoldLeft(LAMBDA t, k : Moved(EmitWord(t, i, k), Step(cpu)), s,
                        [k \in 1..o.off |-> 64 + k])
          [] rel # {} ->
               LET r == CHOOSE x \in rel : TRUE
                   v == Placeholder(cpu, r, Value(o, symbols))
               IN  Moved(Relocated(EmitWord(s, i, v), r, FALSE, Here(s)), Step(cpu))
          [] MentionsExternal(o, infos) \/ ~Known(o, symbols) -> Failed(s)
          [] Value(o, symbols) \notin -32768..65535 -> Failed(s)
          [] OTHER -> Moved(EmitWord(s, i, Value(o, symbols)), Step(cpu))

(* What the encoders make of an operand: {} is a refused line.              *)
Displacement(cpu, target, pc) ==
    IF cpu = "mn1613" THEN {target - pc}
    ELSE {d \in -128..127 : 2 * d = target - (pc + 2)}
Encoded(cpu, l, pc, symbols) ==
    LET V(k) == Value(l.args[k], symbols)
    IN  CASE l.op \notin {"one", "two", "three", "ai"} -> {}
          [] \E k \in DOMAIN l.args : ~Known(l.args[k], symbols) -> {}
          [] l.op = "ai" /\ cpu = "mn1613" ->
               IF V(1) < 0 THEN {}
               ELSE {[k \in 1..Chunks(V(1)) |->
                        Opcode + IF k < Chunks(V(1)) THEN 15 ELSE V(1) - 15 * (k - 1)]}
          [] l.op = "one" /\ l.args = <<>> -> {<<Opcode>>}
          [] l.op = "one" /\ l.args[1].form = "star" ->
               {<<Opcode + V(1)>> : d \in {V(1)} \cap 0..255}
          [] l.op = "one" ->
               {<<Opcode + (d % 256)>> : d \in Displacement(cpu, V(1), pc) \cap -128..127}
          [] OTHER ->
               {<<Opcode>> \o [k \in DOMAIN l.args |-> V(k) % Word]}

FirstReloc(l, infos, Match(_, _)) ==
    LET ks == {k \in DOMAIN l.args : Match(l.args[k], infos) # {}}
    IN  IF ks = {} THEN {} ELSE Match(l.args[CHOOSE k \in ks : \A j \in ks : k <= j], infos)

(* The object word of the last word of an instruction that is completed.    *)
LastValue(cpu, r, v, target, low8) ==
    CASE ~low8 -> IF r.by = "symbol" THEN 0 ELSE InBytes(cpu, v)
      [] low8 -> (v \div 256) * 256 + IF r.by = "symbol" THEN 0 ELSE (target * 2) % 256

EmitInstruction(cpu, symbols, infos, i, s, l) ==
    LET all == symbols @@ [n \in {m \in DOMAIN infos : infos[m].kind = "external"} |-> 0]
        ws == Encoded(cpu, l, Here(s), all)
        w == CHOOSE x \in ws : TRUE
        low8 == Len(w) = 1
        rel == CASE ~low8 -> FirstReloc(l, infos, AbsAddrReloc)
                 [] low8 /\ cpu = "mn1613" -> FirstReloc(l, infos, Page0StarReloc)
                 [] OTHER -> {}
        r == CHOOSE x \in rel : TRUE
        last == Here(s) + (Len(w) - 1) * Step(cpu)
        v == IF rel = {} THEN w[Len(w)]
             ELSE LastValue(cpu, r, w[Len(w)], IF r.by = "area" THEN Value(l.args[1], all) ELSE 0, low8)
        t == FoldLeft(LAMBDA u, x : Moved(EmitWord(u, i, x), Step(cpu)), s,
                      [w EXCEPT ![Len(w)] = v])
    IN  IF ws = {} THEN Failed(s)
        ELSE IF rel = {} THEN t ELSE Relocated(t, r, low8, last)

Pass2Line(cpu, symbols, infos, s, i, l) ==
    LET strict == Known(l.args[1], symbols)
    IN  CASE s.bad \/ l.op \in {"", "equ", "globl"} -> s
          [] l.op = "org" -> IF strict THEN Placed(s, Value(l.args[1], symbols)) ELSE Failed(s)
          [] l.op = "area" -> Switched(s, l.args[1])
          [] l.op \in {"ds", "blkw"} ->
               IF ~strict \/ Value(l.args[1], symbols) < 0 THEN Failed(s)
               ELSE Moved([s EXCEPT !.at = @ @@ (i :> [area |-> Canonical(s.cur),
                                                       address |-> Here(s)])],
                          Reserve(cpu, l, symbols))
          [] NoInit(s) -> Failed(s)
          [] l.op = "dw" -> FoldLeft(LAMBDA t, o : EmitDw(cpu, symbols, infos, i, t, o), s, l.args)
          [] OTHER -> EmitInstruction(cpu, symbols, infos, i, s, l)
Pass2(cpu, lines, symbols, infos) ==
    FoldLeftDomain(LAMBDA s, i : Pass2Line(cpu, symbols, infos, s, i, lines[i]), Fresh, lines)

---------------------------------------------------------------------------
(* "; @cp name" names the next line that emits something, or its own line.  *)
Emits(l) == l.op \notin {"", "area", "org", "equ", "globl"}
NextEmitting(lines, i) == {j \in i..Len(lines) : Emits(lines[j]) /\ \A k \in i..(j - 1) : ~Emits(lines[k])}
CpLines(lines) == {i \in DOMAIN lines : lines[i].cp # ""}
Serial(lines, i) == Cardinality({j \in CpLines(lines) : j <= i /\ lines[j].cp = lines[i].cp})
CheckpointName(lines, i) == [base |-> lines[i].cp, id |-> -Serial(lines, i)]
Checkpoints(lines, at) ==
    [n \in {CheckpointName(lines, i) : i \in CpLines(lines)} |->
       LET i == CHOOSE k \in CpLines(lines) : CheckpointName(lines, k) = n
       IN  at[CHOOSE j \in NextEmitting(lines, i) : TRUE]]
CheckpointsBind(lines, at) ==
    \A i \in CpLines(lines) : NextEmitting(lines, i) \cap DOMAIN at # {}

(* What the second pass hands on, and the object file (.rel) made of it.    *)
Refused == [ok |-> FALSE]
Assemble(cpu, source) ==
    LET lines == LensReplaced(source)
        one == Pass1(cpu, lines)
        infos == SymbolInfos(one, GloblNames(lines))
        two == Pass2(cpu, lines, one.symbols, infos)
    IN  IF ~LensKnown(source) THEN Refused
        ELSE IF one.bad THEN Refused
        ELSE IF two.bad THEN Refused
        ELSE IF ~CheckpointsBind(lines, two.at) THEN Refused
        ELSE [ok |-> TRUE, lines |-> lines, symbols |-> one.symbols, infos |-> infos,
              words |-> two.words, relocs |-> two.relocs, pc |-> two.pc, at |-> two.at,
              checkpoints |-> Checkpoints(lines, two.at)]

(* The bytes an area takes: its last word or its location counter.          *)
AreaOf(r, a) == {n \in DOMAIN r.pc : Canonical(n) = a}
MaxOf(S) == CHOOSE x \in S \cup {0} : \A y \in S : y <= x
SizeRel(cpu, r, a) ==
    LET ends == {r.words[k].address + Step(cpu) : k \in {j \in DOMAIN r.words : r.words[j].area = a}}
    IN  MaxOf(ends \cup {InBytes(cpu, r.pc[n]) : n \in AreaOf(r, a)})
DefArea(r, n) == IF r.infos[n].area = "" THEN "_CODE" ELSE r.infos[n].area
RelAreas(r) ==
    {Canonical(n) : n \in {m \in DOMAIN r.pc : m # "" \/ r.pc[m] # 0}}
      \cup {r.words[k].area : k \in DOMAIN r.words}
      \cup {DefArea(r, n) : n \in {m \in DOMAIN r.infos : r.infos[m].kind = "global"}}
WriteRel(cpu, r) ==
    LET of(kind) == {n \in DOMAIN r.infos : r.infos[n].kind = kind}
        cps == r.checkpoints
    IN  [size |-> [a \in RelAreas(r) |-> SizeRel(cpu, r, a)],
         refs |-> of("external"),
         defs |-> [n \in of("global") |-> [area |-> DefArea(r, n), at |-> InBytes(cpu, r.infos[n].value)]]
                    @@ [n \in DOMAIN cps |-> [area |-> cps[n].area, at |-> InBytes(cpu, cps[n].address)]],
         text |-> SortSeq([k \in DOMAIN r.words |->
                     LET w == r.words[k]
                     IN  [area |-> w.area, at |-> InBytes(cpu, w.address), value |-> w.value,
                          items |-> {x \in r.relocs : x.area = w.area /\ x.address = w.address}]],
                     LAMBDA u, v : u.at < v.at)]
=============================================================================
