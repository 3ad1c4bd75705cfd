------------------------------- MODULE AsmLink -------------------------------
(***************************************************************************)
(* Building a program of two modules the way the Makefiles and the test     *)
(* framework do (retrocpu_asm_ts: cli.ts, sdldLinkCli.ts): the main module  *)
(* is given, the other one is written line by line; each is expanded,       *)
(* assembled and written to an object file, and the two are linked, main    *)
(* first.                                                                   *)
(***************************************************************************)
EXTENDS AsmMacros, Linker

CONSTANTS
    Cpus,           \* "mn1613" and "tms9995", as far as they are built for
    Mains,          \* the modules linked first, as lists of lines
    Beginnings,     \* how the other module begins
    Lines,          \* what it goes on with
    MaxLines        \* bound: lines written

VARIABLES
    cpu,
    stage,       \* "edit", "assembled", "linked", or "refused"
    other,       \* the lines written so far
    begun,       \* the lines it began with
    main,
    asm,         \* the two assemblies, in link order
    built        \* what the linker made of them

vars == <<cpu, stage, other, begun, main, asm, built>>

Init ==
    /\ cpu \in Cpus
    /\ main \in Mains
    /\ begun \in Beginnings
    /\ other = <<>>
    /\ stage = "edit"
    /\ asm = <<>>
    /\ built = Unlinked

WriteLine(l) ==
    /\ stage = "edit"
    /\ Len(other) < MaxLines
    /\ other' = Append(other, l)
    /\ UNCHANGED <<cpu, stage, begun, main, asm, built>>

(* One run of the assembler per module; the first error ends the build.     *)
AssembleModule(source) ==
    LET text == ExpandMacros(source)
    IN  IF text.ok THEN Assemble(cpu, text.out) ELSE Refused
AssembleAll ==
    /\ stage = "edit"
    /\ asm' = <<AssembleModule(main), AssembleModule(begun \o other)>>
    /\ stage' = IF \A i \in 1..2 : asm'[i].ok THEN "assembled" ELSE "refused"
    /\ UNCHANGED <<cpu, other, begun, main, built>>

LinkAll ==
    /\ stage = "assembled"
    /\ built' = Link(cpu, [i \in 1..2 |-> WriteRel(cpu, asm[i])])
    /\ stage' = IF built'.ok THEN "linked" ELSE "refused"
    /\ UNCHANGED <<cpu, other, begun, main, asm>>

Next == (\E l \in Lines : WriteLine(l)) \/ AssembleAll \/ LinkAll
Spec == Init /\ [][Next]_vars

---------------------------------------------------------------------------
(* Where things end up, worked out from the source and not from the first   *)
(* pass: a label is where its line emits its first word or storage.         *)
Rels == [i \in 1..2 |-> WriteRel(cpu, asm[i])]
Unit == 2 \div Step(cpu)
LabelLine(i, n) == {j \in DOMAIN asm[i].at : asm[i].lines[j].label = n}
PlaceOf(i, at) == ModuleBase(Rels, i, at.area) + InBytes(cpu, at.address)
Homes(i, n) ==
    IF n \in DOMAIN asm[i].infos /\ asm[i].infos[n].kind # "external" THEN {i}
    ELSE {j \in 1..2 : n \in GloblNames(asm[j].lines) /\ LabelLine(j, n) # {}}
Constants(i) ==
    LET equs == {j \in DOMAIN asm[i].lines : asm[i].lines[j].op = "equ"}
    IN  [n \in {asm[i].lines[j].label : j \in equs} |->
           LET j == CHOOSE k \in equs : asm[i].lines[k].label = n /\ \A h \in equs :
                                          asm[i].lines[h].label = n => h <= k
           IN  asm[i].lines[j].args[1].off]
AreaSym(n) == n \in DOMAIN AreaSymbols(Rels)
Located(i, n) == \E j \in Homes(i, n) : LabelLine(j, n) # {}
Where(i, n) ==
    LET j == CHOOSE k \in Homes(i, n) : LabelLine(k, n) # {}
    IN  PlaceOf(j, asm[j].at[CHOOSE x \in LabelLine(j, n) : TRUE])
Address(i, n) ==
    CASE n = None -> 0
      [] n \in DOMAIN Constants(i) -> Constants(i)[n]
      [] AreaSym(n) /\ ~Located(i, n) -> AreaSymbols(Rels)[n] \div Unit
      [] OTHER -> Where(i, n) \div Unit
AreaOfLabel(i, n) == asm[i].at[CHOOSE x \in LabelLine(i, n) : TRUE].area

(* The rules of the source the results below are stated under.              *)
DefinedBefore(lines, k, n) == n = None \/ \E j \in 1..(k - 1) : lines[j].label = n
SizesKnown(i) ==
    LET ls == asm[i].lines
    IN  \A k \in DOMAIN ls : ls[k].op \in {"ds", "blkw", "org", "ai", "equ"}
                               => DefinedBefore(ls, k, ls[k].args[1].sym)
(* Operands the object format can carry: constants, differences inside an   *)
(* area, and plain symbols that are global or lie in a relocated area.       *)
LocalLabel(i, n) == LabelLine(i, n) # {}
Carried(i, o, star) ==
    CASE o.form = "text" -> FALSE
      [] o.sym = None \/ o.sym \in DOMAIN Constants(i) \ GloblNames(asm[i].lines) -> o.sub = None
      [] o.sub # None ->
           /\ {o.sym, o.sub} \cap GloblNames(asm[i].lines) = {}
           /\ LocalLabel(i, o.sym) /\ LocalLabel(i, o.sub)
           /\ AreaOfLabel(i, o.sym) = AreaOfLabel(i, o.sub)
      [] o.off # 0 -> FALSE
      [] LocalLabel(i, o.sym) /\ o.sym \notin GloblNames(asm[i].lines) ->
           AreaOfLabel(i, o.sym) \in IF star THEN Page0Areas ELSE MovedAreas
      [] OTHER -> Located(i, o.sym) \/ AreaSym(o.sym)
Near(i, k, o) ==
    LocalLabel(i, o.sym) /\ o.sub = None /\ asm[i].words[k].area = AreaOfLabel(i, o.sym)

(* The words of line j, and what word k of it has to hold at last.          *)
IndexInLine(i, k) ==
    Cardinality({j \in 1..k : asm[i].words[j].line = asm[i].words[k].line})
FinalPlace(i, k) == PlaceOf(i, asm[i].words[k])
HoldsWord(i, k, o) == built.image[FinalPlace(i, k)] = (Address(i, o.sym) - Address(i, o.sub) + o.off) % Word
HoldsLow(i, k, v) == built.image[FinalPlace(i, k)] = Opcode + (v % 256)
AsWritten(i, k) ==
    LET w == asm[i].words[k]
        l == asm[i].lines[w.line]
        n == IndexInLine(i, k)
        o == l.args[IF l.op = "dw" THEN n ELSE n - 1]
    IN  CASE l.op = "dw" /\ \A a \in DOMAIN l.args : l.args[a].form # "text" ->
               Carried(i, o, FALSE) /\ ~(cpu = "tms9995" /\ w.area = "_VECTOR") => HoldsWord(i, k, o)
          [] l.op = "two" /\ n = 2 -> Carried(i, o, FALSE) => HoldsWord(i, k, o)
          [] l.op = "three" /\ n > 1 ->
               Carried(i, o, FALSE) /\ l.args[1].sym = None => HoldsWord(i, k, o)
          [] l.op = "one" /\ l.args # <<>> ->
               IF l.args[1].form = "star"
               THEN cpu = "mn1613" /\ Carried(i, l.args[1], TRUE) /\ Address(i, l.args[1].sym) < 256
                       => HoldsLow(i, k, Address(i, l.args[1].sym) + l.args[1].off)
               ELSE Near(i, k, l.args[1])
                       => HoldsLow(i, k, IF cpu = "mn1613"
                             THEN Address(i, l.args[1].sym) + l.args[1].off - FinalPlace(i, k) \div 2
                             ELSE (Address(i, l.args[1].sym) + l.args[1].off - FinalPlace(i, k) - 2) \div 2)
          [] OTHER -> TRUE

(* The pieces of memory module i takes: its words and its storage.           *)
Pieces(i) ==
    {[i |-> i, n |-> k, kind |-> "word", area |-> asm[i].words[k].area,
      from |-> FinalPlace(i, k), bytes |-> 2] : k \in DOMAIN asm[i].words}
      \cup {[i |-> i, n |-> j, kind |-> "storage", area |-> asm[i].at[j].area,
             from |-> PlaceOf(i, asm[i].at[j]),
             bytes |-> InBytes(cpu, Reserve(cpu, asm[i].lines[j], asm[i].symbols))]
            : j \in {x \in DOMAIN asm[i].at : asm[i].lines[x].op \in {"ds", "blkw"}}}
Apart(p, q) == p.from + p.bytes <= q.from \/ q.from + q.bytes <= p.from
Sequential == {"_BIOS", "_CODE", "_DATA", "_WORK"}
OrgsForward(i) ==
    \A j \in DOMAIN asm[i].lines :
        asm[i].lines[j].op = "org" =>
            \A k \in DOMAIN asm[i].at : k < j => asm[i].at[k].address < asm[i].lines[j].args[1].off
OneCodeName(i) == asm[i].pc[""] = 0 \/ "_CODE" \notin DOMAIN asm[i].pc

(* Every word of the image holds what the source says: the address of its   *)
(* operand in the linked program, in the unit of the CPU, wherever the      *)
(* linker put the areas of the two modules (assembler.ts, relWriter.ts and   *)
(* sdldLink.ts have to agree on units, areas and offsets for that).          *)
LinkedAsWritten ==
    stage = "linked" =>
       ((/\ \A i \in 1..2 : SizesKnown(i)
         /\ \A p, q \in Pieces(1) \cup Pieces(2) : p = q \/ Apart(p, q))
          => \A i \in 1..2 : \A k \in DOMAIN asm[i].words : AsWritten(i, k))

(* No two words or reservations of the two modules share memory: the sizes  *)
(* of the object files, the joining of areas and the starts worked out from  *)
(* the first map leave each its own place (sdldLink.ts, linkRelsWithSdld).   *)
(* .org never goes back, the code area has one name, and a program with a   *)
(* BIOS has code too.                                                         *)
WordsApart ==
    stage = "linked" =>
       ((/\ \A i \in 1..2 : SizesKnown(i) /\ OrgsForward(i) /\ OneCodeName(i)
         /\ ("_BIOS" \in Present(Rels) => "_CODE" \in Present(Rels)))
          => \A p, q \in {x \in Pieces(1) \cup Pieces(2) : x.area \in Sequential} : p = q \/ Apart(p, q))

(* The names the debugger gets: a global label is where the second pass put  *)
(* its line and the linker that line, a checkpoint is at the first word or   *)
(* storage at or after its comment (relWriter.ts, checkpoint.ts).            *)
NamesAsPlaced ==
    stage = "linked" =>
       \A i \in 1..2 :
          /\ \A n \in GloblNames(asm[i].lines) :
                (SizesKnown(i) /\ LabelLine(i, n) # {}) => built.defs[n] = Where(i, n)
          /\ \A j \in CpLines(asm[i].lines) :
                LET first == {k \in DOMAIN asm[i].at : k >= j /\ \A h \in DOMAIN asm[i].at : h >= j => k <= h}
                IN  built.defs[CheckpointName(asm[i].lines, j)]
                      = PlaceOf(i, asm[i].at[CHOOSE k \in first : TRUE])

(* macros.ts:12: the ? of a local label is unique to an expansion.  It is,   *)
(* in a source without blocks inside blocks.                                   *)
Flat(lines) ==
    \A i \in DOMAIN lines : lines[i].op \in Opens => TopLevel(lines, i)
MacroLocalsUnique ==
    stage # "edit" =>
       LET x == ExpandMacros(begun \o other)
           labels == {i \in DOMAIN x.out : x.out[i].label.id > 0}
       IN  x.ok /\ Flat(begun \o other)
              => \A i, j \in labels : x.out[i].label = x.out[j].label => i = j
=============================================================================
