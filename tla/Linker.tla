------------------------------- MODULE Linker -------------------------------
(***************************************************************************)
(* Linking the object files (retrocpu_asm_ts: sdldLink.ts, areaOrder.ts).   *)
(* SDCC's sdld, an external program, joins the areas of the modules in the *)
(* order of the files, places them where the .lnk file says, and adds the  *)
(* addresses the object files ask for, all of it in bytes.  The wrapper     *)
(* runs it twice, the second time with the starts it worked out from the    *)
(* map of the first, and then turns the byte addresses of the image into    *)
(* the word addresses of an MN1613.  The image maps an even byte address to *)
(* the 16-bit word that lies there.                                         *)
(***************************************************************************)
EXTENDS Assembler

FixedBase == [a \in {"_VECTOR", "_BIOS", "_CODE", "_DATA", "_WORK"} |-> 0]
               @@ ("_SYS_PAGE0" :> 16) @@ ("_USR_PAGE0" :> 128)

Present(rels) == UNION {DOMAIN rels[i].size : i \in DOMAIN rels}
SizeIn(rel, a) == IF a \in DOMAIN rel.size THEN rel.size[a] ELSE 0
LengthTo(rels, n, a) == FoldLeft(LAMBDA x, r : x + SizeIn(r, a), 0, SubSeq(rels, 1, n))
(* _VECTOR is an overlay: its modules share one start.                      *)
Length(rels, a) ==
    IF a = "_VECTOR" THEN MaxOf({SizeIn(rels[i], a) : i \in DOMAIN rels})
    ELSE LengthTo(rels, Len(rels), a)

(* The starts of the second run, in bytes.                                  *)
CodeStart(rels) == IF {"_BIOS", "_CODE"} \subseteq Present(rels) THEN Length(rels, "_BIOS") ELSE 0
DataStartFirstRun(rels) == Length(rels, "_CODE")
DataStart(rels) == CodeStart(rels) + Length(rels, "_CODE")
WorkStart(rels) == DataStart(rels) + Length(rels, "_DATA")
Bases(rels) ==
    ("_CODE" :> CodeStart(rels)) @@ ("_DATA" :> DataStart(rels))
      @@ ("_WORK" :> WorkStart(rels)) @@ FixedBase

ModuleBase(rels, i, a) ==
    Bases(rels)[a] + IF a = "_VECTOR" THEN 0 ELSE LengthTo(rels, i - 1, a)

(* sdld: the symbols of the map, s_<area> and l_<area> among them.          *)
Defined(rels, n) == {i \in DOMAIN rels : n \in DOMAIN rels[i].defs}
AreaSymbols(rels) ==
    [n \in {Name("s_" \o a) : a \in Present(rels)} |->
        Bases(rels)[CHOOSE a \in Present(rels) : n = Name("s_" \o a)]]
      @@ [n \in {Name("l_" \o a) : a \in Present(rels)} |->
             Length(rels, CHOOSE a \in Present(rels) : n = Name("l_" \o a))]
Defs(rels) ==
    AreaSymbols(rels)
      @@ [n \in UNION {DOMAIN rels[i].defs : i \in DOMAIN rels} |->
            LET i == CHOOSE k \in Defined(rels, n) : TRUE
            IN  ModuleBase(rels, i, rels[i].defs[n].area) + rels[i].defs[n].at]
SdldAccepts(rels) ==
    /\ \A i \in DOMAIN rels : rels[i].refs \subseteq DOMAIN Defs(rels)
    /\ \A i \in DOMAIN rels : \A n \in DOMAIN rels[i].defs : Defined(rels, n) = {i}

Target(rels, defs, i, x) == IF x.by = "symbol" THEN defs[x.name] ELSE ModuleBase(rels, i, x.from)
LowSet(v, b) == (v \div 256) * 256 + (b % 256)
Added(rels, defs, i, v, x) ==
    LET t == Target(rels, defs, i, x)
    IN  IF x.low8 THEN LowSet(v, (v % 256) + t) ELSE (v + t) % Word

(* The words of the object files in file order, each with its place.        *)
Texts(rels) ==
    FoldLeftDomain(LAMBDA q, i :
        q \o [k \in DOMAIN rels[i].text |->
                [at |-> ModuleBase(rels, i, rels[i].text[k].area) + rels[i].text[k].at,
                 of |-> i, word |-> rels[i].text[k]]], <<>>, rels)
Sdld(rels, defs) ==
    FoldLeft(LAMBDA img, p :
        (p.at :> FoldSet(LAMBDA x, v : Added(rels, defs, p.of, v, x), p.word.value, p.word.items)) @@ img,
        <<>>, Texts(rels))

(* The wrapper: word addresses on the MN1613, entry points on the TMS9995.  *)
WordFix(rels, defs, p, v, x) ==
    IF ~x.low8 THEN v \div 2
    ELSE LowSet(v, (IF x.by = "symbol" THEN defs[x.name]
                    ELSE ModuleBase(rels, p.of, x.from) + (p.word.value % 256)) \div 2)
ByteFix(p, v, x) == IF p.word.area = "_VECTOR" THEN (2 * v) % Word ELSE v
FixUp(cpu, rels, defs, img) ==
    FoldLeft(LAMBDA im, p :
        [im EXCEPT ![p.at] = FoldSet(LAMBDA x, v : IF cpu = "mn1613" THEN WordFix(rels, defs, p, v, x)
                                                   ELSE ByteFix(p, v, x), @, p.word.items)],
        img, Texts(rels))

Unlinked == [ok |-> FALSE]
Link(cpu, rels) ==
    IF ~SdldAccepts(rels) THEN Unlinked
    ELSE [ok |-> TRUE, defs |-> Defs(rels), image |-> FixUp(cpu, rels, Defs(rels), Sdld(rels, Defs(rels)))]
=============================================================================
