-------------------------- MODULE ExecOutputProofs --------------------------
(***************************************************************************)
(* What holds of ExecOutput for every stream of instructions: the types,   *)
(* the account of the operand stack, the sections of open blocks, that the *)
(* account implements nested blocks; and of the tables it fills next to    *)
(* the code: the symbols and their scopes, the places that wait for an     *)
(* address and the entries that will patch them, and that a section that   *)
(* is switched away from is not written to.                                *)
(***************************************************************************)
EXTENDS ExecOutput, BasicLemmas

ContextType == [type : ContextTypes, sect : Nat, beg : Nat, curr : Nat]
SectionType == [name : STRING, attr : BinSectionAttr, used : BOOLEAN, size : Nat]
SymbolType == [name : STRING, lvl : Nat, data : SymDataType]
FieldType == [place : RelocationEntry, slot : Nat, data : SymDataType]

-----------------------------------------------------------------------------
(* What instructions and their code are made of.                           *)

(* The instructions the emit functions can write, whatever the stream.     *)
Headers ==
  [type : InstrTypes, id : STRING, argc : Nat, retc : Nat, name : STRING, num : Int,
   mod : MemMods, sect : STRING, attr : BinSectionAttr, data : Nat]
CoutInstrs == {i \in Headers : IsInstr(i)}

(* The fields of an instruction have the types of a header.                *)
LEMMA InstrFields ==
  ASSUME NEW i \in CoutInstrs
  PROVE  /\ i.argc \in Nat /\ i.retc \in Nat /\ i.num \in Int /\ i.data \in Nat
         /\ i.name \in STRING /\ i.sect \in STRING /\ i.attr \in BinSectionAttr
         /\ i.mod \in MemMods
         /\ i.type = "TABLE" => /\ i.argc = 0 /\ i.retc = 0
                                /\ i.id \in {"STACK", "SECT"} => i.num \in Nat
         /\ i.type = "GENERIC" => i.id \in GenericInstrs
         /\ i.type = "STRUCT" => i.id \in {"NULL"} \cup StructBegins \cup StructEnds
         /\ i.type = "STRUCT" /\ i.id = "SECT_B" => i.argc = 0 /\ i.retc = 0
  BY DEF CoutInstrs, Headers, IsInstr

(* Code sizes are natural numbers.                                         *)
LEMMA CodeSizes ==
  /\ \A count \in Nat :
       /\ addArgRetEncode(count, FALSE) \in Nat /\ addArgRetEncode(count, TRUE) \in Nat
       /\ addArgRetDecode(count, FALSE) \in Nat /\ addArgRetDecode(count, TRUE) \in Nat
  /\ \A val \in Int : translateConstSize(val) \in Nat
  /\ \A slots \in Nat : addRspMoveSize(slots) \in Nat
  /\ \A mod : translateMemSize(mod) \in Nat /\ translateMemOffset(mod) \in Nat
  /\ AddressConstSize \in Nat
  /\ \A cond : longJmpBinCodes(cond) \in Nat /\ shortJmpBinCodes(cond) \in Nat
  BY DEF PushPopSize, LastReg, addArgRetEncode, addArgRetDecode, translateConstSize,
         addRspMoveSize, translateMemSize, translateMemOffset, AddressConstSize,
         longJmpBinCodes, shortJmpBinCodes, INSTR

(* The table of machine code has an entry for every generic instruction.   *)
LEMMA GenericCodes ==
  ASSUME NEW i \in CoutInstrs, i.type = "GENERIC"
  PROVE  INSTR(ginstrBinCodes[i.id].code) \in Nat
BY DEF CoutInstrs, IsInstr, GenericInstrs, ginstrBinCodes, INSTR

(* Only instructions of the stream are offered.                            *)
LEMMA OfferedInstrs ==
  ASSUME ip \in Nat
  PROVE  Offered \subseteq StreamInstrs
<1>1. ip < Len(Prefix) => ip + 1 \in DOMAIN Prefix
  BY StreamAssumption
<1> QED BY <1>1 DEF Offered, StreamInstrs

LEMMA StreamEmitted ==
  StreamInstrs \subseteq CoutInstrs
BY StreamAssumption DEF CoutInstrs, Headers, IsInstr

(* A step of the loop on any instruction, however long the stream is.      *)
Take(i) == translateInstruction(i) \/ misread(i) \/ reject(i) \/ abort(i) \/ derail(i)
Takes == (\E i \in CoutInstrs : Take(i)) \/ endOfStream

LEMMA NextTakes ==
  ASSUME ip \in Nat, [Next]_vars
  PROVE  [Takes]_vars
<1>1. Offered \subseteq CoutInstrs
  BY OfferedInstrs, StreamEmitted
<1> QED BY <1>1 DEF Next, Takes, Take

-----------------------------------------------------------------------------
(* The inductive invariant.                                                *)

(* Every context writes to a section that exists, or to none.              *)
InsideSects == \A k \in DOMAIN ctx : ctx[k].sect \in {NoSect} \cup DOMAIN sects

(* The two halves of PrototypesNumbered: open prototypes, and references.  *)
ProtosNumbered ==
  /\ Len(preData) = Len(defs) + 1
  /\ \A p \in DOMAIN syms :
       syms[p].data.kind = "proto" =>
         /\ syms[p].data.val \in DOMAIN defs
         /\ defs[syms[p].data.val] = NoData
         /\ \A q \in DOMAIN syms :
              syms[q].data.kind = "proto" /\ syms[q].data.val = syms[p].data.val => p = q
TargetsNumbered == \A e \in DOMAIN preTbl : preTbl[e].to \in DOMAIN defs

Inductive ==
  /\ TypeOK
  /\ BlocksStack
  /\ WithinDepth
  /\ InsideSects
  /\ OpenSectionsExclusive
  /\ ProtosNumbered
  /\ TargetsNumbered

(* What the types say of the contexts, in the form the proofs use.         *)
LEMMA Contexts ==
  ASSUME TypeOK, BlocksStack
  PROVE  /\ ctx \in Seq(ContextType) /\ Depth \in Nat \ {0} /\ DOMAIN ctx = 1 .. Depth
         /\ \A k \in 1 .. Depth : ctx[k] \in ContextType /\ ctx[k].beg <= ctx[k].curr
         /\ Top \in ContextType /\ Own \in Nat /\ Top.beg <= Top.curr /\ Here \in Nat
         /\ lvl = Depth - 1
         /\ Top.type # "ROOT" => Depth > 1
<1>1. ctx \in Seq(ContextType) /\ Depth \in Nat \ {0} /\ DOMAIN ctx = 1 .. Depth
  BY EmptySeq, LenProperties DEF TypeOK, ContextType, Depth
<1>2. \A k \in 1 .. Depth : ctx[k] \in ContextType /\ ctx[k].beg <= ctx[k].curr
  BY <1>1 DEF BlocksStack, Depth
<1>3. Top \in ContextType /\ Top.beg <= Top.curr /\ (Top.type # "ROOT" => Depth > 1)
  BY <1>1, <1>2 DEF Top, BlocksStack
<1>4. Own \in Nat /\ Here \in Nat
  BY <1>3 DEF ContextType, Own, Here
<1>5. lvl = Depth - 1
  BY DEF TypeOK, BlocksStack, Depth
<1> QED BY <1>1, <1>2, <1>3, <1>4, <1>5

(* Arguments that are accepted are owned by the innermost block.           *)
LEMMA OwnedArguments ==
  ASSUME TypeOK, BlocksStack, NEW i \in CoutInstrs, Accepts(i)
  PROVE  i.argc <= Own /\ Leftover(i) \in Nat
  BY Contexts, InstrFields DEF Accepts, EnoughArgs, Own, Leftover, ContextType

-----------------------------------------------------------------------------
(* Steps by the shape of what they do to the blocks.                       *)

(* Code is only written to a section that exists.                          *)
LEMMA WritesInside ==
  ASSUME Inductive, NEW i \in CoutInstrs, Accepts(i), WritesCode(i)
  PROVE  Here \in DOMAIN sects
<1>1. Here # NoSect
  BY DEF Accepts, Refused
<1> QED BY <1>1, Contexts DEF Inductive, InsideSects, Here, Top, Depth

(* A name that is known has an entry in the table.                         *)
LEMMA KnownSymbol ==
  ASSUME TypeOK, NEW name, IsKnown(name)
  PROVE  Lookup(name) \in SymDataType /\ Max(SymsNamed(name)) \in DOMAIN syms
<1>1. Len(syms) \in Nat /\ DOMAIN syms = 1 .. Len(syms)
  BY LenProperties DEF TypeOK
<1>2. SymsNamed(name) \in SUBSET (0 .. Len(syms)) /\ SymsNamed(name) # {}
  BY <1>1 DEF SymsNamed, IsKnown
<1>3. Max(SymsNamed(name)) \in SymsNamed(name)
  BY <1>1, <1>2, MaxFacts
<1>4. Max(SymsNamed(name)) \in DOMAIN syms
  BY <1>3 DEF SymsNamed
<1>5. syms \in Seq(SymbolType)
  BY DEF TypeOK, SymbolType
<1>6. syms[Max(SymsNamed(name))] \in SymbolType
  BY <1>1, <1>4, <1>5, ElementOfSeq
<1> QED BY <1>4, <1>6 DEF Lookup, SymbolType

(* The section found for a name is a free one, or a new one behind them.   *)
LEMMA FoundSection ==
  ASSUME TypeOK, NEW i \in CoutInstrs, NEW found \in execOutFindSect(i.sect)
  PROVE  /\ found.sects \in Seq(SectionType)
         /\ Len(found.sects) >= Len(sects)
         /\ \A s \in DOMAIN sects : found.sects[s] = sects[s]
         /\ found.sect \in DOMAIN found.sects
         /\ found.sect \in DOMAIN sects => ~ sects[found.sect].used
<1>1. /\ sects \in Seq(SectionType) /\ Len(sects) \in Nat /\ DOMAIN sects = 1 .. Len(sects)
  BY LenProperties DEF TypeOK, SectionType
<1>2. CASE FreeSects(i.sect) # {}
  <2>1. FreeSects(i.sect) \in SUBSET (0 .. Len(sects))
    BY <1>1 DEF FreeSects
  <2>2. Max(FreeSects(i.sect)) \in FreeSects(i.sect)
    BY <1>1, <1>2, <2>1, MaxFacts
  <2>3. found = [sect |-> Max(FreeSects(i.sect)), sects |-> sects]
    BY <1>2 DEF execOutFindSect
  <2> QED BY <1>1, <2>2, <2>3 DEF FreeSects, IsFree
<1>3. CASE FreeSects(i.sect) = {}
  <2> DEFINE m == Min(NamedSects(i.sect))
  <2>1. NamedSects(i.sect) # {}
    BY <1>3 DEF execOutFindSect
  <2>2. PICK added \in execoutAddSection(i.sect, sects[m].attr) :
          found = [sect |-> Len(sects) + 1, sects |-> added]
    BY <1>3, <2>1 DEF execOutFindSect
  <2>3. m \in DOMAIN sects
    <3>1. NamedSects(i.sect) \in SUBSET Nat
      BY <1>1 DEF NamedSects
    <3>2. m \in NamedSects(i.sect)
      BY <2>1, <3>1, MinFacts
    <3> QED BY <3>2 DEF NamedSects
  <2>4. sects[m] \in SectionType
    BY <1>1, <2>3, ElementOfSeq
  <2>5. \E used \in BOOLEAN : added = Append(sects, Section(i.sect, sects[m].attr, used))
    BY <2>2 DEF execoutAddSection
  <2>6. \A used \in BOOLEAN : Section(i.sect, sects[m].attr, used) \in SectionType
    BY <2>4, InstrFields DEF Section, SectionType
  <2> HIDE DEF m
  <2>7. PICK x \in SectionType : added = Append(sects, x)
    BY <2>5, <2>6
  <2> QED BY <1>1, <2>2, <2>7, AppendProperties
<1> QED BY <1>2, <1>3

PlainStep(i) ==
  (i.type = "STRUCT" => i.id = "NULL") /\ \E size \in Nat :
    /\ size = 0 \/ Here \in DOMAIN sects
    /\ Plain(i, size)

TableStep(i) == tableSimple(i) \/ tableHere(i) \/ tablePre(i) \/ tableAddSect(i)

(* Every translation step is one of these.                                 *)
LEMMA Shapes ==
  ASSUME Inductive, NEW i \in CoutInstrs, Accepts(i), Translates(i)
  PROVE  \/ PlainStep(i) \/ TableStep(i) \/ tableStack(i)
         \/ beginBlock(i) \/ beginSect(i)
         \/ endBlock(i) \/ endSect(i)
<1>0. i.argc \in Nat /\ i.retc \in Nat /\ i.num \in Int
  BY InstrFields
<1> USE <1>0
<1>1. CASE translateGenericInstr(i)
  <2>1. Here \in DOMAIN sects
    BY <1>1, WritesInside DEF translateGenericInstr, WritesCode
  <2> QED BY <1>1, <2>1, GenericCodes DEF translateGenericInstr, PlainStep
<1>2. CASE translateConstInstr(i)
  BY <1>2, WritesInside, CodeSizes DEF translateConstInstr, PlainStep, WritesCode
<1>3. CASE translateSymConstInstr(i)
  <2>1. Here \in DOMAIN sects
    BY <1>3, WritesInside DEF translateSymConstInstr, WritesCode
  <2>2. IsKnown(i.name)
    BY <1>3 DEF Accepts, ReadsNowhere, translateSymConstInstr
  <2>3. Lookup(i.name).val \in Int
    BY <2>2, KnownSymbol DEF Inductive, SymDataType
  <2> QED BY <1>3, <2>1, <2>3, CodeSizes DEF translateSymConstInstr, PlainStep
<1>4. CASE translateLoadInstr(i) \/ translateStoreInstr(i)
  <2>1. Here \in DOMAIN sects
    BY <1>4, WritesInside DEF translateLoadInstr, translateStoreInstr, WritesCode
  <2>2. translateMemSize(i.mod) \in Nat
    BY CodeSizes
  <2> QED BY <1>4, <2>1, <2>2 DEF translateLoadInstr, translateStoreInstr, PlainStep
<1>5. CASE translateNeverJump(i)
  BY <1>5 DEF translateNeverJump, PlainStep
<1>6. CASE translateNearJump(i)
  <2> DEFINE size == longJmpBinCodes(i.id) + 4
  <2>1. Here \in DOMAIN sects
    BY <1>6, WritesInside DEF translateNearJump, WritesCode
  <2>2. size \in Nat
    BY CodeSizes
  <2>3. Plain(i, size) /\ i.type # "STRUCT"
    BY <1>6 DEF translateNearJump, WritesJump
  <2> HIDE DEF size
  <2> QED BY <2>1, <2>2, <2>3 DEF PlainStep
<1>7. CASE translateIndirectJump(i)
  <2> DEFINE size == shortJmpBinCodes(invertFlagCondition(i.id)) + 1 + translateMemSize(i.mod)
  <2>1. Here \in DOMAIN sects
    BY <1>7, WritesInside DEF translateIndirectJump, WritesCode
  <2>2. size \in Nat
    <3>1. shortJmpBinCodes(invertFlagCondition(i.id)) \in Nat /\ translateMemSize(i.mod) \in Nat
      BY CodeSizes
    <3> QED BY <3>1
  <2>3. Plain(i, size) /\ i.type # "STRUCT"
    BY <1>7 DEF translateIndirectJump, WritesJump
  <2> HIDE DEF size
  <2> QED BY <2>1, <2>2, <2>3 DEF PlainStep
<1>8. CASE translateCall(i)
  <2> DEFINE size == addArgRetEncode(i.argc, FALSE) + 5 + addArgRetDecode(i.retc, TRUE)
  <2>1. Here \in DOMAIN sects
    BY <1>8, WritesInside DEF translateCall, WritesCode
  <2>2. size \in Nat
    <3>1. addArgRetEncode(i.argc, FALSE) \in Nat /\ addArgRetDecode(i.retc, TRUE) \in Nat
      BY CodeSizes
    <3>2. \A a, b \in Nat : a + 5 + b \in Nat /\ a + 5 \in Nat /\ a + 2 \in Nat /\ 0 \in Nat
      OBVIOUS
    <3> QED BY <3>1, <3>2
  <2>3. Plain(i, size) /\ i.type # "STRUCT"
    BY <1>8 DEF translateCall
  <2> HIDE DEF size
  <2> QED BY <2>1, <2>2, <2>3 DEF PlainStep
<1>9. CASE translateRet(i)
  <2> DEFINE size == addArgRetEncode(i.argc, TRUE) + 2
  <2>1. Here \in DOMAIN sects
    BY <1>9, WritesInside DEF translateRet, WritesCode
  <2>2. size \in Nat
    <3>1. addArgRetEncode(i.argc, TRUE) \in Nat
      BY CodeSizes
    <3>2. \A a, b \in Nat : a + 5 + b \in Nat /\ a + 5 \in Nat /\ a + 2 \in Nat /\ 0 \in Nat
      OBVIOUS
    <3> QED BY <3>1, <3>2
  <2>3. Plain(i, size) /\ i.type # "STRUCT"
    BY <1>9 DEF translateRet
  <2> HIDE DEF size
  <2> QED BY <2>1, <2>2, <2>3 DEF PlainStep
<1>10. CASE translateRetCB(i)
  <2> DEFINE size == addArgRetEncode(i.argc, TRUE) + 5
  <2>1. Here \in DOMAIN sects
    BY <1>10, WritesInside DEF translateRetCB, WritesCode
  <2>2. size \in Nat
    <3>1. addArgRetEncode(i.argc, TRUE) \in Nat
      BY CodeSizes
    <3>2. \A a, b \in Nat : a + 5 + b \in Nat /\ a + 5 \in Nat /\ a + 2 \in Nat /\ 0 \in Nat
      OBVIOUS
    <3> QED BY <3>1, <3>2
  <2>3. Plain(i, size) /\ i.type # "STRUCT"
    BY <1>10 DEF translateRetCB
  <2> HIDE DEF size
  <2> QED BY <2>1, <2>2, <2>3 DEF PlainStep
<1>11. CASE tableSimple(i) \/ tableHere(i) \/ tablePre(i) \/ tableAddSect(i)
  BY <1>11 DEF TableStep
<1>12. CASE ignored(i)
  <2> DEFINE args == EncodeSize(i)
             rets == DecodeSize(i)
             size == args + rets
  <2>1. args \in Nat /\ rets \in Nat
    BY CodeSizes DEF EncodeSize, DecodeSize
  <2>2. size = 0 \/ Here \in DOMAIN sects
    <3>1. i.argc = 0 /\ i.retc = 0 => args = 0 /\ rets = 0
      BY <1>0 DEF EncodeSize, DecodeSize, addArgRetDecode, PushPopSize, LastReg
    <3>2. i.argc = 0 /\ i.retc = 0 => size = 0
      BY <3>1
    <3>3. i.argc > 0 \/ i.retc > 0 => Here \in DOMAIN sects
      BY <1>12, WritesInside DEF ignored, WritesCode
    <3> QED BY <3>2, <3>3
  <2>3. size \in Nat
    BY <2>1
  <2>4. Plain(i, size) /\ i.type = "STRUCT" /\ i.id = "NULL"
    BY <1>12 DEF ignored
  <2> HIDE DEF size
  <2> QED BY <2>2, <2>3, <2>4 DEF PlainStep
<1> QED BY <1>1, <1>2, <1>3, <1>4, <1>5, <1>6, <1>7, <1>8,
           <1>9, <1>10, <1>11, <1>12 DEF Translates

-----------------------------------------------------------------------------
(* Stacks of contexts.                                                     *)

(* What BlocksStack and TypeOK ask of the stack of contexts alone.         *)
StackOf(c) ==
  /\ c \in Seq(ContextType) /\ Len(c) \in Nat \ {0}
  /\ \A k \in 1 .. Len(c) :
       /\ c[k].beg <= c[k].curr
       /\ c[k].type = "ROOT" <=> k = 1
       /\ k > 1 => c[k].beg = IF c[k].type \in {"CB", "NONLIN"} THEN c[k - 1].curr ELSE 0

Resize(c, n) == [c EXCEPT ![Len(c)].curr = n]

(* The innermost block may grow, and shrink down to where it began.        *)
LEMMA Resized ==
  ASSUME NEW c, StackOf(c), NEW n \in Nat, n >= c[Len(c)].beg
  PROVE  /\ StackOf(Resize(c, n)) /\ Len(Resize(c, n)) = Len(c)
         /\ \A k \in 1 .. Len(c) : Resize(c, n)[k] = IF k = Len(c) THEN [c[k] EXCEPT !.curr = n]
                                                     ELSE c[k]
<1> DEFINE e == [c[Len(c)] EXCEPT !.curr = n]
<1>1. e \in ContextType /\ e.curr = n /\ e.beg = c[Len(c)].beg /\ e.type = c[Len(c)].type
  <2>1. c[Len(c)] \in ContextType
    BY ElementOfSeq DEF StackOf
  <2> QED BY <2>1 DEF ContextType
<1>2. Resize(c, n) = [c EXCEPT ![Len(c)] = e]
  BY DEF Resize
<1> HIDE DEF e
<1>3. /\ Resize(c, n) \in Seq(ContextType) /\ Len(Resize(c, n)) = Len(c)
      /\ \A k \in 1 .. Len(c) : Resize(c, n)[k] = IF k = Len(c) THEN e ELSE c[k]
  BY <1>1, <1>2, ExceptSeq DEF StackOf
<1>4. StackOf(Resize(c, n))
  BY <1>1, <1>3 DEF StackOf
<1> QED BY <1>3, <1>4 DEF e

(* A block that shares the frame begins where the one around it ends.      *)
LEMMA Opened ==
  ASSUME NEW c, StackOf(c), NEW x \in ContextType, x.type # "ROOT", x.beg <= x.curr,
         x.beg = IF x.type \in {"CB", "NONLIN"} THEN c[Len(c)].curr ELSE 0
  PROVE  StackOf(Append(c, x)) /\ Len(Append(c, x)) = Len(c) + 1
<1>1. /\ Append(c, x) \in Seq(ContextType) /\ Len(Append(c, x)) = Len(c) + 1
      /\ \A k \in 1 .. Len(c) : Append(c, x)[k] = c[k]
      /\ Append(c, x)[Len(c) + 1] = x
  BY AppendProperties DEF StackOf
<1> QED BY <1>1 DEF StackOf

LEMMA Closed ==
  ASSUME NEW c, StackOf(c), Len(c) > 1
  PROVE  /\ StackOf(Outer(c)) /\ Len(Outer(c)) = Len(c) - 1
         /\ \A k \in 1 .. Len(c) - 1 : Outer(c)[k] = c[k]
<1>1. \A k \in 1 .. Len(c) - 1 : c[k] \in ContextType
  BY ElementOfSeq DEF StackOf
<1>2. /\ Outer(c) \in Seq(ContextType) /\ Len(Outer(c)) = Len(c) - 1
      /\ \A k \in 1 .. Len(c) - 1 : Outer(c)[k] = c[k]
  BY <1>1, SubSeqProperties DEF StackOf, Outer
<1> QED BY <1>2 DEF StackOf

LEMMA StackOfContexts ==
  TypeOK /\ BlocksStack => StackOf(ctx)
  BY Contexts DEF StackOf, BlocksStack, Depth

(* Leaving the innermost block, its results added to the block around it.  *)
LEMMA Left ==
  ASSUME NEW c, StackOf(c), Len(c) > 1, NEW n \in Nat
  PROVE  LET d == [Outer(c) EXCEPT ![Len(c) - 1].curr = @ + n]
         IN  /\ StackOf(d) /\ Len(d) = Len(c) - 1
             /\ d = Resize(Outer(c), c[Len(c) - 1].curr + n)
<1>1. /\ StackOf(Outer(c)) /\ Len(Outer(c)) = Len(c) - 1
      /\ Outer(c)[Len(c) - 1] = c[Len(c) - 1]
  BY Closed DEF StackOf
<1>2. c[Len(c) - 1] \in ContextType /\ c[Len(c) - 1].beg <= c[Len(c) - 1].curr
  BY ElementOfSeq DEF StackOf
<1>3. c[Len(c) - 1].curr + n \in Nat /\ c[Len(c) - 1].curr + n >= c[Len(c) - 1].beg
  BY <1>2 DEF ContextType
<1>4. [Outer(c) EXCEPT ![Len(c) - 1].curr = @ + n] = Resize(Outer(c), c[Len(c) - 1].curr + n)
  BY <1>1 DEF Resize
<1> QED BY <1>1, <1>3, <1>4, Resized

(* Blocks end only where one began.                                        *)
LEMMA EndsInside ==
  ASSUME Inductive, NEW i \in CoutInstrs, Accepts(i), i.type = "STRUCT", i.id \in StructEnds
  PROVE  Depth > 1 /\ Top.type = ContextEndedBy[i.id]
<1>1. Top.type = ContextEndedBy[i.id]
  BY DEF Accepts, Refused, EndsTop
<1>2. Top.type # "ROOT"
  BY <1>1 DEF ContextEndedBy, StructEnds
<1> QED BY <1>1, <1>2, Contexts DEF Inductive

(* The account and the level after each shape of step.                     *)
LEMMA ContextsKept ==
  ASSUME Inductive, NEW i \in CoutInstrs, Accepts(i), Translates(i)
  PROVE  StackOf(ctx') /\ lvl' = Len(ctx') - 1
<1>1. /\ StackOf(ctx) /\ lvl = Depth - 1 /\ Depth = Len(ctx) /\ Top = ctx[Len(ctx)]
      /\ Top \in ContextType /\ Top.beg <= Top.curr
      /\ i.argc \in Nat /\ i.retc \in Nat /\ i.argc <= Own /\ Own = Top.curr - Top.beg
  BY StackOfContexts, Contexts, InstrFields, OwnedArguments DEF Inductive, Depth, Top, Own
<1>2. Top.beg \in Nat /\ Top.curr \in Nat
  BY <1>1 DEF ContextType
<1>3. CASE PlainStep(i)
  <2> DEFINE n == Top.curr - i.argc + i.retc
  <2>1. n \in Nat /\ n >= Top.beg
    BY <1>1, <1>2, SMTT(30)
  <2>2. ctx' = Resize(ctx, n) /\ lvl' = lvl
    BY <1>1, <1>3 DEF PlainStep, Plain, Account, Resize
  <2> HIDE DEF n
  <2> QED BY <1>1, <2>1, <2>2, Resized
<1>4. CASE TableStep(i)
  BY <1>1, <1>4 DEF TableStep, tableSimple, tableHere, tablePre, tableAddSect, blkVars
<1>5. CASE tableStack(i)
  <2> DEFINE n == Top.curr + i.num
  <2>1. n \in Nat /\ n >= Top.beg
    <3>1. i.num \in Nat
      BY <1>5, InstrFields DEF tableStack
    <3> QED BY <1>1, <1>2, <3>1
  <2>2. ctx' = Resize(ctx, n) /\ lvl' = lvl
    BY <1>1, <1>5 DEF tableStack, Resize
  <2> HIDE DEF n
  <2> QED BY <1>1, <2>1, <2>2, Resized
<1>6. CASE beginBlock(i)
  <2> DEFINE n == Top.curr - i.argc
             x == Context(ContextBegunBy[i.id], Here, FirstSlot(i), FirstSlot(i) + i.retc)
             c == Resize(ctx, n)
  <2>1. n \in Nat /\ n >= Top.beg
    BY <1>1, <1>2
  <2>2. ctx' = Append(c, x) /\ lvl' = lvl + 1
    BY <1>1, <1>6 DEF beginBlock, Resize
  <2>3. StackOf(c) /\ Len(c) = Len(ctx) /\ c[Len(c)].curr = n
    <3> HIDE DEF n
    <3>1. /\ StackOf(c) /\ Len(c) = Len(ctx)
          /\ c[Len(ctx)] = [ctx[Len(ctx)] EXCEPT !.curr = n]
      BY <1>1, <2>1, Resized, SMTT(30) DEF StackOf
    <3>2. c[Len(ctx)].curr = n
      BY <1>1, <3>1 DEF ContextType
    <3> QED BY <3>1, <3>2
  <2>4. i.id \in {"ADDSF", "NCB_B", "RCB_B", "NONLIN_B"}
    BY <1>6, InstrFields DEF beginBlock, StructBegins
  <2>5. FirstSlot(i) = IF i.id = "ADDSF" THEN 0 ELSE n
    BY DEF FirstSlot
  <2>6. /\ x \in ContextType /\ x.type # "ROOT" /\ x.beg <= x.curr
        /\ x.beg = IF x.type \in {"CB", "NONLIN"} THEN n ELSE 0
    <3>1. Here \in Nat
      BY Contexts DEF Inductive
    <3>2. FirstSlot(i) \in Nat
      BY <2>1, <2>5
    <3> HIDE DEF n
    <3> QED BY <1>1, <2>4, <2>5, <3>1, <3>2 DEF Context, ContextType, ContextBegunBy, ContextTypes
  <2> HIDE DEF n, x, c
  <2> QED BY <1>1, <2>2, <2>3, <2>6, Opened
<1>7. CASE beginSect(i)
  <2>1. PICK found \in execOutFindSect(i.sect) : ctx' = Append(ctx, Context("SECT", found.sect, 0, 0))
    BY <1>7 DEF beginSect
  <2>2. found.sect \in Nat
    <3>1. found.sects \in Seq(SectionType) /\ found.sect \in DOMAIN found.sects
      BY FoundSection DEF Inductive
    <3> QED BY <3>1, LenProperties
  <2>3. Context("SECT", found.sect, 0, 0) \in ContextType
    BY <2>2 DEF Context, ContextType, ContextTypes
  <2>4. lvl' = lvl + 1
    BY <1>7 DEF beginSect
  <2> QED BY <1>1, <2>1, <2>3, <2>4, Opened DEF Context
<1>8. CASE endBlock(i) \/ endSect(i)
  <2>1. closeBlock(i) /\ i.type = "STRUCT" /\ i.id \in StructEnds
    BY <1>8 DEF endBlock, endSect, StructEnds
  <2>2. Len(ctx) > 1
    BY <1>1, <2>1, EndsInside
  <2> QED BY <1>1, <2>1, <2>2, Left DEF closeBlock
<1> QED BY <1>3, <1>4, <1>5, <1>6, <1>7, <1>8, Shapes

(* A context that stays open keeps its kind and its section; a new one is  *)
(* of the kind begun, in the section of the block around it.               *)
LEMMA ContextsStay ==
  ASSUME Inductive, NEW i \in CoutInstrs, Accepts(i), Translates(i)
  PROVE  /\ Len(ctx') <= Depth + 1
         /\ \A k \in 1 .. Len(ctx') : k <= Depth =>
              ctx'[k].type = ctx[k].type /\ ctx'[k].sect = ctx[k].sect
         /\ Len(ctx') = Depth + 1 => \/ beginSect(i)
                                     \/ ctx'[Depth + 1].type # "SECT" /\ ctx'[Depth + 1].sect = Here
         /\ i.type = "STRUCT" /\ i.id \in StructEnds => Len(ctx') = Depth - 1
<1>1. /\ StackOf(ctx) /\ Depth = Len(ctx) /\ Top = ctx[Len(ctx)] /\ Depth \in Nat \ {0}
      /\ ctx \in Seq(ContextType)
      /\ \A k \in 1 .. Depth : ctx[k] \in ContextType
  BY StackOfContexts, Contexts DEF Inductive, Depth, Top
<1>2. ASSUME NEW c \in Seq(ContextType), Len(c) > 0, NEW n
      PROVE  /\ Len(Resize(c, n)) = Len(c)
             /\ \A k \in 1 .. Len(c) :
                  Resize(c, n)[k].type = c[k].type /\ Resize(c, n)[k].sect = c[k].sect
  BY <1>2, LenProperties DEF Resize, ContextType
<1>3. CASE PlainStep(i) \/ tableStack(i)
  <2>1. PICK n : ctx' = Resize(ctx, n)
    BY <1>1, <1>3 DEF PlainStep, Plain, Account, tableStack, Resize
  <2>2. ~ (i.type = "STRUCT" /\ i.id \in StructEnds)
    BY <1>3 DEF PlainStep, tableStack, StructEnds
  <2> QED BY <1>1, <1>2, <2>1, <2>2
<1>4. CASE TableStep(i)
  BY <1>1, <1>4 DEF TableStep, tableSimple, tableHere, tablePre, tableAddSect, blkVars
<1>5. CASE beginBlock(i)
  <2> DEFINE n == Top.curr - i.argc
             x == Context(ContextBegunBy[i.id], Here, FirstSlot(i), FirstSlot(i) + i.retc)
  <2>1. ctx' = Append(Resize(ctx, n), x)
    BY <1>1, <1>5 DEF beginBlock, Resize
  <2>2. x.type # "SECT" /\ x.sect = Here
    BY <1>5 DEF Context, beginBlock, StructBegins, ContextBegunBy
  <2>3. i.id \notin StructEnds
    BY <1>5 DEF beginBlock, StructBegins, StructEnds
  <2> HIDE DEF n, x
  <2>4. Len(Resize(ctx, n)) = Depth
    BY <1>1, <1>2
  <2> QED BY <1>1, <1>2, <2>1, <2>2, <2>3, <2>4
<1>6. CASE beginSect(i)
  <2>1. PICK x : ctx' = Append(ctx, x)
    BY <1>6 DEF beginSect
  <2>2. i.id \notin StructEnds
    BY <1>6 DEF beginSect, StructEnds
  <2> QED BY <1>1, <1>6, <2>1, <2>2
<1>7. CASE endBlock(i) \/ endSect(i)
  <2>1. closeBlock(i) /\ i.type = "STRUCT" /\ i.id \in StructEnds
    BY <1>7 DEF endBlock, endSect, StructEnds
  <2>2. Depth > 1
    BY <2>1, EndsInside
  <2>3. /\ Outer(ctx) \in Seq(ContextType) /\ Len(Outer(ctx)) = Depth - 1
        /\ \A k \in 1 .. Depth - 1 : Outer(ctx)[k] = ctx[k]
    BY <1>1, <2>2, Closed DEF StackOf
  <2>4. PICK n : ctx' = Resize(Outer(ctx), n)
    BY <1>1, <2>1, <2>3 DEF closeBlock, Resize
  <2>5. /\ Len(ctx') = Depth - 1
        /\ \A k \in 1 .. Depth - 1 : ctx'[k].type = ctx[k].type /\ ctx'[k].sect = ctx[k].sect
    BY <1>1, <1>2, <2>2, <2>3, <2>4
  <2> QED BY <1>1, <2>2, <2>5
<1> QED BY <1>3, <1>4, <1>5, <1>6, <1>7, Shapes

-----------------------------------------------------------------------------
(* Sections.                                                               *)

(* Code goes to a section that exists, if there is any.                    *)
CodeStep == \E size \in Nat : (size = 0 \/ Here \in DOMAIN sects) /\ Emit(size)

LEMMA SectionShapes ==
  ASSUME Inductive, NEW i \in CoutInstrs, Accepts(i), Translates(i)
  PROVE  CodeStep \/ tableAddSect(i) \/ beginSect(i) \/ endSect(i)
<1>1. /\ i.argc \in Nat /\ i.retc \in Nat /\ Leftover(i) \in Nat
      /\ i.type = "TABLE" /\ i.id = "STACK" => i.num \in Nat
  BY InstrFields, OwnedArguments DEF Inductive
<1>2. /\ addArgRetEncode(i.argc, FALSE) \in Nat /\ addArgRetDecode(i.retc, FALSE) \in Nat
      /\ addRspMoveSize(Leftover(i)) \in Nat
  BY <1>1, CodeSizes
<1>3. /\ i.retc = 0 => DecodeSize(i) = 0
      /\ Leftover(i) = 0 => addRspMoveSize(Leftover(i)) = 0
  BY DEF DecodeSize, addArgRetDecode, PushPopSize, LastReg, addRspMoveSize
<1>4. EncodeSize(i) \in Nat /\ DecodeSize(i) \in Nat /\ FrameSize(i) \in Nat
  BY <1>2 DEF EncodeSize, DecodeSize, FrameSize
<1>10. /\ EncodeSize(i) = 0 \/ i.argc > 0
       /\ DecodeSize(i) = 0 \/ i.retc > 0
       /\ FrameSize(i) = 0 \/ i.id \in {"ADDSF", "RMSF"}
       /\ addRspMoveSize(Leftover(i)) = 0 \/ Leftover(i) > 0
  <2>1. /\ i.argc = 0 => EncodeSize(i) = 0
        /\ i.id \notin {"ADDSF", "RMSF"} => FrameSize(i) = 0
    BY DEF EncodeSize, FrameSize
  <2> QED BY <1>1, <1>3, <2>1
<1>5. CASE PlainStep(i)
  BY <1>5 DEF PlainStep, Plain, CodeStep
<1>6. CASE TableStep(i)
  BY <1>6 DEF TableStep, tableSimple, tableHere, tablePre, CodeStep, Emit
<1>7. CASE tableStack(i)
  <2>1. addRspMoveSize(i.num) \in Nat /\ (i.num = 0 => addRspMoveSize(i.num) = 0)
    BY <1>1, <1>7, CodeSizes DEF tableStack, addRspMoveSize
  <2>2. i.num > 0 => Here \in DOMAIN sects
    BY <1>7, WritesInside DEF tableStack, WritesCode
  <2> QED BY <1>1, <1>7, <2>1, <2>2 DEF tableStack, CodeStep
<1>8. CASE beginBlock(i)
  <2> DEFINE size == EncodeSize(i) + FrameSize(i) + DecodeSize(i)
  <2>1. size \in Nat
    BY <1>4
  <2>2. size # 0 => WritesCode(i)
    <3>1. size # 0 => EncodeSize(i) # 0 \/ FrameSize(i) # 0 \/ DecodeSize(i) # 0
      BY <1>4
    <3> HIDE DEF size
    <3> QED BY <1>8, <1>10, <3>1 DEF beginBlock, WritesCode
  <2>3. Emit(size)
    BY <1>8 DEF beginBlock
  <2> HIDE DEF size
  <2> QED BY <2>1, <2>2, <2>3, WritesInside DEF CodeStep
<1>9. CASE endBlock(i)
  <2>1. endSize(i) \in Nat
    BY <1>2, <1>4 DEF endSize
  <2>2. endSize(i) # 0 => WritesCode(i)
    <3>1. endSize(i) # 0 => \/ EncodeSize(i) # 0 \/ addRspMoveSize(Leftover(i)) # 0
                            \/ FrameSize(i) # 0 \/ DecodeSize(i) # 0
      BY <1>2, <1>4 DEF endSize
    <3>2. i.type = "STRUCT" /\ i.id \in StructEnds
      BY <1>9 DEF endBlock, StructEnds
    <3> QED BY <1>10, <3>1, <3>2 DEF WritesCode
  <2>3. Emit(endSize(i))
    BY <1>9 DEF endBlock
  <2> QED BY <2>1, <2>2, <2>3, WritesInside DEF CodeStep
<1> QED BY <1>5, <1>6, <1>7, <1>8, <1>9, Shapes

(* The section of a SECT block that ends is there.                         *)
LEMMA EndsInSection ==
  ASSUME Inductive, NEW i \in CoutInstrs, Accepts(i), endSect(i)
  PROVE  Here \in DOMAIN sects /\ endSize(i) \in Nat /\ Top.type = "SECT"
<1>1. Top.type = "SECT"
  BY EndsInside DEF endSect, StructEnds, ContextEndedBy
<1>2. Here \in DOMAIN sects
  BY <1>1, Contexts DEF Inductive, OpenSectionsExclusive, OpenSects, Top, Here, Depth
<1>3. i.argc \in Nat /\ i.retc \in Nat /\ Leftover(i) \in Nat
  BY InstrFields, OwnedArguments DEF Inductive
<1>4. /\ addArgRetEncode(i.argc, FALSE) \in Nat /\ addArgRetDecode(i.retc, FALSE) \in Nat
      /\ addRspMoveSize(Leftover(i)) \in Nat
  BY <1>3, CodeSizes
<1>5. EncodeSize(i) \in Nat /\ DecodeSize(i) \in Nat /\ FrameSize(i) \in Nat
  BY <1>4 DEF EncodeSize, DecodeSize, FrameSize
<1> QED BY <1>1, <1>2, <1>4, <1>5 DEF endSize

(* Replacing a section by one at least as long.                            *)
LEMMA SectionChanged ==
  ASSUME NEW q \in Seq(SectionType), NEW s \in 1 .. Len(q), NEW e \in SectionType,
         e.size >= q[s].size
  PROVE  /\ [q EXCEPT ![s] = e] \in Seq(SectionType)
         /\ Len([q EXCEPT ![s] = e]) = Len(q)
         /\ \A t \in 1 .. Len(q) : /\ [q EXCEPT ![s] = e][t] = IF t = s THEN e ELSE q[t]
                                   /\ [q EXCEPT ![s] = e][t].size >= q[t].size
<1>1. \A t \in 1 .. Len(q) : q[t] \in SectionType
  BY ElementOfSeq
<1> QED BY <1>1, ExceptSeq DEF SectionType

(* A section that grows, is taken, or is given back after it grew.         *)
LEMMA SectionRecords ==
  ASSUME NEW r \in SectionType, NEW n \in Nat
  PROVE  /\ [r EXCEPT !.size = @ + n] \in SectionType
         /\ [r EXCEPT !.size = @ + n].size >= r.size
         /\ [r EXCEPT !.size = @ + n].used = r.used
         /\ [r EXCEPT !.used = TRUE] \in SectionType
         /\ [r EXCEPT !.used = TRUE].size = r.size
         /\ [r EXCEPT !.used = TRUE].used = TRUE
         /\ [r EXCEPT !.size = @ + n, !.used = FALSE] \in SectionType
         /\ [r EXCEPT !.size = @ + n, !.used = FALSE].size >= r.size
<1>1. r.size \in Nat /\ r.size + n \in Nat /\ r.size + n >= r.size
  BY DEF SectionType
<1>2. r = [name |-> r.name, attr |-> r.attr, used |-> r.used, size |-> r.size]
  BY DEF SectionType
<1> QED BY <1>1, <1>2 DEF SectionType

(* Sections are only added, and code only makes them longer.               *)
LEMMA SectionsKept ==
  ASSUME Inductive, NEW i \in CoutInstrs, Accepts(i), Translates(i)
  PROVE  /\ sects' \in Seq(SectionType) /\ Len(sects') >= Len(sects)
         /\ \A s \in DOMAIN sects : sects'[s].size >= sects[s].size
<1>1. /\ sects \in Seq(SectionType) /\ Len(sects) \in Nat /\ DOMAIN sects = 1 .. Len(sects)
      /\ \A s \in DOMAIN sects : sects[s] \in SectionType
  BY LenProperties, ElementOfSeq DEF Inductive, TypeOK, SectionType
<1>2. CASE CodeStep
  <2>1. PICK size \in Nat : (size = 0 \/ Here \in DOMAIN sects) /\ Emit(size)
    BY <1>2 DEF CodeStep
  <2>2. CASE size # 0
    <3>1. sects' = [sects EXCEPT ![Here].size = @ + size] /\ Here \in DOMAIN sects
      BY <2>1, <2>2 DEF Emit, execOutPutData
    <3> DEFINE e == [sects[Here] EXCEPT !.size = @ + size]
    <3>2. e \in SectionType /\ e.size >= sects[Here].size
      BY <1>1, <3>1, SectionRecords
    <3>3. sects' = [sects EXCEPT ![Here] = e]
      BY <3>1
    <3>4. Here \in 1 .. Len(sects)
      BY <1>1, <3>1
    <3> HIDE DEF e
    <3> QED BY <1>1, <3>2, <3>3, <3>4, SectionChanged
  <2> QED BY <1>1, <2>1, <2>2 DEF Emit, SectionType
<1>3. CASE tableAddSect(i)
  <2>1. PICK used \in BOOLEAN : sects' = Append(sects, Section(i.sect, i.attr, used))
    BY <1>3 DEF tableAddSect, execoutAddSection
  <2>2. Section(i.sect, i.attr, used) \in SectionType
    BY InstrFields DEF Section, SectionType
  <2> QED BY <1>1, <2>1, <2>2, AppendProperties DEF SectionType
<1>4. CASE beginSect(i)
  <2>1. PICK found \in execOutFindSect(i.sect) :
          sects' = [found.sects EXCEPT ![found.sect].used = TRUE]
    BY <1>4 DEF beginSect
  <2> DEFINE e == [found.sects[found.sect] EXCEPT !.used = TRUE]
  <2>2. /\ found.sects \in Seq(SectionType) /\ Len(found.sects) >= Len(sects)
        /\ found.sect \in 1 .. Len(found.sects)
        /\ \A s \in DOMAIN sects : found.sects[s] = sects[s]
    <3>1. TypeOK
      BY DEF Inductive
    <3> QED BY <3>1, FoundSection, LenProperties
  <2>3. found.sects[found.sect] \in SectionType
    BY <2>2, ElementOfSeq
  <2>4. e \in SectionType /\ e.size = found.sects[found.sect].size
    BY <2>3, SectionRecords
  <2>5. sects' = [found.sects EXCEPT ![found.sect] = e]
    BY <2>1
  <2>6. e.size >= found.sects[found.sect].size
    BY <2>3, <2>4 DEF SectionType
  <2> HIDE DEF e
  <2>7. /\ sects' \in Seq(SectionType) /\ Len(sects') = Len(found.sects)
        /\ \A s \in 1 .. Len(found.sects) : sects'[s].size >= found.sects[s].size
    BY <2>2, <2>4, <2>5, <2>6, SectionChanged
  <2> QED BY <1>1, <2>2, <2>7
<1>5. CASE endSect(i)
  <2> DEFINE e == [sects[Here] EXCEPT !.size = @ + endSize(i), !.used = FALSE]
  <2>1. Here \in 1 .. Len(sects) /\ endSize(i) \in Nat
    BY <1>1, <1>5, EndsInSection
  <2>2. e \in SectionType /\ e.size >= sects[Here].size
    BY <1>1, <2>1, SectionRecords
  <2>3. sects' = [sects EXCEPT ![Here] = e]
    BY <1>1, <1>5, <2>1 DEF endSect
  <2> HIDE DEF e
  <2> QED BY <1>1, <2>1, <2>2, <2>3, SectionChanged
<1> QED BY <1>2, <1>3, <1>4, <1>5, SectionShapes

(* What the types say of sections.                                         *)
LEMMA Sections ==
  ASSUME NEW q \in Seq(SectionType)
  PROVE  /\ Len(q) \in Nat /\ DOMAIN q = 1 .. Len(q)
         /\ \A s \in DOMAIN q : q[s] \in SectionType /\ q[s].size \in Nat
<1>1. Len(q) \in Nat /\ DOMAIN q = 1 .. Len(q)
  BY LenProperties
<1>2. \A s \in DOMAIN q : q[s] \in SectionType
  BY <1>1, ElementOfSeq
<1> QED BY <1>1, <1>2 DEF SectionType

LEMMA SectsTyped ==
  TypeOK => sects \in Seq(SectionType)
  BY DEF TypeOK, SectionType

(* The section of a block that begins was free before, and is taken.       *)
LEMMA BeginsSection ==
  ASSUME Inductive, NEW i \in CoutInstrs, Accepts(i), beginSect(i)
  PROVE  /\ \A s \in DOMAIN sects : sects[s].used => sects'[s].used
         /\ Len(ctx') = Depth + 1
         /\ ctx'[Depth + 1].sect \in DOMAIN sects'
         /\ sects'[ctx'[Depth + 1].sect].used
         /\ \A k \in OpenSects : ctx[k].sect # ctx'[Depth + 1].sect
<1>1. PICK found \in execOutFindSect(i.sect) :
        /\ sects' = [found.sects EXCEPT ![found.sect].used = TRUE]
        /\ ctx' = Append(ctx, Context("SECT", found.sect, 0, 0))
  BY DEF beginSect
<1>2. /\ found.sects \in Seq(SectionType)
      /\ \A s \in DOMAIN sects : found.sects[s] = sects[s]
      /\ found.sect \in DOMAIN found.sects
      /\ found.sect \in DOMAIN sects => ~ sects[found.sect].used
      /\ DOMAIN sects \subseteq DOMAIN found.sects
  <2>1. TypeOK
    BY DEF Inductive
  <2>2. Len(found.sects) >= Len(sects) /\ found.sects \in Seq(SectionType)
    BY <2>1, FoundSection
  <2>3. /\ \A s \in DOMAIN sects : found.sects[s] = sects[s]
        /\ found.sect \in DOMAIN found.sects
        /\ found.sect \in DOMAIN sects => ~ sects[found.sect].used
    BY <2>1, FoundSection
  <2>4. DOMAIN sects = 1 .. Len(sects) /\ Len(sects) \in Nat
    BY <2>1, SectsTyped, Sections
  <2>5. DOMAIN found.sects = 1 .. Len(found.sects) /\ Len(found.sects) \in Nat
    BY <2>2, Sections
  <2> QED BY <2>2, <2>3, <2>4, <2>5
<1>3. \A s \in DOMAIN found.sects : found.sects[s] \in SectionType
  BY <1>2, Sections
<1>4. ctx \in Seq(ContextType) /\ Depth = Len(ctx) /\ Depth \in Nat
  BY Contexts DEF Inductive, Depth
<1>5. Len(ctx') = Depth + 1 /\ ctx'[Depth + 1].sect = found.sect
  BY <1>1, <1>4 DEF Context
<1>6. /\ DOMAIN sects' = DOMAIN found.sects
      /\ sects'[found.sect] = [found.sects[found.sect] EXCEPT !.used = TRUE]
      /\ \A s \in DOMAIN found.sects : s # found.sect => sects'[s] = found.sects[s]
  BY <1>1, <1>2
<1>7. sects'[found.sect].used
  BY <1>2, <1>3, <1>6 DEF SectionType
<1>8. \A k \in OpenSects : ctx[k].sect \in DOMAIN sects /\ sects[ctx[k].sect].used
  BY DEF Inductive, OpenSectionsExclusive
<1> QED BY <1>2, <1>5, <1>6, <1>7, <1>8

(* A section stays marked as in use until its block ends.                  *)
LEMMA MarksKept ==
  ASSUME Inductive, NEW i \in CoutInstrs, Accepts(i), Translates(i)
  PROVE  /\ \A s \in DOMAIN sects : sects[s].used => sects'[s].used \/ (endSect(i) /\ s = Here)
         /\ beginSect(i) => /\ Len(ctx') = Depth + 1
                            /\ ctx'[Depth + 1].sect \in DOMAIN sects'
                            /\ sects'[ctx'[Depth + 1].sect].used
                            /\ \A k \in OpenSects : ctx[k].sect # ctx'[Depth + 1].sect
<1>1. /\ sects \in Seq(SectionType) /\ Len(sects) \in Nat /\ DOMAIN sects = 1 .. Len(sects)
      /\ \A s \in DOMAIN sects : sects[s] \in SectionType
  BY LenProperties, ElementOfSeq DEF Inductive, TypeOK, SectionType
<1>2. CASE CodeStep
  <2>1. PICK size \in Nat : (size = 0 \/ Here \in DOMAIN sects) /\ Emit(size)
    BY <1>2 DEF CodeStep
  <2>2. ASSUME NEW s \in DOMAIN sects PROVE sects'[s].used = sects[s].used
    <3>1. CASE sects' = [sects EXCEPT ![Here].size = @ + size]
      BY <1>1, <3>1 DEF SectionType
    <3> QED BY <2>1, <3>1 DEF Emit, execOutPutData
  <2>3. CASE beginSect(i)
    BY <2>3, BeginsSection
  <2> QED BY <2>2, <2>3
<1>3. CASE tableAddSect(i)
  <2>1. PICK x : sects' = Append(sects, x)
    BY <1>3 DEF tableAddSect, execoutAddSection
  <2>2. ~ beginSect(i)
    BY <1>3 DEF tableAddSect, beginSect
  <2> QED BY <1>1, <2>1, <2>2
<1>4. CASE beginSect(i)
  BY <1>4, BeginsSection
<1>5. CASE endSect(i)
  <2>1. \A s \in DOMAIN sects : s # Here => sects'[s] = sects[s]
    BY <1>1, <1>5 DEF endSect
  <2>2. ~ beginSect(i)
    BY <1>5 DEF endSect, beginSect
  <2> QED BY <1>5, <2>1, <2>2
<1> QED BY <1>2, <1>3, <1>4, <1>5, SectionShapes

LEMMA SectionsOfContextsKept ==
  ASSUME Inductive, NEW i \in CoutInstrs, Accepts(i), Translates(i)
  PROVE  InsideSects' /\ OpenSectionsExclusive'
<1>1. /\ Depth \in Nat \ {0} /\ DOMAIN ctx = 1 .. Depth /\ Here = ctx[Depth].sect
      /\ Len(ctx') \in Nat /\ DOMAIN ctx' = 1 .. Len(ctx')
  BY Contexts, ContextsKept, LenProperties DEF Inductive, StackOf, Here, Top
<1>2. DOMAIN sects \subseteq DOMAIN sects'
  <2>1. sects' \in Seq(SectionType) /\ Len(sects') >= Len(sects)
    BY SectionsKept
  <2>2. DOMAIN sects' = 1 .. Len(sects') /\ Len(sects') \in Nat
    BY <2>1, Sections
  <2>3. DOMAIN sects = 1 .. Len(sects) /\ Len(sects) \in Nat
    BY SectsTyped, Sections DEF Inductive
  <2> QED BY <2>1, <2>2, <2>3
<1>3. /\ \A k \in DOMAIN ctx : ctx[k].sect \in {NoSect} \cup DOMAIN sects
      /\ \A j, k \in OpenSects : ctx[j].sect = ctx[k].sect => j = k
      /\ \A k \in OpenSects : ctx[k].sect \in DOMAIN sects /\ sects[ctx[k].sect].used
  BY DEF Inductive, InsideSects, OpenSectionsExclusive
<1>4. \A k \in 1 .. Len(ctx') :
        \/ /\ k \in DOMAIN ctx /\ k <= Depth
           /\ ctx'[k].type = ctx[k].type /\ ctx'[k].sect = ctx[k].sect
        \/ /\ k = Depth + 1
           /\ beginSect(i) \/ (ctx'[k].type # "SECT" /\ ctx'[k].sect = Here)
  <2>1. /\ Len(ctx') <= Depth + 1
        /\ Len(ctx') = Depth + 1 =>
             \/ beginSect(i)
             \/ ctx'[Depth + 1].type # "SECT" /\ ctx'[Depth + 1].sect = Here
    BY ContextsStay
  <2> TAKE k \in 1 .. Len(ctx')
  <2>2. k <= Depth => ctx'[k].type = ctx[k].type /\ ctx'[k].sect = ctx[k].sect
    BY ContextsStay
  <2>3. k \in Nat /\ (k <= Depth => k \in DOMAIN ctx)
    BY <1>1
  <2>4. k <= Depth \/ (k = Depth + 1 /\ Len(ctx') = Depth + 1)
    <3>1. Depth \in Nat /\ Len(ctx') \in Nat
      BY <1>1
    <3>2. Len(ctx') <= Depth + 1
      BY <2>1
    <3> QED BY <3>1, <3>2
  <2> QED BY <2>1, <2>2, <2>3, <2>4
<1>5. InsideSects'
  <2> SUFFICES ASSUME NEW k \in DOMAIN ctx'
               PROVE  ctx'[k].sect \in {NoSect} \cup DOMAIN sects'
    BY DEF InsideSects
  <2>1. k \in 1 .. Len(ctx')
    BY <1>1
  <2>2. CASE beginSect(i) /\ k = Depth + 1
    BY <2>2, MarksKept
  <2>3. Here \in {NoSect} \cup DOMAIN sects
    BY <1>1, <1>3
  <2> QED BY <1>2, <1>3, <1>4, <2>1, <2>2, <2>3
<1>6. ASSUME NEW k \in OpenSects'
      PROVE  /\ ctx'[k].sect \in DOMAIN sects' /\ sects'[ctx'[k].sect].used
             /\ k <= Depth => k \in OpenSects /\ ctx'[k].sect = ctx[k].sect
             /\ k > Depth => beginSect(i) /\ k = Depth + 1
  <2>1. k \in 1 .. Len(ctx') /\ ctx'[k].type = "SECT"
    BY <1>1, <1>6 DEF OpenSects
  <2>2. CASE k \in DOMAIN ctx /\ k <= Depth
             /\ ctx'[k].type = ctx[k].type /\ ctx'[k].sect = ctx[k].sect
    <3>1. k \in OpenSects /\ ctx'[k].sect = ctx[k].sect
      BY <2>1, <2>2 DEF OpenSects
    <3>2. ~ (endSect(i) /\ ctx[k].sect = Here)
      <4> SUFFICES ASSUME endSect(i), ctx[k].sect = Here PROVE FALSE
        OBVIOUS
      <4>1. Len(ctx') = Depth - 1
        BY ContextsStay DEF endSect, StructEnds
      <4>2. Depth \in OpenSects
        BY <1>1, EndsInSection DEF OpenSects, Top
      <4>3. k = Depth
        BY <1>1, <1>3, <3>1, <4>2
      <4> QED BY <1>1, <2>1, <4>1, <4>3
    <3>3. ctx'[k].sect \in DOMAIN sects' /\ sects'[ctx'[k].sect].used
      BY <1>2, <1>3, <3>1, <3>2, MarksKept
    <3>4. ~ (k > Depth)
      BY <1>1, <2>2
    <3> QED BY <3>1, <3>3, <3>4
  <2>3. CASE k = Depth + 1 /\ beginSect(i)
    <3>1. ctx'[k].sect \in DOMAIN sects' /\ sects'[ctx'[k].sect].used
      BY <2>3, MarksKept
    <3>2. ~ (k <= Depth)
      BY <1>1, <2>3
    <3> QED BY <2>3, <3>1, <3>2
  <2> QED BY <1>4, <2>1, <2>2, <2>3
<1>7. ASSUME NEW j \in OpenSects', NEW k \in OpenSects', ctx'[j].sect = ctx'[k].sect
      PROVE  j = k
  <2>1. j \in Nat /\ k \in Nat
    BY <1>1 DEF OpenSects
  <2>2. CASE j <= Depth /\ k <= Depth
    BY <1>3, <1>6, <1>7, <2>2
  <2>3. CASE j > Depth /\ k > Depth
    BY <1>6, <2>3
  <2>4. CASE j <= Depth /\ k > Depth
    BY <1>6, <1>7, <2>4, MarksKept
  <2>5. CASE j > Depth /\ k <= Depth
    BY <1>6, <1>7, <2>5, MarksKept
  <2> QED BY <1>1, <2>1, <2>2, <2>3, <2>4, <2>5
<1> QED BY <1>5, <1>6, <1>7 DEF OpenSectionsExclusive

-----------------------------------------------------------------------------
(* Symbols and references.                                                 *)

(* An assignment outside the domain changes nothing.                       *)
LEMMA ExceptTyped ==
  ASSUME NEW S, NEW q \in Seq(S), NEW x, NEW e \in S
  PROVE  [q EXCEPT ![x] = e] \in Seq(S) /\ Len([q EXCEPT ![x] = e]) = Len(q)
<1>1. CASE x \in 1 .. Len(q)
  BY <1>1, ExceptSeq
<1>2. CASE x \notin 1 .. Len(q)
  BY <1>2, LenProperties
<1> QED BY <1>1, <1>2

(* What the types say of symbols.                                          *)
LEMMA Symbols ==
  ASSUME TypeOK
  PROVE  /\ syms \in Seq(SymbolType) /\ Len(syms) \in Nat /\ DOMAIN syms = 1 .. Len(syms)
         /\ \A p \in DOMAIN syms : syms[p] \in SymbolType /\ syms[p].data \in SymDataType
<1>1. syms \in Seq(SymbolType)
  BY DEF TypeOK, SymbolType
<1>2. Len(syms) \in Nat /\ DOMAIN syms = 1 .. Len(syms)
  BY <1>1, LenProperties
<1>3. \A p \in DOMAIN syms : syms[p] \in SymbolType
  BY <1>1, <1>2, ElementOfSeq
<1> QED BY <1>1, <1>2, <1>3 DEF SymbolType

(* The newest open prototype of a name.                                    *)
LEMMA NewestProto ==
  ASSUME TypeOK, NEW name, OpenProtos(name) # {}
  PROVE  Max(OpenProtos(name)) \in OpenProtos(name) /\ Max(OpenProtos(name)) \in DOMAIN syms
<1>1. OpenProtos(name) \in SUBSET (0 .. Len(syms))
  BY Symbols DEF OpenProtos, SymsNamed
<1>2. Max(OpenProtos(name)) \in OpenProtos(name)
  BY <1>1, MaxFacts, Symbols
<1> QED BY <1>2 DEF OpenProtos, SymsNamed

(* The entries that stay when a block ends are the first ones.             *)
LEMMA KeptIsPrefix ==
  ASSUME TypeOK, NEW level
  PROVE  /\ KeptSyms(level) \in 0 .. Len(syms)
         /\ KeptSyms(level) # 0 => syms[KeptSyms(level)].lvl < level
<1> DEFINE S == {0} \cup {p \in DOMAIN syms : syms[p].lvl < level}
<1>1. S \in SUBSET (0 .. Len(syms)) /\ S # {}
  BY Symbols
<1>2. Max(S) \in S
  <2> HIDE DEF S
  <2> QED BY <1>1, MaxFacts, Symbols
<1> QED BY <1>1, <1>2 DEF KeptSyms

(* The three ways in which an instruction changes the symbols.             *)
Definition(name, data) ==
  data \in SymDataType /\ data.kind # "proto" /\ execOutDefSym(name, data)

LEMMA SymbolShapes ==
  ASSUME Inductive, NEW i \in CoutInstrs, Accepts(i), Translates(i)
  PROVE  \/ UNCHANGED symVars
         \/ \E data : Definition(i.name, data)
         \/ DeclareProto(i.name)
         \/ cmpoutSymTableDescendLvl(lvl) /\ UNCHANGED <<preData, defs>> /\ lvl' = lvl - 1
<1>1. CASE tableStack(i)
  <2> DEFINE data == SymData("stack", -8 * (Top.curr + i.num), NoSect)
  <2>1. Top.curr \in Nat /\ i.num \in Int
    BY Contexts, InstrFields DEF Inductive, ContextType
  <2>2. data \in SymDataType /\ data.kind # "proto"
    BY <2>1 DEF SymData, SymDataType, SymKinds, NoSect
  <2>3. execOutDefSym(i.name, data)
    BY <1>1 DEF tableStack
  <2> HIDE DEF data
  <2> QED BY <2>2, <2>3 DEF Definition
<1>2. CASE tableSimple(i)
  <2> DEFINE data == SymData("const", i.num, NoSect)
  <2>1. data \in SymDataType /\ data.kind # "proto"
    BY InstrFields DEF SymData, SymDataType, SymKinds, NoSect
  <2>2. execOutDefSym(i.name, data)
    BY <1>2 DEF tableSimple
  <2> HIDE DEF data
  <2> QED BY <2>1, <2>2 DEF Definition
<1>3. CASE tableHere(i)
  <2> DEFINE data == SymData("label", sects[Here].size, Here)
  <2>1. Here # NoSect
    BY <1>3 DEF Accepts, ReadsNowhere, tableHere
  <2>2. Here \in DOMAIN sects
    BY <2>1, Contexts DEF Inductive, InsideSects, Here, Top, Depth
  <2>3. sects[Here].size \in Nat /\ Here \in Nat
    BY <2>2, Contexts, SectsTyped, Sections DEF Inductive
  <2>4. data \in SymDataType /\ data.kind # "proto"
    BY <2>3 DEF SymData, SymDataType, SymKinds
  <2>5. execOutDefSym(i.name, data)
    BY <1>3 DEF tableHere
  <2> HIDE DEF data
  <2> QED BY <2>4, <2>5 DEF Definition
<1>4. CASE tablePre(i)
  BY <1>4 DEF tablePre
<1>5. CASE tableAddSect(i) \/ beginBlock(i) \/ beginSect(i)
  BY <1>5 DEF tableAddSect, beginBlock, beginSect
<1>6. CASE endBlock(i) \/ endSect(i)
  BY <1>6 DEF endBlock, endSect, closeBlock
<1> QED BY <1>1, <1>2, <1>3, <1>4, <1>5, <1>6
  DEF Translates, translateGenericInstr, translateConstInstr, translateSymConstInstr,
      translateLoadInstr, translateStoreInstr, translateNeverJump, translateNearJump,
      translateIndirectJump, translateCall, translateRet, translateRetCB, ignored

(* Definitions, prototypes and the ends of blocks keep the symbols' types. *)
LEMMA SymbolsKept ==
  ASSUME Inductive, NEW i \in CoutInstrs, Accepts(i), Translates(i)
  PROVE  /\ syms' \in Seq(SymbolType)
         /\ preData' \in Seq(SymDataType) /\ defs' \in Seq(SymDataType)
         /\ ProtosNumbered' /\ DOMAIN defs \subseteq DOMAIN defs'
<1>1. /\ TypeOK /\ ProtosNumbered /\ i.name \in STRING /\ lvl \in Nat /\ Depth \in Nat
      /\ preData \in Seq(SymDataType) /\ defs \in Seq(SymDataType)
      /\ Len(preData) = Len(defs) + 1 /\ Len(defs) \in Nat /\ DOMAIN defs = 1 .. Len(defs)
  BY InstrFields, Contexts, LenProperties DEF Inductive, TypeOK, ProtosNumbered
<1>2. CASE UNCHANGED symVars
  BY <1>1, <1>2, Symbols DEF symVars, ProtosNumbered
<1>3. ASSUME NEW data, Definition(i.name, data)
      PROVE  /\ syms' \in Seq(SymbolType)
             /\ preData' \in Seq(SymDataType) /\ defs' \in Seq(SymDataType)
             /\ ProtosNumbered' /\ DOMAIN defs \subseteq DOMAIN defs'
  <2>1. data \in SymDataType /\ data.kind # "proto" /\ execOutDefSym(i.name, data)
    BY <1>3 DEF Definition
  <2>2. CASE OpenProtos(i.name) = {}
    <3>1. syms' = Append(syms, Symbol(i.name, data)) /\ UNCHANGED <<preData, defs>>
      BY <2>1, <2>2 DEF execOutDefSym
    <3>2. Symbol(i.name, data) \in SymbolType /\ Symbol(i.name, data).data = data
      BY <1>1, <2>1 DEF Symbol, SymbolType
    <3>3. /\ syms' \in Seq(SymbolType) /\ DOMAIN syms' = 1 .. Len(syms) + 1
          /\ \A p \in 1 .. Len(syms) : syms'[p] = syms[p]
          /\ syms'[Len(syms) + 1] = Symbol(i.name, data)
      BY <1>1, <3>1, <3>2, Symbols, AppendProperties, LenProperties
    <3>4. ProtosNumbered'
      BY <1>1, <2>1, <3>1, <3>2, <3>3, Symbols DEF ProtosNumbered
    <3> QED BY <1>1, <3>1, <3>3, <3>4
  <2>3. CASE OpenProtos(i.name) # {}
    <3> DEFINE p == Max(OpenProtos(i.name))
               e == [syms[p] EXCEPT !.data = data]
    <3>1. /\ preData' = [preData EXCEPT ![syms[p].data.val + 1] = data]
          /\ defs' = [defs EXCEPT ![syms[p].data.val] = data]
          /\ syms' = [syms EXCEPT ![p].data = data]
      BY <2>1, <2>3 DEF execOutDefSym, FillEntry
    <3>2. p \in DOMAIN syms
      BY <1>1, <2>3, NewestProto
    <3>3. e \in SymbolType /\ e.data = data
      BY <1>1, <2>1, <3>2, Symbols DEF SymbolType
    <3>4. syms' = [syms EXCEPT ![p] = e]
      BY <3>1, <3>2
    <3> HIDE DEF p, e
    <3>5. /\ syms' \in Seq(SymbolType) /\ DOMAIN syms' = DOMAIN syms
          /\ \A q \in DOMAIN syms : syms'[q] = IF q = p THEN e ELSE syms[q]
      BY <1>1, <3>2, <3>3, <3>4, Symbols, ExceptTyped
    <3>6. /\ preData' \in Seq(SymDataType) /\ Len(preData') = Len(preData)
          /\ defs' \in Seq(SymDataType) /\ Len(defs') = Len(defs)
      BY <1>1, <2>1, <3>1, ExceptTyped
    <3>7. DOMAIN defs' = DOMAIN defs
      BY <1>1, <3>1
    <3>8. ProtosNumbered'
      <4>1. syms[p].data.kind = "proto"
        BY <1>1, <2>3, NewestProto DEF OpenProtos, p
      <4>2. \A q \in DOMAIN syms' :
              syms'[q].data.kind = "proto" => q # p /\ syms'[q] = syms[q] /\ q \in DOMAIN syms
        BY <2>1, <3>3, <3>5
      <4>3. \A d \in DOMAIN defs : d # syms[p].data.val => defs'[d] = defs[d]
        BY <3>1
      <4> QED BY <1>1, <3>2, <3>6, <3>7, <4>1, <4>2, <4>3 DEF ProtosNumbered
    <3> QED BY <3>5, <3>6, <3>7, <3>8
  <2> QED BY <2>2, <2>3
<1>4. CASE DeclareProto(i.name)
  <2> DEFINE slot == Len(preData)
             first == SymData("proto", 0, Here)
             proto == SymData("proto", slot, Here)
  <2>1. /\ preData' = Append([preData EXCEPT ![slot] = first], NoData)
        /\ defs' = Append(defs, NoData)
        /\ syms' = Append(syms, Symbol(i.name, proto))
    BY <1>4 DEF DeclareProto
  <2>2. Here \in Nat
    BY Contexts DEF Inductive
  <2>3. first \in SymDataType /\ proto \in SymDataType /\ NoData \in SymDataType
    BY <1>1, <2>2 DEF SymData, SymDataType, SymKinds, NoData, NoSect
  <2>4. Symbol(i.name, proto) \in SymbolType /\ Symbol(i.name, proto).data = proto
    BY <1>1, <2>3 DEF Symbol, SymbolType
  <2>5. /\ syms' \in Seq(SymbolType) /\ DOMAIN syms' = 1 .. Len(syms) + 1
        /\ \A p \in 1 .. Len(syms) : syms'[p] = syms[p]
        /\ syms'[Len(syms) + 1] = Symbol(i.name, proto)
    BY <1>1, <2>1, <2>4, Symbols, AppendProperties, LenProperties
  <2>6. /\ defs' \in Seq(SymDataType) /\ Len(defs') = Len(defs) + 1
        /\ \A d \in 1 .. Len(defs) : defs'[d] = defs[d]
        /\ defs'[Len(defs) + 1] = NoData
    BY <1>1, <2>1, <2>3, AppendProperties
  <2>7. DOMAIN defs' = 1 .. Len(defs) + 1
    BY <1>1, <2>6, LenProperties
  <2>8. preData' \in Seq(SymDataType) /\ Len(preData') = Len(preData) + 1
    <3> HIDE DEF slot, first
    <3>1. /\ [preData EXCEPT ![slot] = first] \in Seq(SymDataType)
          /\ Len([preData EXCEPT ![slot] = first]) = Len(preData)
      BY <1>1, <2>3, ExceptTyped
    <3> QED BY <2>1, <2>3, <3>1, AppendProperties
  <2>9. ProtosNumbered'
    <3>1. /\ syms'[Len(syms) + 1].data.kind = "proto"
          /\ syms'[Len(syms) + 1].data.val = Len(defs) + 1
      BY <1>1, <2>4, <2>5 DEF SymData
    <3>3. Len(preData') = Len(defs') + 1
      BY <1>1, <2>6, <2>8
    <3> DEFINE n == Len(syms) + 1
               m == Len(defs) + 1
    <3>4. /\ DOMAIN syms' = DOMAIN syms \cup {n} /\ n \notin DOMAIN syms
          /\ DOMAIN defs' = DOMAIN defs \cup {m} /\ m \notin DOMAIN defs
      BY <1>1, <2>5, <2>7, Symbols
    <3>5. /\ \A p \in DOMAIN syms : syms'[p] = syms[p]
          /\ \A d \in DOMAIN defs : defs'[d] = defs[d]
      BY <1>1, <2>5, <2>6, Symbols
    <3>6. syms'[n].data.kind = "proto" /\ syms'[n].data.val = m /\ defs'[m] = NoData
      BY <2>6, <3>1
    <3> HIDE DEF n, m
    <3> QED BY <1>1, <3>3, <3>4, <3>5, <3>6 DEF ProtosNumbered
  <2> QED BY <1>1, <2>5, <2>6, <2>7, <2>8, <2>9
<1>5. CASE cmpoutSymTableDescendLvl(lvl) /\ UNCHANGED <<preData, defs>>
  <2>1. syms' = SubSeq(syms, 1, KeptSyms(lvl)) /\ KeptSyms(lvl) \in 0 .. Len(syms)
    BY <1>1, <1>5, KeptIsPrefix DEF cmpoutSymTableDescendLvl
  <2>2. \A p \in 1 .. KeptSyms(lvl) : p \in DOMAIN syms /\ syms[p] \in SymbolType
    BY <1>1, <2>1, Symbols
  <2>3. /\ syms' \in Seq(SymbolType) /\ Len(syms') = KeptSyms(lvl)
        /\ \A p \in 1 .. KeptSyms(lvl) : syms'[p] = syms[p]
    BY <2>1, <2>2, Symbols, SubSeqProperties
  <2>4. DOMAIN syms' = 1 .. KeptSyms(lvl)
    BY <2>3, LenProperties
  <2> QED BY <1>1, <1>5, <2>2, <2>3, <2>4 DEF ProtosNumbered
<1> QED BY <1>2, <1>3, <1>4, <1>5, SymbolShapes

(* A reference is written with the code around it.                         *)
ReferenceStep ==
  \E name : \E relative \in BOOLEAN, off, size, code \in Nat :
    /\ IsKnown(name) /\ Here \in DOMAIN sects
    /\ off + size <= code /\ size > 0 /\ Emit(code)
    /\ execOutPutSym(name, off, size, relative)
    /\ UNCHANGED symVars

(* What the operand of each kind of instruction needs: its field lies in   *)
(* the code of the instruction.                                            *)
LEMMA ReferenceShapes ==
  ASSUME Inductive, NEW i \in CoutInstrs, Accepts(i), Translates(i)
  PROVE  UNCHANGED refVars \/ ReferenceStep
<1>1. /\ i.argc \in Nat /\ i.retc \in Nat
      /\ WritesCode(i) => Here \in DOMAIN sects
      /\ NamesSymbol(i) => IsKnown(TargetName(i))
      /\ i.type = "LCONST" => IsKnown(i.name)
  BY InstrFields, WritesInside DEF Accepts, Refused, ReadsNowhere
<1>2. ASSUME NEW name, NEW off \in Nat, NEW size \in {4, 8}, NEW code \in Nat,
             IsKnown(name), Here \in DOMAIN sects, off + size <= code, Emit(code),
             \/ execOutPutSym(name, off, size, FALSE)
             \/ execOutPutSym(name, off, size, TRUE),
             UNCHANGED symVars
      PROVE  ReferenceStep
  <2>1. size \in Nat /\ size > 0
    OBVIOUS
  <2>2. PICK relative \in BOOLEAN : execOutPutSym(name, off, size, relative)
    BY <1>2
  <2> QED BY <1>2, <2>1, <2>2 DEF ReferenceStep
<1>3. CASE translateSymConstInstr(i)
  <2>1. CASE UNCHANGED refVars
    BY <2>1
  <2>2. CASE Plain(i, AddressConstSize) /\ execOutPutSym(i.name, 1, 8, FALSE)
    <3>1. Here \in DOMAIN sects /\ IsKnown(i.name) /\ UNCHANGED symVars
      BY <1>1, <1>3 DEF translateSymConstInstr, WritesCode
    <3>2. Emit(AddressConstSize) /\ AddressConstSize \in Nat /\ 1 + 8 <= AddressConstSize
      BY <2>2 DEF Plain, AddressConstSize
    <3> QED BY <1>2, <2>2, <3>1, <3>2
  <2> QED BY <1>3, <2>1, <2>2 DEF translateSymConstInstr
<1>4. CASE translateLoadInstr(i)
  <2>1. CASE i.name = NoName
    BY <1>4, <2>1 DEF translateLoadInstr, Operand
  <2>2. CASE i.name # NoName
    <3> DEFINE off == translateMemOffset(i.mod)
               code == translateMemSize(i.mod) + 1
    <3>1. Here \in DOMAIN sects /\ IsKnown(i.name) /\ UNCHANGED symVars
      BY <1>1, <1>4, <2>2 DEF translateLoadInstr, WritesCode, NamesSymbol, TargetName
    <3>2. Emit(code) /\ execOutPutSym(i.name, off, 4, FALSE)
      BY <1>4, <2>2 DEF translateLoadInstr, Plain, Operand
    <3>3. off \in Nat /\ code \in Nat /\ off + 4 <= code
      BY DEF translateMemOffset, translateMemSize
    <3> HIDE DEF off, code
    <3> QED BY <1>2, <3>1, <3>2, <3>3
  <2> QED BY <2>1, <2>2
<1>5. CASE translateStoreInstr(i)
  <2>1. CASE i.name = NoName
    BY <1>5, <2>1 DEF translateStoreInstr, Operand
  <2>2. CASE i.name # NoName
    <3> DEFINE off == 1 + translateMemOffset(i.mod)
               code == 1 + translateMemSize(i.mod)
    <3>1. Here \in DOMAIN sects /\ IsKnown(i.name) /\ UNCHANGED symVars
      BY <1>1, <1>5, <2>2 DEF translateStoreInstr, WritesCode, NamesSymbol, TargetName
    <3>2. Emit(code) /\ execOutPutSym(i.name, off, 4, FALSE)
      BY <1>5, <2>2 DEF translateStoreInstr, Plain, Operand
    <3>3. off \in Nat /\ code \in Nat /\ off + 4 <= code
      BY DEF translateMemOffset, translateMemSize
    <3> HIDE DEF off, code
    <3> QED BY <1>2, <3>1, <3>2, <3>3
  <2> QED BY <2>1, <2>2
<1>6. CASE translateNearJump(i)
  <2> DEFINE off == longJmpBinCodes(i.id)
             code == longJmpBinCodes(i.id) + 4
  <2>1. Here \in DOMAIN sects /\ IsKnown(i.name) /\ UNCHANGED symVars
    BY <1>1, <1>6 DEF translateNearJump, WritesCode, NamesSymbol, WritesJump, TargetName
  <2>2. Emit(code) /\ execOutPutSym(i.name, off, 4, TRUE)
    BY <1>6 DEF translateNearJump, Plain
  <2>3. off \in Nat /\ code \in Nat /\ off + 4 <= code
    BY CodeSizes
  <2> HIDE DEF off, code
  <2> QED BY <1>2, <2>1, <2>2, <2>3
<1>7. CASE translateIndirectJump(i)
  <2> DEFINE skip == shortJmpBinCodes(invertFlagCondition(i.id)) + 1
             off == skip + translateMemOffset(i.mod)
             code == skip + translateMemSize(i.mod)
  <2>1. Here \in DOMAIN sects /\ IsKnown(i.name) /\ UNCHANGED symVars
    BY <1>1, <1>7 DEF translateIndirectJump, WritesCode, NamesSymbol, WritesJump, TargetName
  <2>2. Emit(code) /\ execOutPutSym(i.name, off, 4, FALSE)
    BY <1>7 DEF translateIndirectJump, Plain
  <2>3. off \in Nat /\ code \in Nat /\ off + 4 <= code
    BY DEF translateMemOffset, translateMemSize, shortJmpBinCodes, INSTR
  <2> HIDE DEF skip, off, code
  <2> QED BY <1>2, <2>1, <2>2, <2>3
<1>8. CASE translateCall(i)
  <2> DEFINE args == addArgRetEncode(i.argc, FALSE)
             rets == addArgRetDecode(i.retc, TRUE)
  <2>1. Here \in DOMAIN sects /\ IsKnown(i.name) /\ UNCHANGED symVars
    BY <1>1, <1>8 DEF translateCall, WritesCode, NamesSymbol, IsReturn, TargetName
  <2>2. Emit(args + 5 + rets) /\ execOutPutSym(i.name, args + 1, 4, TRUE)
    BY <1>8 DEF translateCall, Plain
  <2>3. args \in Nat /\ rets \in Nat
    BY <1>1, CodeSizes
  <2> HIDE DEF args, rets
  <2>4. args + 1 \in Nat /\ args + 5 + rets \in Nat /\ args + 1 + 4 <= args + 5 + rets
    BY <2>3
  <2> QED BY <1>2, <2>1, <2>2, <2>4
<1>9. CASE translateRetCB(i)
  <2> DEFINE args == addArgRetEncode(i.argc, TRUE)
  <2>1. Here \in DOMAIN sects /\ IsKnown(TargetName(i)) /\ UNCHANGED symVars
    BY <1>1, <1>9 DEF translateRetCB, WritesCode, NamesSymbol, IsReturn
  <2>2. Emit(args + 5) /\ execOutPutSym(TargetName(i), args + 1, 4, TRUE)
    BY <1>9 DEF translateRetCB, Plain
  <2>3. args \in Nat
    BY <1>1, CodeSizes
  <2> HIDE DEF args
  <2>4. args + 1 \in Nat /\ args + 5 \in Nat /\ args + 1 + 4 <= args + 5
    BY <2>3
  <2> QED BY <1>2, <2>1, <2>2, <2>4
<1> QED BY <1>3, <1>4, <1>5, <1>6, <1>7, <1>8, <1>9
  DEF Translates, translateGenericInstr, translateConstInstr, translateNeverJump, translateRet,
      tableStack, tableSimple, tableHere, tablePre, tableAddSect, ignored, beginBlock,
      beginSect, endBlock, endSect, closeBlock

LEMMA ReferencesKept ==
  ASSUME Inductive, NEW i \in CoutInstrs, Accepts(i), Translates(i)
  PROVE  /\ preTbl' \in Seq(RelocationEntry) /\ relt' \in Seq(RelocationEntry)
         /\ fields' \in SUBSET FieldType
         /\ TargetsNumbered'
<1>1. /\ TypeOK /\ ProtosNumbered /\ TargetsNumbered
      /\ preTbl \in Seq(RelocationEntry) /\ relt \in Seq(RelocationEntry)
      /\ fields \in SUBSET FieldType
      /\ DOMAIN defs \subseteq DOMAIN defs' /\ DOMAIN defs = 1 .. Len(defs) /\ Len(defs) \in Nat
  BY SymbolsKept, LenProperties DEF Inductive, TypeOK, FieldType
<1>2. CASE UNCHANGED refVars
  BY <1>1, <1>2 DEF refVars, TargetsNumbered
<1>3. CASE ReferenceStep
  <2>1. PICK name : \E relative \in BOOLEAN, off, size \in Nat :
          /\ IsKnown(name) /\ Here \in DOMAIN sects
          /\ execOutPutSym(name, off, size, relative)
    BY <1>3 DEF ReferenceStep
  <2>2. PICK relative \in BOOLEAN, off \in Nat, size \in Nat :
          /\ IsKnown(name) /\ Here \in DOMAIN sects
          /\ execOutPutSym(name, off, size, relative)
    BY <2>1
  <2> DEFINE data == Lookup(name)
             proto == data.kind = "proto"
             entry(to) == Relocation(off, to, size, relative)
  <2>3. data \in SymDataType /\ Max(SymsNamed(name)) \in DOMAIN syms
    BY <1>1, <2>2, KnownSymbol
  <2>4. proto => data.val \in DOMAIN defs /\ data.val \in Nat
    BY <1>1, <2>3 DEF ProtosNumbered, Lookup
  <2>5. \A to \in Nat : entry(to) \in RelocationEntry /\ entry(to).to = to
    <3>1. Here \in Nat /\ sects[Here].size \in Nat
      BY <1>1, <2>2, Contexts, SectsTyped, Sections DEF Inductive
    <3> QED BY <2>2, <3>1 DEF Relocation, RelocationEntry
  <2>6. /\ preTbl' = IF proto THEN Append(preTbl, entry(data.val)) ELSE preTbl
        /\ relt' = IF MovesApart(data, relative) THEN Append(relt, entry(data.sect)) ELSE relt
        /\ fields' = fields \cup {[place |-> entry(0), slot |-> IF proto THEN data.val ELSE 0,
                                   data |-> IF proto THEN NoData ELSE data]}
    BY <2>2 DEF execOutPutSym
  <2>7. data.sect \in Nat /\ NoData \in SymDataType /\ 0 \in Nat
    BY <2>3 DEF SymDataType, NoData, SymData, SymKinds, NoSect
  <2> HIDE DEF data, proto, entry
  <2>8. fields' \in SUBSET FieldType
    BY <1>1, <2>3, <2>4, <2>5, <2>6, <2>7 DEF FieldType
  <2>9. relt' \in Seq(RelocationEntry)
    BY <1>1, <2>5, <2>6, <2>7, AppendProperties
  <2>10. preTbl' \in Seq(RelocationEntry) /\ TargetsNumbered'
    <3>1. CASE ~ proto
      BY <1>1, <2>6, <3>1 DEF TargetsNumbered
    <3>2. CASE proto
      <4>1. /\ preTbl' \in Seq(RelocationEntry) /\ Len(preTbl') = Len(preTbl) + 1
            /\ \A e \in 1 .. Len(preTbl) : preTbl'[e] = preTbl[e]
            /\ preTbl'[Len(preTbl) + 1] = entry(data.val)
        BY <1>1, <2>4, <2>5, <2>6, <3>2, AppendProperties
      <4>2. DOMAIN preTbl' = 1 .. Len(preTbl) + 1 /\ DOMAIN preTbl = 1 .. Len(preTbl)
            /\ Len(preTbl) \in Nat
        BY <1>1, <4>1, LenProperties
      <4> QED BY <1>1, <2>4, <2>5, <3>2, <4>1, <4>2 DEF TargetsNumbered
    <3> QED BY <3>1, <3>2
  <2> QED BY <2>8, <2>9, <2>10
<1> QED BY <1>2, <1>3, ReferenceShapes

-----------------------------------------------------------------------------
(* The invariant holds.                                                    *)

LEMMA InductiveInit ==
  Init => Inductive
<1> SUFFICES ASSUME Init PROVE Inductive
  OBVIOUS
<1> USE DEF Init
<1>1. /\ Context("ROOT", NoSect, 0, 0) \in ContextType
      /\ NoData \in SymDataType
  BY DEF Context, ContextType, ContextTypes, NoSect, NoData, SymData, SymDataType, SymKinds
<1>2. /\ ctx = <<Context("ROOT", NoSect, 0, 0)>> /\ Len(ctx) = 1
      /\ ctx[1] = Context("ROOT", NoSect, 0, 0)
  OBVIOUS
<1>3. ctx \in Seq(ContextType) /\ preData \in Seq(SymDataType) 
  BY <1>1
<1>4. TypeOK
  BY <1>2, <1>3 DEF TypeOK, ContextType, Statuses
<1>5. BlocksStack /\ WithinDepth /\ InsideSects /\ OpenSectionsExclusive
  BY <1>2, StreamAssumption
  DEF BlocksStack, WithinDepth, InsideSects, OpenSectionsExclusive, OpenSects, Depth, Context, NoSect
<1>6. ProtosNumbered /\ TargetsNumbered
  BY DEF ProtosNumbered, TargetsNumbered
<1> QED BY <1>4, <1>5, <1>6 DEF Inductive

(* A variable in a section is one more label, and makes the section longer. *)
LEMMA MisreadKeeps ==
  ASSUME Inductive, NEW i \in CoutInstrs, misread(i)
  PROVE  Inductive'
<1>1. /\ tableSect(i) /\ Accepts(i) /\ i.type = "TABLE" /\ i.id = "SECT"
      /\ status' = "misaligned" /\ ip' = ip + 1 /\ UNCHANGED <<blkVars, preData, defs, refVars>>
  BY DEF misread, tableSect
<1> DEFINE s == Max(FreeSects(i.sect))
           e == [sects[s] EXCEPT !.size = @ + i.num]
           label == SymData("label", sects[s].size, s)
<1>2. /\ syms' = Append(syms, Symbol(i.name, label))
      /\ sects' = [sects EXCEPT ![s].size = @ + i.num]
  BY <1>1 DEF tableSect
<1>3. /\ sects \in Seq(SectionType) /\ Len(sects) \in Nat /\ DOMAIN sects = 1 .. Len(sects)
      /\ \A t \in DOMAIN sects : sects[t] \in SectionType /\ sects[t].size \in Nat
  BY SectsTyped, Sections DEF Inductive
<1>4. s \in DOMAIN sects /\ i.num \in Nat /\ i.name \in STRING
  <2>1. FreeSects(i.sect) # {}
    BY <1>1 DEF Accepts, ReadsNowhere
  <2>2. FreeSects(i.sect) \in SUBSET (0 .. Len(sects))
    BY <1>3 DEF FreeSects
  <2>3. s \in FreeSects(i.sect)
    BY <1>3, <2>1, <2>2, MaxFacts
  <2> QED BY <1>1, <2>3, InstrFields DEF FreeSects
<1>5. e \in SectionType /\ e.size >= sects[s].size /\ e.used = sects[s].used
  BY <1>3, <1>4, SectionRecords
<1>6. label \in SymDataType /\ label.kind # "proto"
  BY <1>3, <1>4 DEF SymData, SymDataType, SymKinds
<1>7. sects' = [sects EXCEPT ![s] = e]
  BY <1>2
<1> HIDE DEF s, e, label
<1>8. /\ sects' \in Seq(SectionType) /\ DOMAIN sects' = DOMAIN sects
      /\ \A t \in DOMAIN sects : sects'[t].used = sects[t].used
  BY <1>3, <1>4, <1>5, <1>7, SectionChanged
<1>9. /\ syms' \in Seq(SymbolType) /\ DOMAIN syms' = 1 .. Len(syms) + 1
      /\ \A p \in 1 .. Len(syms) : syms'[p] = syms[p]
      /\ syms'[Len(syms) + 1].data = label
  <2>1. Symbol(i.name, label) \in SymbolType /\ Symbol(i.name, label).data = label
    BY <1>4, <1>6, Contexts DEF Symbol, SymbolType, Inductive, TypeOK
  <2> QED BY <1>2, <2>1, Symbols, AppendProperties, LenProperties DEF Inductive
<1>10. TypeOK'
  BY <1>1, <1>8, <1>9
  DEF Inductive, TypeOK, SectionType, SymbolType, Statuses, blkVars, refVars
<1>11. BlocksStack' /\ WithinDepth' /\ TargetsNumbered'
  BY <1>1
  DEF Inductive, BlocksStack, WithinDepth, TargetsNumbered, Depth, blkVars, refVars
<1>12. InsideSects' /\ OpenSectionsExclusive'
  BY <1>1, <1>8 DEF Inductive, InsideSects, OpenSectionsExclusive, OpenSects, blkVars
<1>13. ProtosNumbered'
  BY <1>1, <1>6, <1>9, Symbols DEF Inductive, ProtosNumbered
<1> QED BY <1>10, <1>11, <1>12, <1>13 DEF Inductive

LEMMA InductiveStep ==
  Inductive /\ [Takes]_vars => Inductive'
<1> SUFFICES ASSUME Inductive, [Takes]_vars PROVE Inductive'
  OBVIOUS
<1>1. ip \in Nat
  BY DEF Inductive, TypeOK
<1>2. ASSUME NEW i \in CoutInstrs, translateInstruction(i)
      PROVE  Inductive'
  <2>1. Accepts(i) /\ Translates(i) /\ WithinDepth' /\ ip' = ip + 1 /\ status' = status
    BY <1>2 DEF translateInstruction
  <2>2. StackOf(ctx') /\ lvl' = Len(ctx') - 1
    BY <2>1, ContextsKept
  <2>3. BlocksStack'
    <3>1. ctx' \in Seq(ContextType) /\ DOMAIN ctx' = 1 .. Len(ctx')
      BY <2>2, LenProperties DEF StackOf
    <3>2. \A k \in DOMAIN ctx' : 0 <= ctx'[k].beg
      <4>1. \A k \in DOMAIN ctx' : ctx'[k] \in ContextType
        BY <3>1, ElementOfSeq
      <4> QED BY <4>1 DEF ContextType
    <3> QED BY <2>2, <3>1, <3>2 DEF StackOf, BlocksStack, Depth
  <2>4. TypeOK'
    <3>1. ctx' \in Seq(ContextType) /\ ctx' # <<>> /\ lvl' \in Nat
      BY <2>1, <2>2 DEF StackOf
    <3>2. /\ sects' \in Seq(SectionType) /\ syms' \in Seq(SymbolType)
          /\ preData' \in Seq(SymDataType) /\ defs' \in Seq(SymDataType)
          /\ preTbl' \in Seq(RelocationEntry) /\ relt' \in Seq(RelocationEntry)
          /\ fields' \in SUBSET FieldType
      BY <2>1, SectionsKept, SymbolsKept, ReferencesKept
    <3>3. status' \in Statuses /\ ip' \in Nat
      BY <1>1, <2>1 DEF Inductive, TypeOK
    <3> QED BY <3>1, <3>2, <3>3 DEF TypeOK, ContextType, SectionType, SymbolType, FieldType
  <2>5. InsideSects' /\ OpenSectionsExclusive' /\ ProtosNumbered' /\ TargetsNumbered'
    BY <2>1, SectionsOfContextsKept, SymbolsKept, ReferencesKept
  <2> QED BY <2>1, <2>3, <2>4, <2>5 DEF Inductive
<1>3. ASSUME UNCHANGED <<ip, outVars>>, status' \in Statuses
      PROVE  Inductive'
  BY <1>3
  DEF Inductive, TypeOK, BlocksStack, WithinDepth, InsideSects, OpenSectionsExclusive, OpenSects,
      ProtosNumbered, TargetsNumbered, Depth, outVars, blkVars, symVars, refVars
<1>4. ASSUME NEW i \in CoutInstrs, reject(i) \/ abort(i) \/ derail(i)
      PROVE  Inductive'
  <2>1. UNCHANGED <<ip, outVars>> /\ status' \in Statuses
    BY <1>4 DEF reject, abort, derail, Statuses
  <2> QED BY <1>3, <2>1
<1>5. CASE endOfStream
  <2>1. UNCHANGED <<ip, outVars>> /\ status' \in Statuses
    BY <1>5 DEF endOfStream, Statuses
  <2> QED BY <1>3, <2>1
<1>6. CASE UNCHANGED vars
  <2>1. UNCHANGED <<ip, outVars>> /\ status' \in Statuses
    BY <1>6 DEF vars, outVars, Inductive, TypeOK
  <2> QED BY <1>3, <2>1
<1> QED BY <1>1, <1>2, <1>4, <1>5, <1>6, MisreadKeeps DEF Takes, Take

(* The invariant the other results rest on.                                *)
THEOREM InductiveHolds ==
  Spec => []Inductive
<1>1. Inductive /\ [Next]_vars => Inductive'
  BY NextTakes, InductiveStep DEF Inductive, TypeOK
<1> QED BY <1>1, InductiveInit, PTL DEF Spec

(* Every variable keeps its type, whatever the stream: in particular no    *)
(* block's account of execOutContext falls below the block's beginning.    *)
THEOREM TypesHold ==
  Spec => []TypeOK
<1>1. Inductive => TypeOK
  BY DEF Inductive
<1> QED BY <1>1, InductiveHolds, PTL

(* The contexts of exec_output.cpp stack as the frames of the language do. *)
THEOREM BlocksStackHolds ==
  Spec => []BlocksStack
<1>1. Inductive => BlocksStack
  BY DEF Inductive
<1> QED BY <1>1, InductiveHolds, PTL

(* No two open blocks write to one section, however they are nested.       *)
THEOREM OpenSectionsHold ==
  Spec => []OpenSectionsExclusive
<1>1. Inductive => OpenSectionsExclusive
  BY DEF Inductive
<1> QED BY <1>1, InductiveHolds, PTL

(* Prototypes are told apart by their numbers, in any nesting of scopes.   *)
THEOREM PrototypesNumberedHolds ==
  Spec => []PrototypesNumbered
<1>1. Inductive => PrototypesNumbered
  BY DEF Inductive, ProtosNumbered, TargetsNumbered, PrototypesNumbered
<1> QED BY <1>1, InductiveHolds, PTL

-----------------------------------------------------------------------------
(* The account implements nested blocks.                                   *)

BlockType == [kind : ContextTypes, own : Nat]
BlocksOf(c) == SubSeq([k \in DOMAIN c |-> BlockOf(c[k])], 1, Len(c))

-----------------------------------------------------------------------------
(* How the mapping acts on stacks of contexts.                             *)

LEMMA BlocksOfStack ==
  ASSUME NEW c, StackOf(c)
  PROVE  /\ BlocksOf(c) \in Seq(BlockType) /\ Len(BlocksOf(c)) = Len(c)
         /\ \A k \in 1 .. Len(c) : /\ BlocksOf(c)[k] = BlockOf(c[k])
                                   /\ BlockOf(c[k]) \in BlockType
<1>1. /\ c \in Seq(ContextType) /\ Len(c) \in Nat /\ DOMAIN c = 1 .. Len(c)
      /\ \A k \in 1 .. Len(c) : c[k] \in ContextType /\ c[k].beg <= c[k].curr
  BY LenProperties, ElementOfSeq DEF StackOf
<1>2. \A k \in 1 .. Len(c) : BlockOf(c[k]) \in BlockType
  BY <1>1 DEF BlockOf, BlockType, ContextType
<1> DEFINE f == [k \in DOMAIN c |-> BlockOf(c[k])]
<1>3. \A k \in 1 .. Len(c) : f[k] = BlockOf(c[k]) /\ f[k] \in BlockType
  BY <1>1, <1>2
<1>4. BlocksOf(c) = SubSeq(f, 1, Len(c))
  BY DEF BlocksOf
<1> HIDE DEF f
<1>5. /\ BlocksOf(c) \in Seq(BlockType) /\ Len(BlocksOf(c)) = Len(c)
      /\ \A k \in 1 .. Len(c) : BlocksOf(c)[k] = f[k]
  BY <1>1, <1>3, <1>4, SubSeqProperties
<1> QED BY <1>2, <1>3, <1>5

LEMMA BlocksOfResized ==
  ASSUME NEW c, StackOf(c), NEW n \in Nat, n >= c[Len(c)].beg
  PROVE  BlocksOf(Resize(c, n)) = [BlocksOf(c) EXCEPT ![Len(c)].own = n - c[Len(c)].beg]
<1> DEFINE d == Resize(c, n)
           b == [BlocksOf(c)[Len(c)] EXCEPT !.own = n - c[Len(c)].beg]
<1>1. /\ StackOf(d) /\ Len(d) = Len(c) /\ Len(c) \in Nat \ {0}
      /\ \A k \in 1 .. Len(c) : d[k] = IF k = Len(c) THEN [c[k] EXCEPT !.curr = n] ELSE c[k]
  BY Resized DEF StackOf
<1>2. c[Len(c)] \in ContextType
  BY ElementOfSeq DEF StackOf
<1>3. /\ BlocksOf(c) \in Seq(BlockType) /\ Len(BlocksOf(c)) = Len(c)
      /\ \A k \in 1 .. Len(c) : BlocksOf(c)[k] = BlockOf(c[k])
  BY BlocksOfStack
<1>4. /\ BlocksOf(d) \in Seq(BlockType) /\ Len(BlocksOf(d)) = Len(c)
      /\ \A k \in 1 .. Len(c) : BlocksOf(d)[k] = BlockOf(d[k])
  <2> HIDE DEF d
  <2> QED BY <1>1, BlocksOfStack
<1>5. b \in BlockType /\ b = BlockOf(d[Len(c)])
  <2>1. d[Len(c)] = [c[Len(c)] EXCEPT !.curr = n]
    BY <1>1
  <2>2. BlocksOf(c)[Len(c)] = [kind |-> c[Len(c)].type, own |-> c[Len(c)].curr - c[Len(c)].beg]
    <3>1. Len(c) \in 1 .. Len(c)
      BY <1>1
    <3> QED BY <1>3, <3>1 DEF BlockOf
  <2> HIDE DEF d
  <2>3. BlockOf(d[Len(c)]) = [kind |-> c[Len(c)].type, own |-> n - c[Len(c)].beg]
    BY <1>2, <2>1 DEF BlockOf, ContextType
  <2>4. n - c[Len(c)].beg \in Nat /\ c[Len(c)].type \in ContextTypes
    BY <1>2 DEF ContextType
  <2> QED BY <2>2, <2>3, <2>4 DEF BlockType
<1> HIDE DEF d, b
<1>6. /\ [BlocksOf(c) EXCEPT ![Len(c)] = b] \in Seq(BlockType)
      /\ Len([BlocksOf(c) EXCEPT ![Len(c)] = b]) = Len(c)
      /\ \A k \in 1 .. Len(c) : [BlocksOf(c) EXCEPT ![Len(c)] = b][k] = IF k = Len(c) THEN b
                                                                        ELSE BlocksOf(c)[k]
  BY <1>1, <1>3, <1>5, ExceptSeq
<1>7. \A k \in 1 .. Len(c) : k # Len(c) => BlocksOf(d)[k] = BlocksOf(c)[k]
  BY <1>1, <1>3, <1>4
<1>8. BlocksOf(d) = [BlocksOf(c) EXCEPT ![Len(c)] = b]
  BY <1>1, <1>4, <1>5, <1>6, <1>7, SeqEqual
<1> QED BY <1>8 DEF b, d

LEMMA BlocksOfOpened ==
  ASSUME NEW c, StackOf(c), NEW x \in ContextType, StackOf(Append(c, x))
  PROVE  BlocksOf(Append(c, x)) = Append(BlocksOf(c), BlockOf(x))
<1> DEFINE d == Append(c, x)
<1>1. /\ Len(d) = Len(c) + 1 /\ Len(c) \in Nat /\ d[Len(c) + 1] = x
      /\ \A k \in 1 .. Len(c) : d[k] = c[k]
  BY AppendProperties DEF StackOf
<1>2. /\ BlocksOf(c) \in Seq(BlockType) /\ Len(BlocksOf(c)) = Len(c)
      /\ \A k \in 1 .. Len(c) : BlocksOf(c)[k] = BlockOf(c[k])
  BY BlocksOfStack
<1>3. StackOf(d)
  OBVIOUS
<1> HIDE DEF d
<1>4. /\ BlocksOf(d) \in Seq(BlockType) /\ Len(BlocksOf(d)) = Len(c) + 1
      /\ \A k \in 1 .. Len(c) + 1 : BlocksOf(d)[k] = BlockOf(d[k]) /\ BlockOf(d[k]) \in BlockType
  BY <1>1, <1>3, BlocksOfStack
<1>5. BlockOf(x) \in BlockType
  BY <1>1, <1>4
<1>6. /\ Append(BlocksOf(c), BlockOf(x)) \in Seq(BlockType)
      /\ Len(Append(BlocksOf(c), BlockOf(x))) = Len(c) + 1
      /\ \A k \in 1 .. Len(c) : Append(BlocksOf(c), BlockOf(x))[k] = BlocksOf(c)[k]
      /\ Append(BlocksOf(c), BlockOf(x))[Len(c) + 1] = BlockOf(x)
  BY <1>2, <1>5, AppendProperties
<1>7. \A k \in 1 .. Len(c) + 1 : BlocksOf(d)[k] = Append(BlocksOf(c), BlockOf(x))[k]
  BY <1>1, <1>2, <1>4, <1>6
<1>8. BlocksOf(d) = Append(BlocksOf(c), BlockOf(x))
  BY <1>4, <1>6, <1>7, SeqEqual
<1> QED BY <1>8 DEF d

LEMMA BlocksOfClosed ==
  ASSUME NEW c, StackOf(c), Len(c) > 1
  PROVE  BlocksOf(Outer(c)) = SubSeq(BlocksOf(c), 1, Len(c) - 1)
<1>1. /\ StackOf(Outer(c)) /\ Len(Outer(c)) = Len(c) - 1 /\ Len(c) \in Nat
      /\ \A k \in 1 .. Len(c) - 1 : Outer(c)[k] = c[k]
  BY Closed DEF StackOf
<1>2. /\ BlocksOf(c) \in Seq(BlockType) /\ Len(BlocksOf(c)) = Len(c)
      /\ \A k \in 1 .. Len(c) : BlocksOf(c)[k] = BlockOf(c[k]) /\ BlocksOf(c)[k] \in BlockType
  BY BlocksOfStack
<1>3. /\ BlocksOf(Outer(c)) \in Seq(BlockType) /\ Len(BlocksOf(Outer(c))) = Len(c) - 1
      /\ \A k \in 1 .. Len(c) - 1 : BlocksOf(Outer(c))[k] = BlockOf(Outer(c)[k])
  BY <1>1, BlocksOfStack
<1>4. /\ SubSeq(BlocksOf(c), 1, Len(c) - 1) \in Seq(BlockType)
      /\ Len(SubSeq(BlocksOf(c), 1, Len(c) - 1)) = Len(c) - 1
      /\ \A k \in 1 .. Len(c) - 1 : SubSeq(BlocksOf(c), 1, Len(c) - 1)[k] = BlocksOf(c)[k]
  BY <1>1, <1>2, SubSeqProperties
<1> QED BY <1>1, <1>2, <1>3, <1>4, SeqEqual

-----------------------------------------------------------------------------
(* The refinement.                                                         *)

LEMMA BlocksAre ==
  ASSUME TypeOK, BlocksStack
  PROVE  /\ Blocks = BlocksOf(ctx) /\ Len(Blocks) = Depth /\ StackOf(ctx) /\ Depth = Len(ctx)
         /\ NB!Inner = BlockOf(Top) /\ NB!Inner.kind = Top.type /\ NB!Inner.own = Own
<1>1. Blocks = BlocksOf(ctx)
  BY DEF Blocks, BlocksOf
<1>2. StackOf(ctx) /\ Depth = Len(ctx) /\ Depth \in Nat \ {0}
  BY StackOfContexts, Contexts DEF Depth
<1>3. Len(Blocks) = Depth /\ Blocks[Depth] = BlockOf(Top)
  BY <1>1, <1>2, BlocksOfStack DEF Top
<1> QED BY <1>1, <1>2, <1>3 DEF NB!Inner, BlockOf, Own

(* Values taken and given are bounded by what blocks may own.              *)
LEMMA BlocksBounded ==
  ASSUME Inductive, NEW i \in CoutInstrs, Accepts(i)
  PROVE  /\ i.argc \in 0 .. MaxDepth /\ i.argc <= Own /\ Own \in Nat /\ Own <= MaxDepth
         /\ i.retc \in Nat /\ MaxDepth \in Nat
<1>1. Own <= MaxDepth
  BY Contexts DEF Inductive, WithinDepth, Own, Top
<1> QED BY <1>1, Contexts, InstrFields, OwnedArguments, StreamAssumption DEF Inductive

LEMMA StepsRefine ==
  ASSUME Inductive, NEW i \in CoutInstrs, translateInstruction(i)
  PROVE  NB!Next \/ UNCHANGED Blocks
<1>1. Accepts(i) /\ Translates(i) /\ WithinDepth'
  BY DEF translateInstruction
<1>2. /\ TypeOK /\ BlocksStack /\ Depth \in Nat \ {0} /\ Top \in ContextType /\ Top = ctx[Depth]
      /\ Top.beg \in Nat /\ Top.curr \in Nat /\ Own = Top.curr - Top.beg
  BY Contexts DEF Inductive, ContextType, Own, Top
<1>3. /\ Blocks = BlocksOf(ctx) /\ Len(Blocks) = Depth /\ StackOf(ctx) /\ Depth = Len(ctx)
      /\ NB!Inner.kind = Top.type /\ NB!Inner.own = Own
  BY <1>2, BlocksAre
<1>4. /\ i.argc \in 0 .. MaxDepth /\ i.argc <= Own /\ Own \in Nat /\ Own <= MaxDepth
      /\ i.retc \in Nat /\ MaxDepth \in Nat /\ i.argc \in Nat
  BY <1>1, BlocksBounded, InstrFields
<1>5. Blocks' = BlocksOf(ctx')
  BY DEF Blocks, BlocksOf
<1>6. /\ StackOf(ctx') /\ DOMAIN ctx' = 1 .. Len(ctx')
      /\ \A k \in 1 .. Len(ctx') : ctx'[k].curr - ctx'[k].beg <= MaxDepth
  BY <1>1, ContextsKept, LenProperties DEF WithinDepth, StackOf
<1>7. ASSUME NEW n \in Nat, n >= Top.beg
      PROVE  /\ BlocksOf(Resize(ctx, n)) = NB!Take(Top.curr - n)
             /\ StackOf(Resize(ctx, n)) /\ Len(Resize(ctx, n)) = Depth
             /\ Resize(ctx, n)[Depth].curr - Resize(ctx, n)[Depth].beg = n - Top.beg
             /\ Resize(ctx, n)[Depth].curr = n
  <2>1. BlocksOf(Resize(ctx, n)) = [Blocks EXCEPT ![Depth].own = n - Top.beg]
    BY <1>2, <1>3, <1>7, BlocksOfResized
  <2>2. Blocks[Depth].own = Own
    BY <1>3 DEF NB!Inner
  <2>3. Own - (Top.curr - n) = n - Top.beg
    BY <1>2, <1>7
  <2>4. NB!Take(Top.curr - n) = [Blocks EXCEPT ![Depth].own = n - Top.beg]
    BY <1>3, <2>2, <2>3 DEF NB!Take
  <2>5. /\ StackOf(Resize(ctx, n)) /\ Len(Resize(ctx, n)) = Depth
        /\ Resize(ctx, n)[Depth] = [ctx[Depth] EXCEPT !.curr = n]
    BY <1>2, <1>3, <1>7, Resized
  <2>6. [ctx[Depth] EXCEPT !.curr = n].curr = n /\ [ctx[Depth] EXCEPT !.curr = n].beg = Top.beg
    BY <1>2 DEF ContextType
  <2> QED BY <2>1, <2>4, <2>5, <2>6
<1>8. CASE PlainStep(i)
  <2> DEFINE n == Top.curr - i.argc + i.retc
  <2>1. n \in Nat /\ n >= Top.beg /\ n - Top.beg = Own - i.argc + i.retc
        /\ Top.curr - n = i.argc - i.retc
    BY <1>2, <1>4
  <2>2. ctx' = Resize(ctx, n)
    BY <1>3, <1>8 DEF PlainStep, Plain, Account, Resize, Top
  <2> HIDE DEF n
  <2>3. Blocks' = NB!Take(i.argc - i.retc)
    BY <1>5, <1>7, <2>1, <2>2
  <2>4. n - Top.beg <= MaxDepth
    <3>1. Depth \in 1 .. Len(ctx') /\ ctx'[Depth].curr - ctx'[Depth].beg = n - Top.beg
      BY <1>2, <1>7, <2>1, <2>2
    <3> QED BY <1>6, <3>1
  <2>5. i.retc \in 0 .. MaxDepth
    BY <1>4, <2>1, <2>4
  <2>6. NB!Work(i.argc, i.retc)
    BY <1>3, <1>4, <2>3 DEF NB!Work
  <2> QED BY <1>4, <2>5, <2>6 DEF NB!Next
<1>9. CASE TableStep(i)
  BY <1>9 DEF TableStep, tableSimple, tableHere, tablePre, tableAddSect, blkVars, Blocks
<1>10. CASE tableStack(i)
  <2> DEFINE n == Top.curr + i.num
  <2>1. i.num \in Nat /\ Top.type \in {"CB", "SF"}
    BY <1>1, <1>10, InstrFields DEF tableStack, Accepts, Refused
  <2>2. n \in Nat /\ n >= Top.beg /\ n - Top.beg = Own + i.num /\ Top.curr - n = -i.num
    <3>1. \A low, high, more \in Nat :
            low <= high => /\ high + more \in Nat /\ high + more >= low
                           /\ high + more - low = high - low + more
                           /\ high - (high + more) = -more
      OBVIOUS
    <3>2. Own + i.num = Top.curr - Top.beg + i.num /\ Top.beg <= Top.curr
      BY <1>2, <1>4
    <3> QED BY <1>2, <2>1, <3>1, <3>2
  <2>3. ctx' = Resize(ctx, n)
    BY <1>3, <1>10 DEF tableStack, Resize, Top
  <2> HIDE DEF n
  <2>4. Blocks' = NB!Take(-i.num)
    BY <1>5, <1>7, <2>2, <2>3
  <2>5. n - Top.beg <= MaxDepth
    <3>1. Depth \in 1 .. Len(ctx') /\ ctx'[Depth].curr - ctx'[Depth].beg = n - Top.beg
      BY <1>2, <1>7, <2>2, <2>3
    <3> QED BY <1>6, <3>1
  <2>6. i.num \in 0 .. MaxDepth
    BY <1>4, <2>1, <2>2, <2>5
  <2>7. NB!Reserve(i.num)
    BY <1>3, <2>1, <2>4 DEF NB!Reserve
  <2> QED BY <1>4, <2>6, <2>7 DEF NB!Next
<1>11. CASE beginBlock(i)
  <2> DEFINE n == Top.curr - i.argc
             kind == ContextBegunBy[i.id]
             x == Context(kind, Here, FirstSlot(i), FirstSlot(i) + i.retc)
             c == Resize(ctx, n)
  <2>1. n \in Nat /\ n >= Top.beg /\ Top.curr - n = i.argc
    BY <1>2, <1>4
  <2>2. ctx' = Append(c, x)
    BY <1>3, <1>11 DEF beginBlock, Resize, Top
  <2>3. StackOf(c) /\ Len(c) = Depth /\ BlocksOf(c) = NB!Take(i.argc)
    <3> HIDE DEF n
    <3> QED BY <1>7, <2>1
  <2>4. FirstSlot(i) \in Nat
    BY <2>1 DEF FirstSlot
  <2>5. kind \in {"CB", "NONLIN", "SF"}
    <3>1. i.id \in {"ADDSF", "NCB_B", "RCB_B", "NONLIN_B"}
      BY <1>11, InstrFields DEF beginBlock, StructBegins
    <3> QED BY <3>1 DEF ContextBegunBy
  <2>6. /\ x \in ContextType /\ x.type = kind /\ x.curr - x.beg = i.retc
    <3>1. Here \in Nat
      BY Contexts DEF Inductive
    <3> HIDE DEF kind
    <3> QED BY <1>4, <2>4, <2>5, <3>1 DEF Context, ContextType, ContextTypes
  <2>7. BlockOf(x) = NB!Block(kind, i.retc)
    <3> HIDE DEF x
    <3> QED BY <2>6 DEF BlockOf, NB!Block
  <2> HIDE DEF n, x, c, kind
  <2>8. Blocks' = Append(NB!Take(i.argc), NB!Block(kind, i.retc))
    BY <1>5, <1>6, <2>2, <2>3, <2>6, <2>7, BlocksOfOpened
  <2>9. i.retc \in 0 .. MaxDepth
    <3>1. Len(ctx') = Depth + 1 /\ ctx'[Depth + 1] = x
      BY <2>2, <2>3, <2>6, AppendProperties DEF StackOf
    <3> QED BY <1>2, <1>4, <1>6, <2>6, <3>1
  <2>10. NB!Open(kind, i.argc, i.retc)
    BY <1>3, <1>4, <2>5, <2>8 DEF NB!Open
  <2> QED BY <1>4, <2>5, <2>9, <2>10 DEF NB!Next
<1>12. CASE beginSect(i)
  <2>1. PICK found \in execOutFindSect(i.sect) : ctx' = Append(ctx, Context("SECT", found.sect, 0, 0))
    BY <1>12 DEF beginSect
  <2> DEFINE x == Context("SECT", found.sect, 0, 0)
  <2>2. found.sect \in Nat
    <3>1. found.sects \in Seq(SectionType) /\ found.sect \in DOMAIN found.sects
      BY FoundSection DEF Inductive
    <3> QED BY <3>1, LenProperties
  <2>3. x \in ContextType /\ BlockOf(x) = NB!Block("SECT", 0)
    BY <2>2 DEF Context, ContextType, ContextTypes, BlockOf, NB!Block
  <2> HIDE DEF x
  <2>4. Blocks' = Append(Blocks, NB!Block("SECT", 0))
    BY <1>3, <1>5, <1>6, <2>1, <2>3, BlocksOfOpened DEF x
  <2>5. NB!Take(0) = Blocks
    <3>1. Blocks \in Seq(BlockType) /\ Blocks[Depth].own = Own
      BY <1>3, BlocksOfStack DEF NB!Inner
    <3>2. NB!Take(0) = [Blocks EXCEPT ![Depth].own = Own]
      <4>1. Own - 0 = Own
        BY <1>4
      <4> QED BY <1>3, <3>1, <4>1 DEF NB!Take
    <3>3. DOMAIN Blocks = 1 .. Depth /\ Blocks[Depth] \in BlockType
      BY <1>2, <1>3, <3>1, LenProperties, ElementOfSeq
    <3>4. [Blocks[Depth] EXCEPT !.own = Own] = Blocks[Depth]
      BY <3>1, <3>3 DEF BlockType
    <3> QED BY <3>1, <3>2, <3>3, <3>4
  <2>6. NB!Open("SECT", 0, 0)
    BY <1>3, <1>4, <2>4, <2>5 DEF NB!Open
  <2> QED BY <1>4, <2>6 DEF NB!Next
<1>13. CASE endBlock(i) \/ endSect(i)
  <2> DEFINE n == ctx[Depth - 1].curr + i.retc
             c == Outer(ctx)
  <2>1. closeBlock(i) /\ i.type = "STRUCT" /\ i.id \in StructEnds
    BY <1>13 DEF endBlock, endSect, StructEnds
  <2>2. Depth > 1 /\ Top.type = ContextEndedBy[i.id] /\ Top.type # "ROOT"
    <3>1. Depth > 1 /\ Top.type = ContextEndedBy[i.id]
      BY <1>1, <2>1, EndsInside
    <3> QED BY <2>1, <3>1 DEF ContextEndedBy, StructEnds
  <2>3. ctx' = Resize(c, n) /\ Len(ctx') = Depth - 1
    <3>1. ctx' = [Outer(ctx) EXCEPT ![Len(ctx) - 1].curr = @ + i.retc]
      BY <1>3, <2>1 DEF closeBlock
    <3> HIDE DEF n, c
    <3>2. Len(ctx') = Len(ctx) - 1 /\ ctx' = Resize(Outer(ctx), ctx[Len(ctx) - 1].curr + i.retc)
      BY <1>3, <1>4, <2>2, <3>1, Left
    <3> QED BY <1>3, <3>2 DEF n, c
  <2>4. StackOf(c) /\ Len(c) = Depth - 1 /\ c[Depth - 1] = ctx[Depth - 1]
    BY <1>3, <2>2, Closed
  <2>5. ctx[Depth - 1] \in ContextType /\ ctx[Depth - 1].beg <= ctx[Depth - 1].curr
    BY <1>2, <2>2, Contexts
  <2> DEFINE beg == ctx[Depth - 1].beg
             curr == ctx[Depth - 1].curr
  <2>6. beg \in Nat /\ curr \in Nat /\ beg <= curr /\ n = curr + i.retc
    BY <2>5 DEF ContextType
  <2> HIDE DEF beg, curr
  <2>7. n \in Nat /\ n >= beg /\ n - beg = curr - beg + i.retc /\ i.retc <= n - beg
    BY <1>4, <2>6
  <2> HIDE DEF n, c
  <2>8. Blocks' = [BlocksOf(c) EXCEPT ![Depth - 1].own = n - beg]
    BY <1>5, <2>3, <2>4, <2>7, BlocksOfResized DEF beg
  <2>9. BlocksOf(c) = NB!Around
    BY <1>3, <2>2, BlocksOfClosed DEF c, NB!Around
  <2>10. BlocksOf(c)[Depth - 1].own = curr - beg /\ Len(BlocksOf(c)) = Depth - 1
    <3>1. Len(BlocksOf(c)) = Depth - 1 /\ BlocksOf(c)[Depth - 1] = BlockOf(c[Depth - 1])
      BY <1>2, <2>2, <2>4, BlocksOfStack
    <3> QED BY <2>4, <3>1 DEF BlockOf, beg, curr
  <2>11. i.retc \in 0 .. MaxDepth
    <3>1. ctx'[Depth - 1].curr - ctx'[Depth - 1].beg = n - beg
      <4>1. ctx'[Depth - 1] = [ctx[Depth - 1] EXCEPT !.curr = n]
        BY <1>2, <2>2, <2>3, <2>4, <2>7, Resized DEF beg
      <4> QED BY <2>5, <4>1 DEF ContextType, beg
    <3>2. Depth - 1 \in 1 .. Len(ctx')
      BY <1>2, <2>2, <2>3
    <3>3. n - beg <= MaxDepth
      BY <1>6, <3>1, <3>2
    <3> QED BY <1>4, <2>6, <2>7, <3>3
  <2>12. Blocks' = [NB!Around EXCEPT ![Len(NB!Around)].own = @ + i.retc]
    BY <2>7, <2>8, <2>9, <2>10
  <2>13. NB!Close(Top.type, i.argc, i.retc)
    BY <1>3, <1>4, <2>2, <2>12 DEF NB!Close
  <2>14. Top.type \in {"SECT", "CB", "NONLIN", "SF"}
    BY <1>2, <2>2 DEF ContextType, ContextTypes
  <2> QED BY <1>4, <2>11, <2>13, <2>14 DEF NB!Next
<1> QED BY <1>1, <1>8, <1>9, <1>10, <1>11, <1>12, <1>13, Shapes

LEMMA BlocksInit ==
  Init => NB!Init
<1> SUFFICES ASSUME Init PROVE NB!Init
  OBVIOUS
<1> DEFINE root == Context("ROOT", NoSect, 0, 0)
           first == NB!Block("ROOT", 0)
<1>1. TypeOK /\ BlocksStack
  BY InductiveInit DEF Inductive
<1>2. BlockOf(root) = first /\ first \in BlockType
  BY DEF BlockOf, Context, BlockType, ContextTypes, NB!Block
<1>3. ctx = <<root>>
  BY DEF Init
<1> HIDE DEF root, first
<1>4. Len(ctx) = 1 /\ ctx[1] = root
  BY <1>3
<1>5. /\ Blocks \in Seq(BlockType) /\ Len(Blocks) = 1
      /\ \A k \in 1 .. 1 : Blocks[k] = first
  <2>1. Blocks = BlocksOf(ctx) /\ StackOf(ctx)
    BY <1>1, BlocksAre
  <2>2. /\ BlocksOf(ctx) \in Seq(BlockType) /\ Len(BlocksOf(ctx)) = Len(ctx)
        /\ \A k \in 1 .. Len(ctx) : BlocksOf(ctx)[k] = BlockOf(ctx[k])
    BY <2>1, BlocksOfStack
  <2> QED BY <1>2, <1>4, <2>1, <2>2
<1>6. /\ <<first>> \in Seq(BlockType) /\ Len(<<first>>) = 1
      /\ \A k \in 1 .. 1 : <<first>>[k] = first
  BY <1>2
<1>7. Blocks = <<first>>
  BY <1>5, <1>6, SeqEqual
<1> QED BY <1>7 DEF NB!Init, first

LEMMA BlocksStep ==
  Inductive /\ [Next]_vars => [NB!Next]_Blocks
<1> SUFFICES ASSUME Inductive, [Next]_vars PROVE NB!Next \/ UNCHANGED Blocks
  OBVIOUS
<1>1. Offered \subseteq StreamInstrs /\ StreamInstrs \subseteq CoutInstrs
  BY OfferedInstrs, StreamEmitted DEF Inductive, TypeOK
<1>2. ASSUME UNCHANGED ctx PROVE UNCHANGED Blocks
  BY <1>2 DEF Blocks
<1>3. ASSUME NEW i \in StreamInstrs,
             misread(i) \/ reject(i) \/ abort(i) \/ derail(i)
      PROVE  UNCHANGED ctx
  BY <1>3 DEF misread, tableSect, reject, abort, derail, outVars, blkVars
<1>4. endOfStream \/ UNCHANGED vars => UNCHANGED ctx
  BY DEF endOfStream, vars, outVars, blkVars
<1> QED BY <1>1, <1>2, <1>3, <1>4, StepsRefine DEF Next

(* Whatever the stream, the translation treats the operand stack as the    *)
(* language promises: each step is a step of nested blocks, or none.       *)
THEOREM BlocksRefine ==
  Spec => KeepsBlocksApart
<1> QED BY BlocksInit, BlocksStep, InductiveHolds, PTL DEF Spec, NB!Spec, KeepsBlocksApart

-----------------------------------------------------------------------------
(* The table of symbols, by what a step does to its entries.               *)

(* A new label is the end of a section.                                    *)
LabelAtEnd(data) ==
  data.kind = "label" => data.sect \in DOMAIN sects /\ data.val = sects[data.sect].size

EntriesStay(n) == \A p \in 1 .. n : syms'[p] = syms[p]

TableStays == lvl' \in {lvl, lvl + 1} /\ syms' = syms
EntryAdded ==
  /\ lvl' = lvl
  /\ DOMAIN syms' = 1 .. Len(syms) + 1
  /\ EntriesStay(Len(syms))
  /\ syms'[Len(syms) + 1].lvl = lvl
  /\ LabelAtEnd(syms'[Len(syms) + 1].data)
EntryFilled ==
  /\ lvl' = lvl
  /\ DOMAIN syms' = DOMAIN syms
  /\ \E p \in DOMAIN syms :
       /\ syms[p].data.kind = "proto"
       /\ syms'[p].name = syms[p].name /\ syms'[p].lvl = syms[p].lvl
       /\ LabelAtEnd(syms'[p].data)
       /\ \A q \in DOMAIN syms : q # p => syms'[q] = syms[q]
EntriesDropped ==
  /\ lvl' = lvl - 1
  /\ DOMAIN syms' = 1 .. KeptSyms(lvl)
  /\ EntriesStay(KeptSyms(lvl))

(* A definition fills the newest prototype of its name, or is new.         *)
LEMMA DefinitionEffects ==
  ASSUME TypeOK, NEW name \in STRING, NEW data \in SymDataType, LabelAtEnd(data),
         execOutDefSym(name, data), lvl' = lvl
  PROVE  EntryAdded \/ EntryFilled
<1>1. /\ syms \in Seq(SymbolType) /\ Len(syms) \in Nat /\ DOMAIN syms = 1 .. Len(syms)
      /\ \A p \in DOMAIN syms : syms[p] \in SymbolType
  BY Symbols
<1>2. CASE OpenProtos(name) = {}
  <2>1. syms' = Append(syms, Symbol(name, data))
    BY <1>2 DEF execOutDefSym
  <2>2. /\ Symbol(name, data) \in SymbolType
        /\ Symbol(name, data).data = data /\ Symbol(name, data).lvl = lvl
    BY DEF Symbol, SymbolType, TypeOK
  <2>3. /\ DOMAIN syms' = 1 .. Len(syms) + 1
        /\ \A p \in 1 .. Len(syms) : syms'[p] = syms[p]
        /\ syms'[Len(syms) + 1] = Symbol(name, data)
    BY <1>1, <2>1, <2>2, AppendProperties, LenProperties
  <2> QED BY <2>2, <2>3 DEF EntryAdded, EntriesStay
<1>3. CASE OpenProtos(name) # {}
  <2> DEFINE p == Max(OpenProtos(name))
             e == [syms[p] EXCEPT !.data = data]
  <2>1. syms' = [syms EXCEPT ![p].data = data]
    BY <1>3 DEF execOutDefSym, FillEntry
  <2>2. p \in DOMAIN syms /\ syms[p].data.kind = "proto"
    BY <1>3, NewestProto DEF OpenProtos
  <2>3. e.data = data /\ e.name = syms[p].name /\ e.lvl = syms[p].lvl
    BY <1>1, <2>2 DEF SymbolType
  <2>4. syms' = [syms EXCEPT ![p] = e]
    BY <2>1, <2>2
  <2> HIDE DEF p, e
  <2>5. /\ DOMAIN syms' = DOMAIN syms /\ syms'[p] = e
        /\ \A q \in DOMAIN syms : q # p => syms'[q] = syms[q]
    BY <2>2, <2>4
  <2> QED BY <2>2, <2>3, <2>5 DEF EntryFilled
<1> QED BY <1>2, <1>3

(* What the three kinds of definitions define, apart from prototypes.      *)
LEMMA Definitions ==
  ASSUME Inductive, NEW i \in CoutInstrs, Accepts(i),
         tableStack(i) \/ tableSimple(i) \/ tableHere(i)
  PROVE  /\ lvl' = lvl
         /\ \E data \in SymDataType : LabelAtEnd(data) /\ execOutDefSym(i.name, data)
<1>1. lvl' = lvl
  BY DEF tableStack, tableSimple, tableHere, blkVars
<1>2. CASE tableStack(i)
  <2> DEFINE data == SymData("stack", -8 * (Top.curr + i.num), NoSect)
  <2>1. Top.curr \in Nat /\ i.num \in Int
    BY Contexts, InstrFields DEF Inductive, ContextType
  <2>2. data \in SymDataType /\ LabelAtEnd(data)
    BY <2>1 DEF SymData, SymDataType, SymKinds, NoSect, LabelAtEnd
  <2>3. execOutDefSym(i.name, data)
    BY <1>2 DEF tableStack
  <2> HIDE DEF data
  <2> QED BY <1>1, <2>2, <2>3
<1>3. CASE tableSimple(i)
  <2> DEFINE data == SymData("const", i.num, NoSect)
  <2>1. data \in SymDataType /\ LabelAtEnd(data)
    BY InstrFields DEF SymData, SymDataType, SymKinds, NoSect, LabelAtEnd
  <2>2. execOutDefSym(i.name, data)
    BY <1>3 DEF tableSimple
  <2> HIDE DEF data
  <2> QED BY <1>1, <2>1, <2>2
<1>4. CASE tableHere(i)
  <2> DEFINE data == SymData("label", sects[Here].size, Here)
  <2>1. Here # NoSect
    BY <1>4 DEF Accepts, ReadsNowhere, tableHere
  <2>2. Here \in DOMAIN sects
    BY <2>1, Contexts DEF Inductive, InsideSects, Here, Top, Depth
  <2>3. sects[Here].size \in Nat /\ Here \in Nat
    BY <2>2, Contexts, SectsTyped, Sections DEF Inductive
  <2>4. data \in SymDataType /\ LabelAtEnd(data)
    BY <2>2, <2>3 DEF SymData, SymDataType, SymKinds, LabelAtEnd
  <2>5. execOutDefSym(i.name, data)
    BY <1>4 DEF tableHere
  <2> HIDE DEF data
  <2> QED BY <1>1, <2>4, <2>5
<1> QED BY <1>2, <1>3, <1>4

(* The table after each kind of instruction.                               *)
LEMMA SymbolEffects ==
  ASSUME Inductive, NEW i \in CoutInstrs, Accepts(i), Translates(i)
  PROVE  TableStays \/ EntryAdded \/ EntryFilled \/ EntriesDropped
<1>1. TypeOK /\ i.name \in STRING /\ lvl \in Nat
  BY InstrFields DEF Inductive, TypeOK
<1>2. CASE tableStack(i) \/ tableSimple(i) \/ tableHere(i)
  BY <1>1, <1>2, Definitions, DefinitionEffects
<1>3. CASE tablePre(i)
  <2> DEFINE proto == SymData("proto", Len(preData), Here)
  <2>1. syms' = Append(syms, Symbol(i.name, proto)) /\ lvl' = lvl
    BY <1>3 DEF tablePre, DeclareProto, blkVars
  <2>2. Here \in Nat /\ Len(preData) \in Nat
    BY <1>1, Contexts, LenProperties DEF Inductive, TypeOK
  <2>3. proto \in SymDataType /\ LabelAtEnd(proto)
    BY <2>2 DEF SymData, SymDataType, SymKinds, LabelAtEnd
  <2> HIDE DEF proto
  <2>4. /\ Symbol(i.name, proto) \in SymbolType
        /\ Symbol(i.name, proto).data = proto /\ Symbol(i.name, proto).lvl = lvl
    BY <1>1, <2>3 DEF Symbol, SymbolType
  <2>5. /\ DOMAIN syms' = 1 .. Len(syms) + 1
        /\ \A p \in 1 .. Len(syms) : syms'[p] = syms[p]
        /\ syms'[Len(syms) + 1] = Symbol(i.name, proto)
    BY <1>1, <2>1, <2>4, Symbols, AppendProperties, LenProperties
  <2> QED BY <2>1, <2>3, <2>4, <2>5 DEF EntryAdded, EntriesStay
<1>4. CASE tableAddSect(i) \/ beginBlock(i) \/ beginSect(i)
  BY <1>4 DEF tableAddSect, beginBlock, beginSect, TableStays, symVars, blkVars
<1>5. CASE endBlock(i) \/ endSect(i)
  <2>1. lvl' = lvl - 1 /\ syms' = SubSeq(syms, 1, KeptSyms(lvl))
    BY <1>5 DEF endBlock, endSect, closeBlock, cmpoutSymTableDescendLvl
  <2>2. KeptSyms(lvl) \in 0 .. Len(syms)
    BY <1>1, KeptIsPrefix
  <2>3. \A p \in 1 .. KeptSyms(lvl) : syms[p] \in SymbolType
    BY <1>1, <2>2, Symbols
  <2>4. /\ syms' \in Seq(SymbolType) /\ Len(syms') = KeptSyms(lvl)
        /\ \A p \in 1 .. KeptSyms(lvl) : syms'[p] = syms[p]
    BY <1>1, <2>1, <2>2, <2>3, Symbols, SubSeqProperties
  <2>5. DOMAIN syms' = 1 .. KeptSyms(lvl)
    BY <2>4, LenProperties
  <2> QED BY <2>1, <2>4, <2>5 DEF EntriesDropped, EntriesStay
<1> QED BY <1>2, <1>3, <1>4, <1>5
  DEF Translates, translateGenericInstr, translateConstInstr, translateSymConstInstr,
      translateLoadInstr, translateStoreInstr, translateNeverJump, translateNearJump,
      translateIndirectJump, translateCall, translateRet, translateRetCB, ignored,
      Plain, TableStays, symVars

(* A variable of a section is one more label.                              *)
LEMMA MisreadEffects ==
  ASSUME Inductive, NEW i \in CoutInstrs, misread(i)
  PROVE  /\ EntryAdded
         /\ sects' \in Seq(SectionType) /\ Len(sects') = Len(sects)
         /\ \A s \in DOMAIN sects : sects'[s].size >= sects[s].size
         /\ \A s \in DOMAIN sects : sects[s].used => sects'[s] = sects[s]
         /\ UNCHANGED <<blkVars, preData, defs, refVars>>
<1> DEFINE s == Max(FreeSects(i.sect))
           e == [sects[s] EXCEPT !.size = @ + i.num]
           label == SymData("label", sects[s].size, s)
<1>1. /\ syms' = Append(syms, Symbol(i.name, label))
      /\ sects' = [sects EXCEPT ![s].size = @ + i.num]
      /\ Accepts(i) /\ i.type = "TABLE" /\ i.id = "SECT"
      /\ UNCHANGED <<blkVars, preData, defs, refVars>>
  BY DEF misread, tableSect
<1>2. /\ sects \in Seq(SectionType) /\ Len(sects) \in Nat /\ DOMAIN sects = 1 .. Len(sects)
      /\ \A t \in DOMAIN sects : sects[t] \in SectionType /\ sects[t].size \in Nat
  BY SectsTyped, Sections DEF Inductive
<1>3. s \in DOMAIN sects /\ i.num \in Nat /\ i.name \in STRING /\ ~ sects[s].used
  <2>1. FreeSects(i.sect) # {}
    BY <1>1 DEF Accepts, ReadsNowhere
  <2>2. FreeSects(i.sect) \in SUBSET (0 .. Len(sects))
    BY <1>2 DEF FreeSects
  <2>3. s \in FreeSects(i.sect)
    BY <1>2, <2>1, <2>2, MaxFacts
  <2> QED BY <1>1, <2>3, InstrFields DEF FreeSects, IsFree
<1>4. e \in SectionType /\ e.size >= sects[s].size
  BY <1>2, <1>3, SectionRecords
<1>5. label \in SymDataType /\ LabelAtEnd(label)
  BY <1>2, <1>3 DEF SymData, SymDataType, SymKinds, LabelAtEnd
<1>6. sects' = [sects EXCEPT ![s] = e]
  BY <1>1
<1> HIDE DEF s, e, label
<1>7. /\ sects' \in Seq(SectionType) /\ Len(sects') = Len(sects)
      /\ \A t \in DOMAIN sects : /\ sects'[t] = IF t = s THEN e ELSE sects[t]
                                 /\ sects'[t].size >= sects[t].size
  BY <1>2, <1>3, <1>4, <1>6, SectionChanged
<1>8. TypeOK /\ lvl' = lvl /\ lvl \in Nat
  BY <1>1 DEF Inductive, TypeOK, blkVars
<1>9. /\ Symbol(i.name, label) \in SymbolType
      /\ Symbol(i.name, label).data = label /\ Symbol(i.name, label).lvl = lvl
  BY <1>3, <1>5, <1>8 DEF Symbol, SymbolType
<1>10. /\ DOMAIN syms' = 1 .. Len(syms) + 1
       /\ \A p \in 1 .. Len(syms) : syms'[p] = syms[p]
       /\ syms'[Len(syms) + 1] = Symbol(i.name, label)
  BY <1>1, <1>8, <1>9, Symbols, AppendProperties, LenProperties
<1>11. EntryAdded
  BY <1>5, <1>8, <1>9, <1>10 DEF EntryAdded, EntriesStay
<1> QED BY <1>1, <1>3, <1>7, <1>11

-----------------------------------------------------------------------------
(* Scopes.                                                                 *)

(* The last entry that stays when a block ends is the newest of an outer   *)
(* block.                                                                  *)
LEMMA KeptIsNewest ==
  ASSUME TypeOK, NEW level, NEW p \in DOMAIN syms, syms[p].lvl < level
  PROVE  p <= KeptSyms(level)
<1> DEFINE S == {0} \cup {q \in DOMAIN syms : syms[q].lvl < level}
<1>1. S \in SUBSET (0 .. Len(syms)) /\ S # {} /\ p \in S /\ Len(syms) \in Nat
  BY Symbols
<1>2. Max(S) >= p
  <2> HIDE DEF S
  <2> QED BY <1>1, MaxFacts
<1>3. KeptSyms(level) = Max(S)
  BY DEF KeptSyms
<1>4. KeptSyms(level) \in 0 .. Len(syms) /\ p \in Nat
  BY <1>1, KeptIsPrefix
<1> HIDE DEF S
<1> QED BY <1>2, <1>3, <1>4

(* Because the table is ordered by level, dropping entries from its end    *)
(* drops all of the block that ends.                                       *)
LEMMA ScopesStep ==
  ASSUME TypeOK, ScopesNest, TableStays \/ EntryAdded \/ EntryFilled \/ EntriesDropped
  PROVE  ScopesNest'
<1>1. /\ Len(syms) \in Nat /\ DOMAIN syms = 1 .. Len(syms) /\ lvl \in Nat
      /\ \A p \in DOMAIN syms : syms[p].lvl \in Nat
  BY Symbols DEF TypeOK, SymbolType
<1>2. /\ \A p \in DOMAIN syms : syms[p].lvl <= lvl
      /\ \A p, q \in DOMAIN syms : p < q => syms[p].lvl <= syms[q].lvl
  BY DEF ScopesNest
<1>3. CASE TableStays
  <2>1. syms' = syms /\ lvl' >= lvl /\ lvl' \in Nat
    BY <1>1, <1>3 DEF TableStays
  <2>2. \A p \in DOMAIN syms : syms[p].lvl <= lvl'
    BY <1>1, <1>2, <2>1
  <2> QED BY <1>2, <2>1, <2>2 DEF ScopesNest
<1>4. CASE EntryAdded
  BY <1>1, <1>2, <1>4 DEF EntryAdded, EntriesStay, ScopesNest
<1>5. CASE EntryFilled
  <2>1. /\ lvl' = lvl /\ DOMAIN syms' = DOMAIN syms
        /\ \A p \in DOMAIN syms : syms'[p].lvl = syms[p].lvl
    BY <1>5 DEF EntryFilled
  <2> QED BY <1>2, <2>1 DEF ScopesNest
<1>6. CASE EntriesDropped
  <2> DEFINE n == KeptSyms(lvl)
  <2>1. n \in 0 .. Len(syms) /\ (n # 0 => syms[n].lvl < lvl)
    BY KeptIsPrefix
  <2>2. /\ lvl' = lvl - 1 /\ DOMAIN syms' = 1 .. n
        /\ \A p \in 1 .. n : syms'[p] = syms[p]
    BY <1>6 DEF EntriesDropped, EntriesStay
  <2> HIDE DEF n
  <2>3. ASSUME NEW p \in 1 .. n
        PROVE  p \in DOMAIN syms /\ n \in DOMAIN syms /\ syms[p].lvl <= syms[n].lvl
               /\ syms[p].lvl <= lvl - 1
    <3>1. p \in DOMAIN syms /\ n \in DOMAIN syms /\ n # 0 /\ (p = n \/ p < n)
      BY <1>1, <2>1, <2>3
    <3>2. syms[p].lvl <= syms[n].lvl
      BY <1>1, <1>2, <3>1
    <3>3. syms[n].lvl < lvl /\ syms[n].lvl \in Nat /\ syms[p].lvl \in Nat
      BY <1>1, <2>1, <3>1
    <3> QED BY <1>1, <3>1, <3>2, <3>3
  <2> QED BY <1>2, <2>2, <2>3 DEF ScopesNest
<1> QED BY <1>3, <1>4, <1>5, <1>6

(* What VisibleSymbolsKept says of one step.                               *)
VisibleStep ==
  \A p \in DOMAIN syms :
    syms[p].lvl <= lvl' =>
      /\ p \in DOMAIN syms'
      /\ syms'[p].name = syms[p].name /\ syms'[p].lvl = syms[p].lvl
      /\ syms[p].data.kind # "proto" => syms'[p] = syms[p]

LEMMA VisibleKept ==
  ASSUME TypeOK, TableStays \/ EntryAdded \/ EntryFilled \/ EntriesDropped
  PROVE  VisibleStep
<1>1. /\ Len(syms) \in Nat /\ DOMAIN syms = 1 .. Len(syms) /\ lvl \in Nat
      /\ \A p \in DOMAIN syms : syms[p].lvl \in Nat
  BY Symbols DEF TypeOK, SymbolType
<1>2. CASE TableStays \/ EntryAdded
  BY <1>1, <1>2 DEF TableStays, EntryAdded, EntriesStay, VisibleStep
<1>3. CASE EntryFilled
  BY <1>3 DEF EntryFilled, VisibleStep
<1>4. CASE EntriesDropped
  <2>1. ASSUME NEW p \in DOMAIN syms, syms[p].lvl <= lvl'
        PROVE  p \in 1 .. KeptSyms(lvl)
    <3>1. syms[p].lvl < lvl
      BY <1>1, <1>4, <2>1 DEF EntriesDropped
    <3> QED BY <1>1, <3>1, KeptIsNewest, KeptIsPrefix
  <2> QED BY <1>4, <2>1 DEF EntriesDropped, EntriesStay, VisibleStep
<1> QED BY <1>2, <1>3, <1>4

(* A label was the end of its section, and sections only grow.             *)
LEMMA LabelsStep ==
  ASSUME TypeOK, LabelsInside, TableStays \/ EntryAdded \/ EntryFilled \/ EntriesDropped,
         sects' \in Seq(SectionType), Len(sects') >= Len(sects),
         \A s \in DOMAIN sects : sects'[s].size >= sects[s].size
  PROVE  LabelsInside'
<1> DEFINE Good(data) == data.kind = "label" => /\ data.sect \in DOMAIN sects'
                                               /\ data.val \in 0 .. sects'[data.sect].size
<1>1. /\ \A s \in DOMAIN sects : /\ s \in DOMAIN sects' /\ sects[s].size \in Nat
                                 /\ sects'[s].size \in Nat /\ sects'[s].size >= sects[s].size
  <2>1. DOMAIN sects = 1 .. Len(sects) /\ Len(sects) \in Nat
        /\ \A s \in DOMAIN sects : sects[s].size \in Nat
    BY SectsTyped, Sections
  <2>2. DOMAIN sects' = 1 .. Len(sects') /\ Len(sects') \in Nat
        /\ \A s \in DOMAIN sects' : sects'[s].size \in Nat
    BY Sections
  <2>3. DOMAIN sects \subseteq DOMAIN sects'
    BY <2>1, <2>2
  <2> QED BY <2>1, <2>2, <2>3
<1>2. \A p \in DOMAIN syms : Good(syms[p].data)
  <2> SUFFICES ASSUME NEW p \in DOMAIN syms, syms[p].data.kind = "label"
               PROVE  /\ syms[p].data.sect \in DOMAIN sects'
                      /\ syms[p].data.val \in 0 .. sects'[syms[p].data.sect].size
    OBVIOUS
  <2>1. /\ syms[p].data.sect \in DOMAIN sects
        /\ syms[p].data.val \in 0 .. sects[syms[p].data.sect].size
    BY DEF LabelsInside
  <2> QED BY <1>1, <2>1
<1>3. \A data : LabelAtEnd(data) => Good(data)
  BY <1>1 DEF LabelAtEnd
<1>4. LabelsInside' = \A p \in DOMAIN syms' : Good(syms'[p].data)
  BY DEF LabelsInside
<1> HIDE DEF Good
<1>5. Len(syms) \in Nat /\ DOMAIN syms = 1 .. Len(syms) /\ KeptSyms(lvl) \in 0 .. Len(syms)
  BY Symbols, KeptIsPrefix
<1>6. \A p \in DOMAIN syms' : Good(syms'[p].data)
  <2>1. CASE TableStays
    BY <1>2, <2>1 DEF TableStays
  <2>2. CASE EntryAdded
    BY <1>2, <1>3, <1>5, <2>2 DEF EntryAdded, EntriesStay
  <2>3. CASE EntryFilled
    BY <1>2, <1>3, <2>3 DEF EntryFilled
  <2>4. CASE EntriesDropped
    BY <1>2, <1>5, <2>4 DEF EntriesDropped, EntriesStay
  <2> QED BY <2>1, <2>2, <2>3, <2>4
<1> QED BY <1>4, <1>6

-----------------------------------------------------------------------------
(* Operand fields and the entries that patch them.                         *)

(* What a step leaves of the sections: none goes, none shrinks.            *)
SectionsGrow ==
  \A s \in DOMAIN sects : /\ s \in DOMAIN sects' /\ sects[s].size \in Nat
                          /\ sects'[s].size \in Nat /\ sects'[s].size >= sects[s].size

LEMMA GrowingSections ==
  ASSUME TypeOK, sects' \in Seq(SectionType), Len(sects') >= Len(sects),
         \A s \in DOMAIN sects : sects'[s].size >= sects[s].size
  PROVE  SectionsGrow
<1>1. /\ DOMAIN sects = 1 .. Len(sects) /\ Len(sects) \in Nat
      /\ \A s \in DOMAIN sects : sects[s].size \in Nat
  BY SectsTyped, Sections
<1>2. /\ DOMAIN sects' = 1 .. Len(sects') /\ Len(sects') \in Nat
      /\ \A s \in DOMAIN sects' : sects'[s].size \in Nat
  BY Sections
<1>3. DOMAIN sects \subseteq DOMAIN sects'
  BY <1>1, <1>2
<1> QED BY <1>1, <1>2, <1>3 DEF SectionsGrow

(* What the types say of a field's place.                                  *)
LEMMA Places ==
  ASSUME TypeOK
  PROVE  \A f \in fields : f \in FieldType /\ f.place \in RelocationEntry
                           /\ f.place.off \in Nat /\ f.place.size \in Nat
<1>1. \A f \in fields : f \in FieldType
  BY DEF TypeOK, FieldType
<1>2. \A f \in fields : f.place \in RelocationEntry
  BY <1>1 DEF FieldType
<1> QED BY <1>1, <1>2 DEF RelocationEntry

(* Sections that grow keep the fields in them.                             *)
LEMMA FieldsStay ==
  ASSUME TypeOK, FieldsApart, SectionsGrow, fields' = fields
  PROVE  FieldsApart'
<1>1. \A f \in fields : /\ f.place.sect \in DOMAIN sects
                        /\ f.place.off + f.place.size <= sects[f.place.sect].size
  BY DEF FieldsApart, Inside
<1>2. \A f \in fields : /\ f.place.sect \in DOMAIN sects'
                        /\ f.place.off + f.place.size <= sects'[f.place.sect].size
  BY <1>1, Places DEF SectionsGrow
<1> QED BY <1>2 DEF FieldsApart, Inside

(* The field and the entries one reference adds, by the section it is in.  *)
LEMMA ReferenceEffects ==
  ASSUME Inductive, LabelsInside, ReferenceStep
  PROVE  \E new : \E off, code \in Nat :
           /\ Here \in DOMAIN sects /\ fields' = fields \cup {new}
           /\ new.place.sect = Here /\ new.place.off = sects[Here].size + off
           /\ new.place.size \in Nat \ {0} /\ off + new.place.size <= code
           /\ sects'[Here].size = sects[Here].size + code
           /\ new.place \in RelocationEntry
           /\ new.slot \in Nat /\ (new.slot # 0 => new.data = NoData)
           /\ preTbl' = IF new.slot # 0 THEN Append(preTbl, Entry(new.place, new.slot)) ELSE preTbl
           /\ relt' = IF DependsOnLoading(new)
                      THEN Append(relt, Entry(new.place, new.data.sect)) ELSE relt
           /\ new.data.kind = "label" => new.data.sect \in DOMAIN sects
<1>1. PICK name : \E relative \in BOOLEAN, off, size, code \in Nat :
        /\ IsKnown(name) /\ Here \in DOMAIN sects
        /\ off + size <= code /\ size > 0 /\ Emit(code)
        /\ execOutPutSym(name, off, size, relative)
        /\ UNCHANGED symVars
  BY DEF ReferenceStep
<1>2. PICK relative \in BOOLEAN, off \in Nat, size \in Nat, code \in Nat :
        /\ IsKnown(name) /\ Here \in DOMAIN sects
        /\ off + size <= code /\ size > 0 /\ Emit(code)
        /\ execOutPutSym(name, off, size, relative)
  BY <1>1
<1> DEFINE data == Lookup(name)
           proto == data.kind = "proto"
           entry(to) == Relocation(off, to, size, relative)
           new == [place |-> entry(0), slot |-> IF proto THEN data.val ELSE 0,
                   data |-> IF proto THEN NoData ELSE data]
<1>3. /\ TypeOK /\ ProtosNumbered /\ Len(defs) \in Nat /\ DOMAIN defs = 1 .. Len(defs)
  BY LenProperties DEF Inductive, TypeOK
<1>4. data \in SymDataType /\ Max(SymsNamed(name)) \in DOMAIN syms
  BY <1>2, <1>3, KnownSymbol
<1>5. proto => data.val \in Nat /\ data.val # 0
  BY <1>3, <1>4 DEF ProtosNumbered, Lookup
<1>6. sects[Here] \in SectionType /\ sects[Here].size \in Nat
  BY <1>2, <1>3, SectsTyped, Sections
<1>7. data.kind = "label" => data.sect \in DOMAIN sects
  BY <1>4 DEF Lookup, LabelsInside
<1>8. /\ preTbl' = IF proto THEN Append(preTbl, entry(data.val)) ELSE preTbl
      /\ relt' = IF MovesApart(data, relative) THEN Append(relt, entry(data.sect)) ELSE relt
      /\ fields' = fields \cup {new}
  BY <1>2 DEF execOutPutSym
<1>9. /\ new.place = entry(0) /\ new.slot = (IF proto THEN data.val ELSE 0)
      /\ new.data = IF proto THEN NoData ELSE data
  OBVIOUS
<1>10. /\ entry(0).sect = Here /\ entry(0).off = sects[Here].size + off
      /\ entry(0).size = size
      /\ \A to : Entry(entry(0), to) = entry(to)
  BY DEF Relocation, Entry
<1>11. entry(0).rel = relative
  BY DEF Relocation
<1>12. sects'[Here].size = sects[Here].size + code
  <2>1. code # 0
    BY <1>2
  <2>2. sects' = [sects EXCEPT ![Here].size = @ + code]
    BY <1>2, <2>1 DEF Emit, execOutPutData
  <2> QED BY <1>2, <1>6, <2>2 DEF SectionType
<1> HIDE DEF new, entry, data, proto
<1>13. new.slot \in Nat /\ (new.slot # 0 <=> proto) /\ (proto => new.slot = data.val)
  BY <1>5, <1>9
<1>14. /\ DependsOnLoading(new) <=> MovesApart(data, relative)
       /\ MovesApart(data, relative) => new.data.sect = data.sect
  <2>1. CASE proto
    <3>1. new.data.kind # "label" /\ data.kind # "label"
      BY <1>9, <2>1 DEF proto, NoData, SymData
    <3> QED BY <3>1 DEF DependsOnLoading, MovesApart
  <2>2. CASE ~ proto
    <3>1. /\ new.data = data /\ new.place.sect = Here /\ new.place.rel = relative
      BY <1>9, <1>10, <1>11, <2>2
    <3> QED BY <3>1, Zenon DEF DependsOnLoading, MovesApart
  <2> QED BY <2>1, <2>2
<1>15. preTbl' = IF new.slot # 0 THEN Append(preTbl, Entry(new.place, new.slot)) ELSE preTbl
  BY <1>8, <1>9, <1>10, <1>13
<1>16. relt' = IF DependsOnLoading(new)
               THEN Append(relt, Entry(new.place, new.data.sect)) ELSE relt
  BY <1>8, <1>9, <1>10, <1>14
<1>17. new.place.size = size
  BY <1>9, <1>10
<1>18. new.data.kind = "label" => new.data.sect \in DOMAIN sects
  BY <1>9, <1>7 DEF NoData, SymData
<1>19. /\ Here \in DOMAIN sects /\ fields' = fields \cup {new}
       /\ new.place.sect = Here /\ new.place.off = sects[Here].size + off
       /\ new.place.size \in Nat \ {0} /\ off + new.place.size <= code
  BY <1>2, <1>8, <1>9, <1>10, <1>17
<1>20. new.slot # 0 => new.data = NoData
  BY <1>9, <1>13
<1>21. new.place \in RelocationEntry
  <2>1. Here \in Nat
    BY Contexts DEF Inductive
  <2>2. entry(0) \in RelocationEntry
    BY <1>2, <1>6, <2>1 DEF entry, Relocation, RelocationEntry
  <2> QED BY <1>9, <2>2
<1> QED BY <1>12, <1>13, <1>15, <1>16, <1>18, <1>19, <1>20, <1>21

(* A new field lies behind all code its section had.                       *)
LEMMA FieldsStep ==
  ASSUME Inductive, LabelsInside, FieldsApart, SectionsGrow, ReferenceStep
  PROVE  FieldsApart'
<1>1. PICK new : \E off, code \in Nat :
        /\ Here \in DOMAIN sects /\ fields' = fields \cup {new}
        /\ new.place.sect = Here /\ new.place.off = sects[Here].size + off
        /\ new.place.size \in Nat /\ off + new.place.size <= code
        /\ sects'[Here].size = sects[Here].size + code
  BY ReferenceEffects
<1>2. PICK off \in Nat, code \in Nat :
        /\ new.place.off = sects[Here].size + off
        /\ off + new.place.size <= code
        /\ sects'[Here].size = sects[Here].size + code
  BY <1>1
<1>3. \A f \in fields : /\ f.place.sect \in DOMAIN sects
                        /\ f.place.off + f.place.size <= sects[f.place.sect].size
                        /\ f.place.off \in Nat /\ f.place.size \in Nat
  BY Places DEF Inductive, FieldsApart, Inside
<1>4. \A f \in fields : /\ f.place.sect \in DOMAIN sects'
                        /\ f.place.off + f.place.size <= sects'[f.place.sect].size
  BY <1>3 DEF SectionsGrow
<1>5. /\ new.place.sect \in DOMAIN sects'
      /\ new.place.off + new.place.size <= sects'[new.place.sect].size
  BY <1>1, <1>2 DEF SectionsGrow
<1>6. \A f \in fields : f.place.sect = Here => f.place.off + f.place.size <= new.place.off
  BY <1>1, <1>3, <1>2 DEF SectionsGrow
<1>7. \A f \in fields : Apart(f.place, new.place) /\ Apart(new.place, f.place)
  BY <1>1, <1>6 DEF Apart
<1>8. \A f, g \in fields : f # g => Apart(f.place, g.place)
  BY DEF FieldsApart
<1> QED BY <1>1, <1>4, <1>5, <1>7, <1>8 DEF FieldsApart, Inside

(* The set of entries after one more was appended.                         *)
LEMMA EntriesAppended ==
  ASSUME NEW S, NEW q \in Seq(S), NEW x
  PROVE  EntriesOf(Append(q, x)) = EntriesOf(q) \cup {x}
<1>1. /\ Len(q) \in Nat /\ DOMAIN q = 1 .. Len(q)
      /\ DOMAIN Append(q, x) = 1 .. Len(q) + 1
      /\ \A k \in 1 .. Len(q) : Append(q, x)[k] = q[k]
      /\ Append(q, x)[Len(q) + 1] = x
  BY LenProperties
<1>2. DOMAIN Append(q, x) = DOMAIN q \cup {Len(q) + 1}
  BY <1>1
<1> QED BY <1>1, <1>2 DEF EntriesOf

(* Each reference enters its field in exactly the tables it belongs to.    *)
LEMMA ReferencesStep ==
  ASSUME Inductive, LabelsInside, ReferencesAccounted, ReferenceStep
  PROVE  ReferencesAccounted'
<1>1. PICK new :
        /\ fields' = fields \cup {new}
        /\ preTbl' = IF new.slot # 0 THEN Append(preTbl, Entry(new.place, new.slot)) ELSE preTbl
        /\ relt' = IF DependsOnLoading(new)
                   THEN Append(relt, Entry(new.place, new.data.sect)) ELSE relt
  BY ReferenceEffects
<1>2. preTbl \in Seq(RelocationEntry) /\ relt \in Seq(RelocationEntry)
  BY DEF Inductive, TypeOK
<1>3. EntriesOf(preTbl') = EntriesOf(preTbl) \cup
        (IF new.slot # 0 THEN {Entry(new.place, new.slot)} ELSE {})
  BY <1>1, <1>2, EntriesAppended
<1>4. EntriesOf(relt') = EntriesOf(relt) \cup
        (IF DependsOnLoading(new) THEN {Entry(new.place, new.data.sect)} ELSE {})
  BY <1>1, <1>2, EntriesAppended
<1>5. {Entry(f.place, f.slot) : f \in {g \in fields' : g.slot # 0}} =
        {Entry(f.place, f.slot) : f \in {g \in fields : g.slot # 0}} \cup
        (IF new.slot # 0 THEN {Entry(new.place, new.slot)} ELSE {})
  BY <1>1
<1>6. {Entry(f.place, f.data.sect) : f \in {g \in fields' : DependsOnLoading(g)}} =
        {Entry(f.place, f.data.sect) : f \in {g \in fields : DependsOnLoading(g)}} \cup
        (IF DependsOnLoading(new) THEN {Entry(new.place, new.data.sect)} ELSE {})
  BY <1>1
<1> QED BY <1>3, <1>4, <1>5, <1>6 DEF ReferencesAccounted

(* What prototypes were defined as and what fields were written for are    *)
(* labels of sections that exist.                                          *)
PointsInside ==
  /\ \A c \in DOMAIN preData : preData[c].kind = "label" => preData[c].sect \in DOMAIN sects
  /\ \A f \in fields : f.data.kind = "label" => f.data.sect \in DOMAIN sects

LEMMA CellsStep ==
  ASSUME Inductive, PointsInside, SectionsGrow, NEW i \in CoutInstrs, Accepts(i), Translates(i),
         NEW c \in DOMAIN preData', preData'[c].kind = "label"
  PROVE  preData'[c].sect \in DOMAIN sects'
<1>1. /\ preData \in Seq(SymDataType) /\ DOMAIN preData = 1 .. Len(preData)
      /\ Len(preData) \in Nat
      /\ \A d \in DOMAIN preData : preData[d].kind = "label" => preData[d].sect \in DOMAIN sects'
  BY LenProperties DEF Inductive, TypeOK, PointsInside, SectionsGrow
<1>2. CASE preData' = preData
  BY <1>1, <1>2
<1>3. CASE tableStack(i) \/ tableSimple(i) \/ tableHere(i)
  <2>1. PICK data \in SymDataType : LabelAtEnd(data) /\ execOutDefSym(i.name, data)
    BY <1>3, Definitions
  <2>2. PICK slot : preData' = [preData EXCEPT ![slot] = data] \/ preData' = preData
    BY <2>1 DEF execOutDefSym
  <2> QED BY <1>1, <2>1, <2>2 DEF LabelAtEnd, SectionsGrow
<1>4. CASE tablePre(i)
  <2>1. PICK slot, first : /\ preData' = Append([preData EXCEPT ![slot] = first], NoData)
                           /\ first \in SymDataType /\ first.kind # "label"
    <3>1. Here \in Nat
      BY Contexts DEF Inductive
    <3>2. SymData("proto", 0, Here) \in SymDataType /\ SymData("proto", 0, Here).kind # "label"
      BY <3>1 DEF SymData, SymDataType, SymKinds
    <3> QED BY <1>4, <3>2 DEF tablePre, DeclareProto
  <2> DEFINE cells == [preData EXCEPT ![slot] = first]
  <2>2. cells \in Seq(SymDataType) /\ Len(cells) = Len(preData)
    BY <1>1, <2>1, ExceptTyped
  <2>3. \A d \in DOMAIN preData : cells[d] = first \/ cells[d] = preData[d]
    BY <1>1
  <2> HIDE DEF cells
  <2>4. /\ DOMAIN preData' = 1 .. Len(preData) + 1
        /\ \A d \in 1 .. Len(preData) : preData'[d] = cells[d]
        /\ preData'[Len(preData) + 1] = NoData
    BY <1>1, <2>1, <2>2, LenProperties DEF cells
  <2>5. c # Len(preData) + 1
    BY <2>4 DEF NoData, SymData
  <2>6. c \in DOMAIN preData
    BY <1>1, <2>4, <2>5
  <2> QED BY <1>1, <2>1, <2>3, <2>4, <2>6
<1> QED BY <1>2, <1>3, <1>4
  DEF Translates, translateGenericInstr, translateConstInstr, translateSymConstInstr,
      translateLoadInstr, translateStoreInstr, translateNeverJump, translateNearJump,
      translateIndirectJump, translateCall, translateRet, translateRetCB, ignored, symVars,
      tableAddSect, beginBlock, beginSect, endBlock, endSect, closeBlock

LEMMA PointsStep ==
  ASSUME Inductive, LabelsInside, PointsInside, SectionsGrow,
         \A c \in DOMAIN preData' :
           preData'[c].kind = "label" => preData'[c].sect \in DOMAIN sects',
         ReferenceStep \/ fields' = fields
  PROVE  PointsInside'
<1>1. \A f \in fields : f.data.kind = "label" => f.data.sect \in DOMAIN sects'
  BY DEF PointsInside, SectionsGrow
<1>2. CASE fields' = fields
  BY <1>1, <1>2 DEF PointsInside
<1>3. CASE ReferenceStep
  <2>1. PICK new : /\ fields' = fields \cup {new}
                   /\ new.data.kind = "label" => new.data.sect \in DOMAIN sects
    BY <1>3, ReferenceEffects
  <2> QED BY <1>1, <2>1 DEF PointsInside, SectionsGrow
<1> QED BY <1>2, <1>3

-----------------------------------------------------------------------------
(* What the linking passes rely on: every field has bytes, no table has    *)
(* two entries for one position, and what a prototype was defined as is in *)
(* its cell unless a later prototype was noted there.                      *)

SamePosition(a, b) == a.sect = b.sect /\ a.off = b.off
NoneTwice(table) == \A d, e \in DOMAIN table : SamePosition(table[d], table[e]) => d = e
EntriesOnce ==
  /\ \A f \in fields : f.place.size # 0 /\ (f.slot # 0 => f.data = NoData)
  /\ NoneTwice(relt) /\ NoneTwice(preTbl)

CellsAgree ==
  \A k \in DOMAIN defs :
    /\ preData[k + 1].kind = "proto" \/ preData[k + 1] = defs[k]
    /\ defs[k].kind = "label" => defs[k].sect \in DOMAIN sects

(* A table with one more entry for a position none of its entries is for.  *)
LEMMA OnceAppended ==
  ASSUME NEW S, NEW q \in Seq(S), NEW x, NoneTwice(q), \A e \in DOMAIN q : ~ SamePosition(q[e], x)
  PROVE  NoneTwice(Append(q, x))
<1>1. /\ Len(q) \in Nat /\ DOMAIN q = 1 .. Len(q)
      /\ DOMAIN Append(q, x) = 1 .. Len(q) + 1
      /\ \A k \in 1 .. Len(q) : Append(q, x)[k] = q[k]
      /\ Append(q, x)[Len(q) + 1] = x
  BY LenProperties
<1>2. DOMAIN Append(q, x) = DOMAIN q \cup {Len(q) + 1}
  BY <1>1
<1>3. \A a, b : SamePosition(a, b) => SamePosition(b, a)
  BY DEF SamePosition
<1> QED BY <1>1, <1>2, <1>3 DEF NoneTwice

(* A new field lies behind all others, and so do the entries for it.       *)
LEMMA OnceStep ==
  ASSUME Inductive, LabelsInside, FieldsApart, ReferencesAccounted, EntriesOnce, ReferenceStep
  PROVE  EntriesOnce'
<1>1. PICK new : \E off, code \in Nat :
        /\ fields' = fields \cup {new}
        /\ new.place.sect = Here /\ new.place.off = sects[Here].size + off
        /\ new.place.size \in Nat \ {0} /\ new.place \in RelocationEntry
        /\ new.slot # 0 => new.data = NoData
        /\ preTbl' = IF new.slot # 0 THEN Append(preTbl, Entry(new.place, new.slot)) ELSE preTbl
        /\ relt' = IF DependsOnLoading(new)
                   THEN Append(relt, Entry(new.place, new.data.sect)) ELSE relt
  BY ReferenceEffects
<1>2. PICK off \in Nat : new.place.off = sects[Here].size + off
  BY <1>1
<1>3. \A place \in RelocationEntry : \A to :
        Entry(place, to).sect = place.sect /\ Entry(place, to).off = place.off
  BY DEF Entry, RelocationEntry
<1>4. \A f \in fields : \A a, b : ~ SamePosition(Entry(f.place, a), Entry(new.place, b))
  <2> SUFFICES ASSUME NEW f \in fields, f.place.sect = Here, f.place.off = new.place.off
               PROVE  FALSE
    BY <1>1, <1>3, Places DEF SamePosition, Inductive
  <2>1. /\ f.place.off + f.place.size <= sects[Here].size
        /\ f.place.off \in Nat /\ f.place.size \in Nat /\ f.place.size # 0
        /\ Here \in DOMAIN sects
    BY Places DEF FieldsApart, Inside, EntriesOnce, Inductive
  <2>2. sects[Here].size \in Nat
    BY <2>1, SectsTyped, Sections DEF Inductive
  <2> QED BY <1>2, <2>1, <2>2
<1>5. \A e \in DOMAIN relt : \E f \in fields : relt[e] = Entry(f.place, f.data.sect)
  BY DEF ReferencesAccounted, EntriesOf
<1>6. \A e \in DOMAIN preTbl : \E f \in fields : preTbl[e] = Entry(f.place, f.slot)
  BY DEF ReferencesAccounted, EntriesOf
<1>7. preTbl \in Seq(RelocationEntry) /\ relt \in Seq(RelocationEntry)
  BY DEF Inductive, TypeOK
<1>8. NoneTwice(preTbl')
  <2>1. CASE new.slot = 0
    BY <1>1, <2>1 DEF EntriesOnce
  <2>2. CASE new.slot # 0
    <3>1. preTbl' = Append(preTbl, Entry(new.place, new.slot))
      BY <1>1, <2>2
    <3>2. NoneTwice(Append(preTbl, Entry(new.place, new.slot)))
      BY <1>4, <1>6, <1>7, OnceAppended DEF EntriesOnce
    <3> QED BY <3>1, <3>2
  <2> QED BY <2>1, <2>2
<1>9. NoneTwice(relt')
  <2>1. CASE ~ DependsOnLoading(new)
    BY <1>1, <2>1 DEF EntriesOnce
  <2>2. CASE DependsOnLoading(new)
    <3>1. relt' = Append(relt, Entry(new.place, new.data.sect))
      BY <1>1, <2>2
    <3>2. NoneTwice(Append(relt, Entry(new.place, new.data.sect)))
      BY <1>4, <1>5, <1>7, OnceAppended, ZenonT(30) DEF EntriesOnce
    <3> QED BY <3>1, <3>2
  <2> QED BY <2>1, <2>2
<1>10. \A f \in fields' : f.place.size # 0 /\ (f.slot # 0 => f.data = NoData)
  BY <1>1 DEF EntriesOnce
<1> QED BY <1>8, <1>9, <1>10 DEF EntriesOnce

(* A definition writes the cell and the record of one prototype; a new     *)
(* prototype marks the cell of the last one.                               *)
LEMMA CellsKept ==
  ASSUME Inductive, CellsAgree, SectionsGrow, NEW i \in CoutInstrs, Accepts(i), Translates(i)
  PROVE  CellsAgree'
<1>1. /\ preData \in Seq(SymDataType) /\ DOMAIN preData = 1 .. Len(preData)
      /\ defs \in Seq(SymDataType) /\ DOMAIN defs = 1 .. Len(defs)
      /\ Len(defs) \in Nat /\ Len(preData) = Len(defs) + 1
      /\ \A k \in DOMAIN defs :
           /\ preData[k + 1].kind = "proto" \/ preData[k + 1] = defs[k]
           /\ defs[k].kind = "label" => defs[k].sect \in DOMAIN sects'
  BY LenProperties DEF Inductive, TypeOK, ProtosNumbered, CellsAgree, SectionsGrow
<1>2. CASE preData' = preData /\ defs' = defs
  BY <1>1, <1>2 DEF CellsAgree
<1>3. CASE tableStack(i) \/ tableSimple(i) \/ tableHere(i)
  <2>1. PICK data \in SymDataType : LabelAtEnd(data) /\ execOutDefSym(i.name, data)
    BY <1>3, Definitions
  <2>2. data.kind = "label" => data.sect \in DOMAIN sects'
    BY <2>1 DEF LabelAtEnd, SectionsGrow
  <2>3. CASE OpenProtos(i.name) = {}
    BY <1>2, <2>1, <2>3 DEF execOutDefSym
  <2>4. CASE OpenProtos(i.name) # {}
    <3>1. PICK slot : /\ preData' = [preData EXCEPT ![slot + 1] = data]
                      /\ defs' = [defs EXCEPT ![slot] = data]
                      /\ slot \in DOMAIN defs
      <4> DEFINE p == Max(OpenProtos(i.name))
      <4>1. /\ preData' = [preData EXCEPT ![syms[p].data.val + 1] = data]
            /\ defs' = [defs EXCEPT ![syms[p].data.val] = data]
        BY <2>1, <2>4 DEF execOutDefSym
      <4>2. p \in OpenProtos(i.name) /\ p \in DOMAIN syms
        BY <2>4, NewestProto DEF Inductive
      <4> HIDE DEF p
      <4>3. syms[p].data.val \in DOMAIN defs
        BY <4>2 DEF OpenProtos, Inductive, ProtosNumbered
      <4> QED BY <4>1, <4>3
    <3>2. DOMAIN defs' = DOMAIN defs
      BY <3>1
    <3>3. \A k \in DOMAIN defs :
            /\ defs'[k] = IF k = slot THEN data ELSE defs[k]
            /\ preData'[k + 1] = IF k = slot THEN data ELSE preData[k + 1]
      <4>1. \A k \in DOMAIN defs : k + 1 \in DOMAIN preData /\ (k + 1 = slot + 1 <=> k = slot)
        BY <1>1, <3>1
      <4> QED BY <3>1, <4>1
    <3> QED BY <1>1, <2>2, <3>2, <3>3 DEF CellsAgree
  <2> QED BY <2>3, <2>4
<1>4. CASE tablePre(i)
  <2> DEFINE first == SymData("proto", 0, Here)
             cells == [preData EXCEPT ![Len(preData)] = first]
  <2>1. preData' = Append(cells, NoData) /\ defs' = Append(defs, NoData)
    BY <1>4 DEF tablePre, DeclareProto
  <2>2. first \in SymDataType /\ first.kind = "proto" /\ NoData \in SymDataType
        /\ NoData.kind = "none"
    <3>1. Here \in Nat
      BY Contexts DEF Inductive
    <3> QED BY <3>1 DEF SymData, SymDataType, SymKinds, NoData, NoSect
  <2> HIDE DEF first
  <2>3. cells \in Seq(SymDataType) /\ Len(cells) = Len(preData)
    BY <1>1, <2>2, ExceptTyped
  <2>4. \A c \in DOMAIN preData : cells[c] = IF c = Len(preData) THEN first ELSE preData[c]
    OBVIOUS
  <2> HIDE DEF cells
  <2>5. /\ \A c \in 1 .. Len(preData) : preData'[c] = cells[c]
        /\ preData'[Len(preData) + 1] = NoData
        /\ DOMAIN defs' = 1 .. Len(defs) + 1
        /\ \A k \in 1 .. Len(defs) : defs'[k] = defs[k]
        /\ defs'[Len(defs) + 1] = NoData
    BY <1>1, <2>1, <2>2, <2>3, AppendProperties, LenProperties
  <2>6. ASSUME NEW k \in 1 .. Len(defs)
        PROVE  /\ preData'[k + 1].kind = "proto" \/ preData'[k + 1] = defs'[k]
               /\ defs'[k].kind = "label" => defs'[k].sect \in DOMAIN sects'
    <3>1. k + 1 \in DOMAIN preData /\ k \in DOMAIN defs
      BY <1>1
    <3>2. preData'[k + 1] = cells[k + 1] /\ defs'[k] = defs[k]
      BY <1>1, <2>5, <3>1
    <3> QED BY <1>1, <2>2, <2>4, <3>1, <3>2
  <2>7. preData'[Len(defs) + 1 + 1] = NoData
    BY <1>1, <2>5
  <2>8. \A k \in DOMAIN defs' : k \in 1 .. Len(defs) \/ k = Len(defs) + 1
    BY <1>1, <2>5
  <2> QED BY <2>2, <2>5, <2>6, <2>7, <2>8 DEF CellsAgree
<1> QED BY <1>2, <1>3, <1>4
  DEF Translates, translateGenericInstr, translateConstInstr, translateSymConstInstr,
      translateLoadInstr, translateStoreInstr, translateNeverJump, translateNearJump,
      translateIndirectJump, translateCall, translateRet, translateRetCB, ignored, symVars,
      tableAddSect, beginBlock, beginSect, endBlock, endSect, closeBlock

-----------------------------------------------------------------------------
(* Sections that are switched away from.                                   *)

(* What SuspendedSectionsFrozen says of one step.                          *)
FrozenStep ==
  \A k \in OpenSects :
    ctx[k].sect # Here => sects'[ctx[k].sect].size = sects[ctx[k].sect].size

LEMMA SuspendedStay ==
  ASSUME Inductive, NEW i \in CoutInstrs, Accepts(i), Translates(i)
  PROVE  FrozenStep
<1>1. /\ DOMAIN sects = 1 .. Len(sects) /\ Len(sects) \in Nat
      /\ \A s \in DOMAIN sects : sects[s] \in SectionType
  BY SectsTyped, Sections DEF Inductive
<1>2. \A k \in OpenSects : ctx[k].sect \in DOMAIN sects /\ sects[ctx[k].sect].used
  BY DEF Inductive, OpenSectionsExclusive
<1>3. CASE CodeStep
  <2>1. \A s \in DOMAIN sects : s # Here => sects'[s] = sects[s]
    BY <1>1, <1>3 DEF CodeStep, Emit, execOutPutData
  <2> QED BY <1>2, <2>1 DEF FrozenStep
<1>4. CASE tableAddSect(i)
  <2>1. PICK x : sects' = Append(sects, x)
    BY <1>4 DEF tableAddSect, execoutAddSection
  <2>2. \A s \in DOMAIN sects : sects'[s] = sects[s]
    BY <1>1, <2>1
  <2> QED BY <1>2, <2>2 DEF FrozenStep
<1>5. CASE beginSect(i)
  <2>1. PICK found \in execOutFindSect(i.sect) :
          sects' = [found.sects EXCEPT ![found.sect].used = TRUE]
    BY <1>5 DEF beginSect
  <2>2. /\ found.sects \in Seq(SectionType) /\ Len(found.sects) >= Len(sects)
        /\ \A s \in DOMAIN sects : found.sects[s] = sects[s]
        /\ found.sect \in DOMAIN sects => ~ sects[found.sect].used
    BY FoundSection DEF Inductive
  <2>3. \A s \in DOMAIN sects : s \in DOMAIN found.sects
    BY <1>1, <2>2, Sections
  <2>4. \A s \in DOMAIN sects : s # found.sect => sects'[s] = sects[s]
    BY <2>1, <2>2, <2>3
  <2> QED BY <1>2, <2>2, <2>4 DEF FrozenStep
<1>6. CASE endSect(i)
  <2>1. \A s \in DOMAIN sects : s # Here => sects'[s] = sects[s]
    BY <1>1, <1>6 DEF endSect
  <2> QED BY <1>2, <2>1 DEF FrozenStep
<1> QED BY <1>3, <1>4, <1>5, <1>6, SectionShapes

-----------------------------------------------------------------------------
(* All steps.                                                              *)

(* A step translates an instruction, or misreads one, or leaves everything *)
(* but the state of the call as it is.                                     *)
LEMMA StepKinds ==
  ASSUME Inductive, [Takes]_vars
  PROVE  \/ \E i \in CoutInstrs : Accepts(i) /\ Translates(i)
         \/ \E i \in CoutInstrs : misread(i)
         \/ UNCHANGED outVars
<1>1. CASE UNCHANGED vars
  BY <1>1 DEF vars, outVars
<1>2. CASE endOfStream
  BY <1>2 DEF endOfStream
<1>3. ASSUME NEW i \in CoutInstrs, translateInstruction(i)
      PROVE  Accepts(i) /\ Translates(i)
  BY <1>3 DEF translateInstruction
<1>4. ASSUME NEW i \in CoutInstrs, reject(i) \/ abort(i) \/ derail(i)
      PROVE  UNCHANGED outVars
  BY <1>4 DEF reject, abort, derail
<1> QED BY <1>1, <1>2, <1>3, <1>4 DEF Takes, Take

(* The account of the tables: scopes, labels, fields and their entries.    *)
Tables ==
  /\ ScopesNest
  /\ LabelsInside
  /\ FieldsApart
  /\ ReferencesAccounted
  /\ PointsInside
  /\ EntriesOnce
  /\ CellsAgree

LEMMA TablesInit ==
  Init => Tables
<1> SUFFICES ASSUME Init PROVE Tables
  OBVIOUS
<1>1. ScopesNest /\ LabelsInside /\ FieldsApart /\ ReferencesAccounted
  BY DEF Init, ScopesNest, LabelsInside, FieldsApart, ReferencesAccounted, EntriesOf
<1>2. PointsInside
  BY DEF Init, PointsInside, NoData, SymData
<1>3. EntriesOnce /\ CellsAgree
  BY DEF Init, EntriesOnce, NoneTwice, CellsAgree
<1> QED BY <1>1, <1>2, <1>3 DEF Tables

LEMMA TablesStep ==
  Inductive /\ Tables /\ [Takes]_vars => Tables' /\ VisibleStep /\ FrozenStep
<1> SUFFICES ASSUME Inductive, Tables, [Takes]_vars
             PROVE  Tables' /\ VisibleStep /\ FrozenStep
  OBVIOUS
<1>1. /\ TypeOK /\ ScopesNest /\ LabelsInside /\ FieldsApart /\ ReferencesAccounted
      /\ PointsInside /\ EntriesOnce /\ CellsAgree
  BY DEF Inductive, Tables
<1>2. ASSUME NEW i \in CoutInstrs, Accepts(i), Translates(i)
      PROVE  Tables' /\ VisibleStep /\ FrozenStep
  <2>1. TableStays \/ EntryAdded \/ EntryFilled \/ EntriesDropped
    BY <1>2, SymbolEffects
  <2>2. /\ sects' \in Seq(SectionType) /\ Len(sects') >= Len(sects)
        /\ \A s \in DOMAIN sects : sects'[s].size >= sects[s].size
    BY <1>2, SectionsKept
  <2>3. SectionsGrow
    BY <1>1, <2>2, GrowingSections
  <2>4. ScopesNest' /\ VisibleStep
    BY <1>1, <2>1, ScopesStep, VisibleKept
  <2>5. LabelsInside'
    BY <1>1, <2>1, <2>2, LabelsStep
  <2>6. FieldsApart' /\ ReferencesAccounted' /\ EntriesOnce'
    <3>1. CASE UNCHANGED refVars
      BY <1>1, <2>3, <3>1, FieldsStay DEF refVars, ReferencesAccounted, EntriesOf, EntriesOnce
    <3>2. CASE ReferenceStep
      BY <1>1, <2>3, <3>2, FieldsStep, ReferencesStep, OnceStep
    <3> QED BY <1>2, <3>1, <3>2, ReferenceShapes
  <2>7. PointsInside'
    <3>1. ReferenceStep \/ fields' = fields
      BY <1>2, ReferenceShapes DEF refVars
    <3>2. \A c \in DOMAIN preData' :
            preData'[c].kind = "label" => preData'[c].sect \in DOMAIN sects'
      BY <1>1, <1>2, <2>3, CellsStep
    <3> QED BY <1>1, <2>3, <3>1, <3>2, PointsStep
  <2>8. CellsAgree'
    BY <1>1, <1>2, <2>3, CellsKept
  <2>9. FrozenStep
    BY <1>2, SuspendedStay
  <2> QED BY <2>4, <2>5, <2>6, <2>7, <2>8, <2>9 DEF Tables
<1>3. ASSUME NEW i \in CoutInstrs, misread(i)
      PROVE  Tables' /\ VisibleStep /\ FrozenStep
  <2>1. /\ EntryAdded
        /\ sects' \in Seq(SectionType) /\ Len(sects') = Len(sects)
        /\ \A s \in DOMAIN sects : sects'[s].size >= sects[s].size
        /\ \A s \in DOMAIN sects : sects[s].used => sects'[s] = sects[s]
        /\ UNCHANGED <<preData, defs, refVars>>
    BY <1>3, MisreadEffects
  <2>2. Len(sects') >= Len(sects)
    BY <1>1, <2>1, SectsTyped, Sections
  <2>3. SectionsGrow
    BY <1>1, <2>1, <2>2, GrowingSections
  <2>4. ScopesNest' /\ VisibleStep
    BY <1>1, <2>1, ScopesStep, VisibleKept
  <2>5. LabelsInside'
    BY <1>1, <2>1, <2>2, LabelsStep
  <2>6. FieldsApart' /\ ReferencesAccounted' /\ EntriesOnce'
    BY <1>1, <2>1, <2>3, FieldsStay DEF refVars, ReferencesAccounted, EntriesOf, EntriesOnce
  <2>7. PointsInside' /\ CellsAgree'
    BY <1>1, <2>1, <2>3 DEF PointsInside, CellsAgree, SectionsGrow, refVars
  <2>8. FrozenStep
    BY <2>1 DEF FrozenStep, Inductive, OpenSectionsExclusive
  <2> QED BY <2>4, <2>5, <2>6, <2>7, <2>8 DEF Tables
<1>4. CASE UNCHANGED outVars
  <2>1. /\ syms' = syms /\ lvl' = lvl /\ sects' = sects
        /\ preTbl' = preTbl /\ relt' = relt /\ fields' = fields
        /\ preData' = preData /\ defs' = defs
    BY <1>4 DEF outVars, blkVars, symVars, refVars
  <2>2. ScopesNest' /\ LabelsInside'
    BY <1>1, <2>1 DEF ScopesNest, LabelsInside
  <2>3. FieldsApart' /\ ReferencesAccounted' /\ PointsInside'
    BY <1>1, <2>1 DEF FieldsApart, Inside, ReferencesAccounted, EntriesOf, PointsInside
  <2>4. EntriesOnce' /\ CellsAgree'
    BY <1>1, <2>1 DEF EntriesOnce, CellsAgree
  <2>5. VisibleStep /\ FrozenStep
    BY <2>1 DEF VisibleStep, FrozenStep
  <2> QED BY <2>2, <2>3, <2>4, <2>5 DEF Tables
<1> QED BY <1>2, <1>3, <1>4, StepKinds

LEMMA TablesNext ==
  Inductive /\ Tables /\ [Next]_vars => Tables' /\ VisibleStep /\ FrozenStep
BY NextTakes, TablesStep DEF Inductive, TypeOK

(* The tables' account holds in every state.                               *)
THEOREM TablesHold ==
  Spec => []Tables
<1>1. Inductive /\ Tables /\ [Next]_vars => Tables'
  BY TablesNext
<1> QED BY <1>1, TablesInit, InductiveHolds, PTL DEF Spec

(* The symbol table is ordered by level and holds no symbol of a closed    *)
(* block: cmpoutSymTableDescendLvl drops exactly those of the block.       *)
THEOREM ScopesHold ==
  Spec => []ScopesNest
<1>1. Tables => ScopesNest
  BY DEF Tables
<1> QED BY <1>1, TablesHold, PTL

(* A label handed out by execOutDefSymHere lies in its section for good.   *)
THEOREM LabelsHold ==
  Spec => []LabelsInside
<1>1. Tables => LabelsInside
  BY DEF Tables
<1> QED BY <1>1, TablesHold, PTL

(* No reference recorded by execOutPutSym can damage another when patched. *)
THEOREM FieldsHold ==
  Spec => []FieldsApart
<1>1. Tables => FieldsApart
  BY DEF Tables
<1> QED BY <1>1, TablesHold, PTL

(* sym_pre_tbl and relt hold what the later passes must patch, no more and *)
(* no less.                                                                *)
THEOREM ReferencesHold ==
  Spec => []ReferencesAccounted
<1>1. Tables => ReferencesAccounted
  BY DEF Tables
<1> QED BY <1>1, TablesHold, PTL

(* A name keeps its meaning until the block that declared it ends.         *)
THEOREM VisibleSymbolsHold ==
  Spec => VisibleSymbolsKept
<1>1. Inductive /\ Tables /\ [Next]_vars => [VisibleStep]_vars
  BY TablesNext
<1>2. VisibleSymbolsKept <=> [][VisibleStep]_vars
  BY DEF VisibleSymbolsKept, VisibleStep
<1> QED BY <1>1, <1>2, TablesHold, InductiveHolds, PTL DEF Spec

(* The code of an open section that is switched away from stays as it is.  *)
THEOREM SuspendedSectionsHold ==
  Spec => SuspendedSectionsFrozen
<1>1. Inductive /\ Tables /\ [Next]_vars => [FrozenStep]_vars
  BY TablesNext
<1>2. SuspendedSectionsFrozen <=> [][FrozenStep]_vars
  BY DEF SuspendedSectionsFrozen, FrozenStep
<1> QED BY <1>1, <1>2, TablesHold, InductiveHolds, PTL DEF Spec
=============================================================================
