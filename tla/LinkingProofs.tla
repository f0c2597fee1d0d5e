--------------------------- MODULE LinkingProofs ---------------------------
(***************************************************************************)
(* What holds of the linking passes for every stream: entries name         *)
(* sections that exist, with one entry section no number is added to bytes *)
(* that were freed when it was merged, and, if every prototype was         *)
(* defined, every field ends up meaning what its symbol was defined as.    *)
(***************************************************************************)
EXTENDS Linking, ExecOutputProofs, FiniteSetTheorems

-----------------------------------------------------------------------------
(* The inductive invariant.                                                *)

EntryInside(entry) ==
  entry \in RelocationEntry /\ entry.sect \in DOMAIN sects /\ entry.to \in DOMAIN sects

(* Until the sections are merged the tables are those of the translation,  *)
(* with the entries applyPreLbl appends to relt.                           *)
BeforeMerging ==
  phase \in {"labels", "merging"} =>
    /\ sects \in Seq(SectionType)
    /\ relt \in Seq(RelocationEntry)
    /\ \A e \in DOMAIN relt : EntryInside(relt[e])

(* What the prototype pass reads: its references, and the cells of the     *)
(* prototypes they name.                                                   *)
BeforeLabels ==
  phase = "labels" =>
    /\ at \in Nat \ {0}
    /\ preTbl \in Seq(RelocationEntry)
    /\ preData \in Seq(SymDataType)
    /\ \A e \in DOMAIN preTbl :
         preTbl[e].sect \in DOMAIN sects /\ preTbl[e].to + 1 \in DOMAIN preData
    /\ \A c \in DOMAIN preData :
         preData[c].kind = "label" => preData[c].sect \in DOMAIN sects

(* While entries are relocated, last one first, those still to come are as *)
(* they were, and no section but the merged ones is marked.                *)
WhileRelocating ==
  phase = "relocating" =>
    /\ sects \in Seq(SectionType)
    /\ DOMAIN base \subseteq DOMAIN sects
    /\ \A s \in DOMAIN sects : sects[s].attr.entry => s \in DOMAIN base
    /\ at \in Nat
    /\ \A e \in 1 .. at : e \in DOMAIN relt /\ EntryInside(relt[e])

LinkInductive ==
  /\ phase = "translating" => Inductive /\ Tables
  /\ phase # "translating" => status # "running"
  /\ BeforeMerging
  /\ BeforeLabels
  /\ WhileRelocating

(* What the translation leaves for the passes.                             *)
LEMMA TranslatedTables ==
  ASSUME Inductive, Tables
  PROVE  /\ \A e \in DOMAIN relt : EntryInside(relt[e])
         /\ \A e \in DOMAIN preTbl :
              preTbl[e].sect \in DOMAIN sects /\ preTbl[e].to + 1 \in DOMAIN preData
<1>1. /\ TypeOK /\ FieldsApart /\ ReferencesAccounted /\ PointsInside
      /\ Len(preData) = Len(defs) + 1 /\ TargetsNumbered
  BY DEF Inductive, Tables, ProtosNumbered
<1>2. /\ \A e \in DOMAIN relt : relt[e] \in RelocationEntry
      /\ DOMAIN defs = 1 .. Len(defs) /\ Len(defs) \in Nat /\ DOMAIN preData = 1 .. Len(preData)
  BY <1>1, LenProperties, ElementOfSeq DEF TypeOK
<1>3. \A f \in fields : f.place \in RelocationEntry /\ f.place.sect \in DOMAIN sects
  BY <1>1, Places DEF FieldsApart, Inside
<1>4. \A place \in RelocationEntry : \A to : /\ Entry(place, to).sect = place.sect
                                             /\ Entry(place, to).to = to
  BY DEF Entry, RelocationEntry
<1>5. ASSUME NEW e \in DOMAIN relt
      PROVE  relt[e].sect \in DOMAIN sects /\ relt[e].to \in DOMAIN sects
  <2>1. relt[e] \in EntriesOf(relt)
    BY DEF EntriesOf
  <2>2. PICK f \in fields : DependsOnLoading(f) /\ relt[e] = Entry(f.place, f.data.sect)
    BY <1>1, <2>1 DEF ReferencesAccounted
  <2>3. f.data.sect \in DOMAIN sects
    BY <1>1, <2>2 DEF DependsOnLoading, PointsInside
  <2> QED BY <1>3, <1>4, <2>2, <2>3
<1>6. ASSUME NEW e \in DOMAIN preTbl
      PROVE  preTbl[e].sect \in DOMAIN sects /\ preTbl[e].to + 1 \in DOMAIN preData
  <2>1. preTbl[e] \in EntriesOf(preTbl)
    BY DEF EntriesOf
  <2>2. PICK f \in fields : preTbl[e] = Entry(f.place, f.slot)
    BY <1>1, <2>1 DEF ReferencesAccounted
  <2>3. preTbl[e].to \in DOMAIN defs
    BY <1>1 DEF TargetsNumbered
  <2>4. preTbl[e].to + 1 \in DOMAIN preData
    BY <1>1, <1>2, <2>3
  <2> QED BY <1>3, <1>4, <2>2, <2>4
<1> QED BY <1>2, <1>5, <1>6 DEF EntryInside

-----------------------------------------------------------------------------
(* Steps.                                                                  *)

LEMMA LinkStart ==
  LinkInit => LinkInductive
BY InductiveInit, TablesInit
   DEF LinkInit, LinkInductive, BeforeMerging, BeforeLabels, WhileRelocating

(* The steps of the passes, behind a translation of any instructions.      *)
Translate == status = "running" /\ [Takes]_vars /\ UNCHANGED linkVars
Passes ==
  \/ Translate
  \/ beginLinking
  \/ applyPreLbl \/ applyFails \/ applyDerails \/ applyEnds
  \/ mergeEntries \/ relocateEntry \/ endMerge \/ mergeDerails

LEMMA LinkPasses ==
  ASSUME LinkInductive, [LinkNext]_<<linkVars, vars>>
  PROVE  [Passes]_<<linkVars, vars>>
<1>1. translate => Translate
  <2> SUFFICES ASSUME translate PROVE Translate
    OBVIOUS
  <2>1. status = "running" /\ Next /\ UNCHANGED linkVars
    BY DEF translate
  <2>2. ip \in Nat
    BY <2>1 DEF LinkInductive, Inductive, TypeOK
  <2> QED BY <2>1, <2>2, NextTakes DEF Translate
<1> QED BY <1>1 DEF LinkNext, Passes

LEMMA TranslationStep ==
  ASSUME LinkInductive, Translate
  PROVE  LinkInductive'
<1>1. status = "running" /\ [Takes]_vars /\ phase' = phase /\ phase = "translating"
  BY DEF Translate, linkVars, LinkInductive
<1>2. Inductive' /\ Tables'
  BY <1>1, InductiveStep, TablesStep DEF LinkInductive
<1> QED BY <1>1, <1>2
  DEF LinkInductive, BeforeMerging, BeforeLabels, WhileRelocating

LEMMA StartStep ==
  ASSUME LinkInductive, beginLinking
  PROVE  LinkInductive'
<1>1. Inductive /\ Tables /\ phase' = "labels" /\ at' = 1 /\ status # "running" /\ UNCHANGED vars
  BY DEF beginLinking, LinkInductive
<1>2. /\ sects' = sects /\ relt' = relt /\ preTbl' = preTbl /\ preData' = preData /\ status' = status
  BY <1>1 DEF vars, symVars, refVars
<1>3. /\ sects \in Seq(SectionType) /\ relt \in Seq(RelocationEntry)
      /\ preTbl \in Seq(RelocationEntry) /\ preData \in Seq(SymDataType)
      /\ \A c \in DOMAIN preData :
           preData[c].kind = "label" => preData[c].sect \in DOMAIN sects
  BY <1>1, SectsTyped DEF Inductive, TypeOK, Tables, PointsInside
<1>4. BeforeMerging' /\ BeforeLabels'
  BY <1>1, <1>2, <1>3, TranslatedTables DEF BeforeMerging, BeforeLabels, EntryInside
<1> QED BY <1>1, <1>2, <1>4 DEF LinkInductive, WhileRelocating

(* An applied reference may leave an entry for the section of its target.  *)
LEMMA ApplyStep ==
  ASSUME LinkInductive, applyPreLbl
  PROVE  LinkInductive'
<1>1. /\ phase = "labels" /\ at <= Len(preTbl) /\ phase' = phase /\ at' = at + 1
      /\ status' = status /\ sects' = sects /\ preTbl' = preTbl /\ preData' = preData
  BY DEF applyPreLbl, symVars
<1>2. PICK data \in CellReads(preTbl[at].to) :
        relt' = IF MovesFrom(data, preTbl[at]) THEN Append(relt, Retargeted(preTbl[at], data))
                ELSE relt
  BY DEF applyPreLbl
<1>3. /\ sects \in Seq(SectionType) /\ relt \in Seq(RelocationEntry)
      /\ \A e \in DOMAIN relt : EntryInside(relt[e])
      /\ at \in Nat \ {0} /\ preTbl \in Seq(RelocationEntry) /\ preData \in Seq(SymDataType)
      /\ DOMAIN preTbl = 1 .. Len(preTbl) /\ Len(preTbl) \in Nat
      /\ \A e \in DOMAIN preTbl :
           preTbl[e].sect \in DOMAIN sects /\ preTbl[e].to + 1 \in DOMAIN preData
      /\ \A c \in DOMAIN preData :
           preData[c].kind = "label" => preData[c].sect \in DOMAIN sects
  BY <1>1, LenProperties DEF LinkInductive, BeforeMerging, BeforeLabels
<1>4. at \in DOMAIN preTbl /\ preTbl[at] \in RelocationEntry
  BY <1>1, <1>3, ElementOfSeq
<1>5. data.kind = "label" => data.sect \in DOMAIN sects
  BY <1>2, <1>3, <1>4 DEF CellReads, NoData, SymData
<1>6. \A s \in DOMAIN sects : s \in Nat
  BY <1>3, LenProperties
<1>7. CASE ~ MovesFrom(data, preTbl[at])
  BY <1>1, <1>2, <1>3, <1>7
  DEF LinkInductive, BeforeMerging, BeforeLabels, WhileRelocating, EntryInside
<1>8. CASE MovesFrom(data, preTbl[at])
  <2> DEFINE e == Retargeted(preTbl[at], data)
  <2>1. data.sect \in DOMAIN sects
    BY <1>5, <1>8 DEF MovesFrom
  <2>2. e \in RelocationEntry /\ e.sect = preTbl[at].sect /\ e.to = data.sect
    BY <1>4, <1>6, <2>1 DEF Retargeted, RelocationEntry
  <2>3. EntryInside(e) /\ relt' = Append(relt, e)
    BY <1>2, <1>3, <1>4, <1>8, <2>1, <2>2 DEF EntryInside
  <2> HIDE DEF e
  <2>4. /\ relt' \in Seq(RelocationEntry) /\ DOMAIN relt = 1 .. Len(relt)
        /\ DOMAIN relt' = 1 .. Len(relt) + 1 /\ Len(relt) \in Nat
        /\ \A k \in 1 .. Len(relt) : relt'[k] = relt[k]
        /\ relt'[Len(relt) + 1] = e
    BY <1>3, <2>2, <2>3, AppendProperties, LenProperties
  <2>5. \A k \in DOMAIN relt' : EntryInside(relt'[k])
    BY <1>3, <2>3, <2>4
  <2> QED BY <1>1, <1>3, <2>4, <2>5
    DEF LinkInductive, BeforeMerging, BeforeLabels, WhileRelocating, EntryInside
<1> QED BY <1>7, <1>8

(* The other ends of the first pass leave the tables to the second.        *)
LEMMA LabelsEnd ==
  ASSUME LinkInductive, applyFails \/ applyDerails \/ applyEnds
  PROVE  LinkInductive'
<1>1. /\ phase = "labels" /\ phase' \in {"merging", "undefined"}
      /\ status' = status /\ sects' = sects /\ relt' = relt
  BY DEF applyFails, applyDerails, applyEnds, vars, refVars
<1> QED BY <1>1
  DEF LinkInductive, BeforeMerging, BeforeLabels, WhileRelocating, EntryInside

(* Merging empties the entry sections and keeps their marks.               *)
LEMMA MergeStep ==
  ASSUME LinkInductive, mergeEntries
  PROVE  LinkInductive'
<1>1. /\ phase = "merging" /\ phase' = "relocating" /\ status' = status
      /\ at' = Len(relt) /\ relt' = relt
      /\ DOMAIN base' = EntrySects
      /\ sects' = [s \in DOMAIN sects |->
                     IF s \in EntrySects THEN [sects[s] EXCEPT !.size = 0] ELSE sects[s]]
  BY DEF mergeEntries, refVars
<1>2. /\ sects \in Seq(SectionType) /\ DOMAIN sects = 1 .. Len(sects) /\ Len(sects) \in Nat
      /\ \A s \in DOMAIN sects : sects[s] \in SectionType
      /\ relt \in Seq(RelocationEntry) /\ DOMAIN relt = 1 .. Len(relt) /\ Len(relt) \in Nat
      /\ \A e \in DOMAIN relt : EntryInside(relt[e])
  BY <1>1, Sections, LenProperties DEF LinkInductive, BeforeMerging
<1>3. \A r \in SectionType : /\ [r EXCEPT !.size = 0] \in SectionType
                             /\ [r EXCEPT !.size = 0].attr = r.attr
  BY DEF SectionType
<1>4. \A s \in DOMAIN sects : sects'[s] \in SectionType /\ sects'[s].attr = sects[s].attr
  BY <1>1, <1>2, <1>3
<1>5. sects' \in Seq(SectionType) /\ DOMAIN sects' = DOMAIN sects
  BY <1>1, <1>2, <1>4, IsASeq
<1>6. EntrySects \subseteq DOMAIN sects /\ \A s \in DOMAIN sects : sects[s].attr.entry => s \in EntrySects
  BY DEF EntrySects
<1>7. WhileRelocating'
  BY <1>1, <1>2, <1>4, <1>5, <1>6 DEF WhileRelocating, EntryInside
<1> QED BY <1>1, <1>7 DEF LinkInductive, BeforeMerging, BeforeLabels

(* The section the merged code replaces is one of the merged ones.         *)
LEMMA ReplacedSection ==
  ASSUME WhileRelocating, phase = "relocating", DOMAIN base # {}
  PROVE  Replaced \in DOMAIN base
<1>1. DOMAIN base \in SUBSET (0 .. Len(sects)) /\ Len(sects) \in Nat
  BY Sections DEF WhileRelocating
<1> QED BY <1>1, MaxFacts DEF Replaced

(* Relocating an entry changes no other one, and at most clears a mark.    *)
LEMMA RelocateStep ==
  ASSUME LinkInductive, relocateEntry
  PROVE  LinkInductive'
<1>1. /\ phase = "relocating" /\ phase' = phase /\ at > 0 /\ at' = at - 1
      /\ status' = status /\ base' = base /\ sects' = SectsBehind(relt[at])
      /\ \E e : relt' = [relt EXCEPT ![at] = e]
  BY DEF relocateEntry
<1>2. /\ sects \in Seq(SectionType) /\ DOMAIN sects = 1 .. Len(sects)
      /\ \A s \in DOMAIN sects : sects[s] \in SectionType
      /\ DOMAIN base \subseteq DOMAIN sects
      /\ \A s \in DOMAIN sects : sects[s].attr.entry => s \in DOMAIN base
      /\ at \in Nat
      /\ \A e \in 1 .. at : e \in DOMAIN relt /\ EntryInside(relt[e])
  BY <1>1, Sections DEF LinkInductive, WhileRelocating
<1>3. \A e \in 1 .. at - 1 : e \in DOMAIN relt' /\ relt'[e] = relt[e] /\ EntryInside(relt[e])
  BY <1>1, <1>2
<1>4. /\ sects' \in Seq(SectionType) /\ DOMAIN sects' = DOMAIN sects
      /\ \A s \in DOMAIN sects : sects'[s].attr.entry => s \in DOMAIN base
  <2>1. CASE ~ IsMoved(relt[at])
    BY <1>1, <1>2, <2>1 DEF SectsBehind
  <2>2. CASE IsMoved(relt[at])
    <3> DEFINE e == [sects[Replaced] EXCEPT !.attr.entry = FALSE]
    <3>1. relt[at].sect \in DOMAIN sects /\ relt[at].sect \in DOMAIN base
      BY <1>1, <1>2, <2>2 DEF EntryInside, IsMoved
    <3>2. Replaced \in DOMAIN base /\ Replaced \in DOMAIN sects
      BY <1>1, <1>2, <3>1, ReplacedSection DEF LinkInductive
    <3>3. e \in SectionType
      <4>1. sects[Replaced] \in SectionType
        BY <1>2, <3>2
      <4> QED BY <4>1 DEF SectionType, BinSectionAttr
    <3>4. sects' = [sects EXCEPT ![Replaced] = e]
      BY <1>1, <2>2 DEF SectsBehind
    <3> HIDE DEF e
    <3>5. sects' \in Seq(SectionType) /\ DOMAIN sects' = DOMAIN sects
      BY <1>2, <3>3, <3>4, ExceptTyped
    <3>6. \A s \in DOMAIN sects : s # Replaced => sects'[s] = sects[s]
      BY <3>4
    <3> QED BY <1>2, <3>2, <3>5, <3>6
  <2> QED BY <2>1, <2>2
<1>5. WhileRelocating'
  BY <1>1, <1>2, <1>3, <1>4 DEF WhileRelocating, EntryInside
<1> QED BY <1>1, <1>5 DEF LinkInductive, BeforeMerging, BeforeLabels

LEMMA LinkStep ==
  LinkInductive /\ [Passes]_<<linkVars, vars>> => LinkInductive'
<1> SUFFICES ASSUME LinkInductive, [Passes]_<<linkVars, vars>> PROVE LinkInductive'
  OBVIOUS
<1>1. CASE endMerge \/ mergeDerails
  <2>1. phase # "translating" /\ phase' \in {"linked", "undefined"} /\ status' = status
    BY <1>1 DEF endMerge, mergeDerails, vars
  <2> QED BY <2>1 DEF LinkInductive, BeforeMerging, BeforeLabels, WhileRelocating
<1>2. CASE UNCHANGED <<linkVars, vars>>
  <2>1. /\ phase' = phase /\ at' = at /\ base' = base /\ status' = status /\ sects' = sects
        /\ preData' = preData /\ preTbl' = preTbl /\ relt' = relt /\ UNCHANGED vars
    BY <1>2 DEF linkVars, vars, symVars, refVars
  <2>2. Inductive /\ Tables => Inductive' /\ Tables'
    BY <2>1, InductiveStep, TablesStep
  <2>3. BeforeMerging' /\ BeforeLabels' /\ WhileRelocating'
    BY <2>1 DEF LinkInductive, BeforeMerging, BeforeLabels, WhileRelocating, EntryInside
  <2> QED BY <2>1, <2>2, <2>3 DEF LinkInductive
<1> QED BY <1>1, <1>2, TranslationStep, StartStep, ApplyStep, LabelsEnd, MergeStep, RelocateStep
  DEF Passes

(* The invariant the passes rest on.                                       *)
THEOREM LinkInductiveHolds ==
  LinkSpec => []LinkInductive
<1>1. LinkInductive /\ [LinkNext]_<<linkVars, vars>> => LinkInductive'
  BY LinkPasses, LinkStep
<1> QED BY <1>1, LinkStart, PTL DEF LinkSpec

-----------------------------------------------------------------------------
(* Freed bytes.                                                            *)

(* If the only merged section has lost its mark, no entry points into it;  *)
(* if it has it, an entry of its own would have taken the mark first.      *)
LEMMA OneMerged ==
  ASSUME LinkInductive, phase = "relocating", at > 0, NEW s, DOMAIN base = {s},
         PointsIntoMerged(relt[at])
  PROVE  MovedEntry(relt[at]).sect \notin DOMAIN base
<1> DEFINE entry == relt[at]
<1>1. /\ sects \in Seq(SectionType) /\ \A t \in DOMAIN sects : sects[t] \in SectionType
      /\ s \in DOMAIN sects
      /\ \A t \in DOMAIN sects : sects[t].attr.entry => t = s
      /\ entry.sect \in DOMAIN sects /\ entry.to \in DOMAIN sects
  BY Sections DEF LinkInductive, WhileRelocating, EntryInside
<1>2. Replaced = s
  BY ReplacedSection DEF LinkInductive
<1> HIDE DEF entry
<1>3. SectsBehind(entry)[entry.to].attr.entry
  BY DEF PointsIntoMerged, entry
<1>4. ~ IsMoved(entry)
  <2> SUFFICES ASSUME IsMoved(entry) PROVE FALSE
    OBVIOUS
  <2>1. SectsBehind(entry) = [sects EXCEPT ![s].attr.entry = FALSE]
    BY <1>2 DEF SectsBehind
  <2>2. entry.to = s
    BY <1>1, <1>3, <2>1
  <2>3. ~ SectsBehind(entry)[s].attr.entry
    <3>1. sects[s] \in SectionType
      BY <1>1
    <3>2. [sects[s] EXCEPT !.attr.entry = FALSE].attr.entry = FALSE
      BY <3>1 DEF SectionType, BinSectionAttr
    <3>3. SectsBehind(entry)[s] = [sects[s] EXCEPT !.attr.entry = FALSE]
      BY <1>1, <2>1
    <3> QED BY <3>2, <3>3
  <2> QED BY <1>3, <2>2, <2>3
<1>5. entry.to = s /\ sects[s].attr.entry
  BY <1>1, <1>3, <1>4 DEF SectsBehind
<1>6. entry.sect # s
  BY <1>4, <1>5 DEF IsMoved
<1>7. MovedEntry(entry) = entry
  BY <1>4 DEF MovedEntry
<1> QED BY <1>6, <1>7 DEF entry

(* With one entry section execOutPrepareCode adds no number to bytes it    *)
(* freed before, whatever the references in it and to it.                  *)
THEOREM FreedBytesHold ==
  LinkSpec => []FreedBytesUntouched
<1>1. LinkInductive => FreedBytesUntouched
  <2> SUFFICES ASSUME LinkInductive, phase = "relocating", at > 0,
                      Cardinality(DOMAIN base) = 1, PointsIntoMerged(relt[at])
               PROVE  MovedEntry(relt[at]).sect \notin DOMAIN base
    BY DEF FreedBytesUntouched
  <2>1. IsFiniteSet(DOMAIN base)
    <3>1. DOMAIN base \subseteq 1 .. Len(sects) /\ Len(sects) \in Nat
      BY Sections DEF LinkInductive, WhileRelocating
    <3>2. IsFiniteSet(1 .. Len(sects))
      BY <3>1, FS_Interval
    <3> QED BY <3>1, <3>2, FS_Subset
  <2>2. PICK s : DOMAIN base = {s}
    BY <2>1, FS_Singleton
  <2> QED BY <2>2, OneMerged
<1> QED BY <1>1, LinkInductiveHolds, PTL

-----------------------------------------------------------------------------
(* Types.                                                                  *)

Positions == [sect : {NewSect} \cup DOMAIN sects, off : Nat]

(* LinkTypeOK without the entries of the translation, whose sections the   *)
(* tables' account gives.                                                  *)
LinkTyped ==
  /\ phase \in Phases /\ at \in Nat /\ applied \in BOOLEAN
  /\ DOMAIN base \subseteq DOMAIN sects /\ \A s \in DOMAIN base : base[s] \in Nat
  /\ \A p \in DOMAIN content : p \in Positions /\ content[p] \in Int
  /\ phase = "translating" => base = <<>> /\ content = <<>>
  /\ phase # "translating" =>
       \A e \in DOMAIN relt : relt[e].sect \in DOMAIN sects /\ relt[e].to \in DOMAIN sects

LEMMA PatchedTyped ==
  ASSUME NEW numbers, NEW P, \A p \in DOMAIN numbers : p \in P /\ numbers[p] \in Int,
         NEW place \in P, NEW n \in Int
  PROVE  \A p \in DOMAIN Patched(numbers, place, n) :
           p \in P /\ Patched(numbers, place, n)[p] \in Int
BY DEF Patched

LEMMA CarriedTyped ==
  ASSUME NEW numbers, NEW P, \A p \in DOMAIN numbers : numbers[p] \in Int,
         NEW to, \A p \in DOMAIN numbers : to[p] \in P
  PROVE  \A q \in DOMAIN Carried(numbers, to) : q \in P /\ Carried(numbers, to)[q] \in Int
<1> SUFFICES ASSUME NEW q \in {to[p] : p \in DOMAIN numbers}
             PROVE  q \in P /\ numbers[CHOOSE p \in DOMAIN numbers : to[p] = q] \in Int
  BY DEF Carried
<1>1. (CHOOSE p \in DOMAIN numbers : to[p] = q) \in DOMAIN numbers
  OBVIOUS
<1> QED BY <1>1

(* The sizes of sections add up to a number.                               *)
LEMMA SizesTyped ==
  ASSUME NEW A, IsFiniteSet(A), \A s \in A : sects[s].size \in Nat
  PROVE  SizeOf(A) \in Nat
<1> DEFINE w == [s \in A |-> sects[s].size]
           iter == CHOOSE g : g = [s \in SUBSET A |->
                     IF s = {} THEN 0 ELSE sects[AnyOf(s)].size + g[s \ {AnyOf(s)}]]
<1>1. \A s \in SUBSET A : s # {} => AnyOf(s) \in A
  BY DEF AnyOf
<1>2. \A g : IsSum(w, g, A) <=>
        g = [s \in SUBSET A |->
               IF s = {} THEN 0 ELSE sects[AnyOf(s)].size + g[s \ {AnyOf(s)}]]
  BY <1>1 DEF IsSum, SumStep
<1>3. \E g : IsSum(w, g, A)
  BY SumExists
<1>4. IsSum(w, iter, A)
  <2>1. \E g : g = [s \in SUBSET A |->
               IF s = {} THEN 0 ELSE sects[AnyOf(s)].size + g[s \ {AnyOf(s)}]]
    BY <1>2, <1>3
  <2>2. iter = [s \in SUBSET A |->
               IF s = {} THEN 0 ELSE sects[AnyOf(s)].size + iter[s \ {AnyOf(s)}]]
    BY <2>1
  <2> QED BY <1>2, <2>2
<1>5. iter[A] \in Nat
  <2>1. \A s \in A : w[s] \in Nat
    OBVIOUS
  <2> HIDE DEF w, iter
  <2> QED BY <1>4, <2>1, SumTyped
<1>6. SizeOf(A) = iter[A]
  BY Zenon DEF SizeOf, MapThenSumSet, MapThenFoldSet, AnyOf
<1> QED BY <1>5, <1>6

LEMMA TypedStart ==
  LinkInit => LinkTyped
<1> SUFFICES ASSUME LinkInit PROVE LinkTyped
  OBVIOUS
<1>1. DOMAIN base = {} /\ DOMAIN content = {}
  BY DEF LinkInit
<1> QED BY <1>1 DEF LinkInit, LinkTyped, Phases

LEMMA TypedTranslation ==
  ASSUME LinkTyped, LinkInductive, Translate \/ beginLinking
  PROVE  LinkTyped'
<1>1. CASE Translate
  <2>1. phase = "translating" /\ UNCHANGED linkVars
    BY <1>1 DEF Translate, LinkInductive
  <2> QED BY <2>1 DEF LinkTyped, linkVars
<1>2. CASE beginLinking
  <2>1. /\ phase = "translating" /\ phase' = "labels" /\ at' = 1
        /\ applied' = applied /\ base' = base /\ sects' = sects /\ relt' = relt
        /\ content' = [p \in {PlaceOf(f.place) : f \in fields} |-> WrittenNumber(FieldAt(p))]
    BY <1>2 DEF beginLinking, vars, refVars
  <2>2. Inductive /\ Tables
    BY <2>1 DEF LinkInductive
  <2>3. \A f \in fields : PlaceOf(f.place) \in Positions /\ WrittenNumber(f) \in Int
    <3>1. \A f \in fields : /\ f.place \in RelocationEntry /\ f.data \in SymDataType
                            /\ f.place.sect \in DOMAIN sects
      BY <2>2, Places DEF Inductive, Tables, FieldsApart, Inside, FieldType
    <3> QED BY <3>1 DEF PlaceOf, Position, Positions, WrittenNumber, RelocationEntry, SymDataType
  <2>4. \A p \in DOMAIN content' : p \in Positions /\ content'[p] \in Int
    <3> SUFFICES ASSUME NEW p \in {PlaceOf(f.place) : f \in fields}
                 PROVE  p \in Positions /\ WrittenNumber(FieldAt(p)) \in Int
      BY <2>1
    <3>1. FieldAt(p) \in fields
      BY DEF FieldAt
    <3> QED BY <2>3, <3>1
  <2>5. \A e \in DOMAIN relt : relt[e].sect \in DOMAIN sects /\ relt[e].to \in DOMAIN sects
    BY <2>2, TranslatedTables DEF EntryInside
  <2> QED BY <2>1, <2>4, <2>5 DEF LinkTyped, Phases, Positions
<1> QED BY <1>1, <1>2

(* The number a prototype's cell is read as, and the position it goes to.  *)
LEMMA TypedLabels ==
  ASSUME LinkTyped, LinkInductive, applyPreLbl \/ applyFails \/ applyDerails \/ applyEnds
  PROVE  LinkTyped'
<1>1. /\ phase = "labels" /\ base' = base /\ sects' = sects /\ phase' \in Phases \ {"translating"}
      /\ applied' \in BOOLEAN
  BY DEF applyPreLbl, applyFails, applyDerails, applyEnds, vars, LinkTyped, Phases
<1>2. /\ at \in Nat /\ preTbl \in Seq(RelocationEntry) /\ preData \in Seq(SymDataType)
      /\ DOMAIN preTbl = 1 .. Len(preTbl) /\ Len(preTbl) \in Nat
      /\ DOMAIN preData = 1 .. Len(preData)
      /\ \A e \in DOMAIN preTbl :
           preTbl[e].sect \in DOMAIN sects /\ preTbl[e].to + 1 \in DOMAIN preData
  BY <1>1, LenProperties DEF LinkInductive, BeforeLabels
<1>3. ASSUME at <= Len(preTbl), NEW data \in CellReads(preTbl[at].to),
             content' = Patched(content, PlaceOf(preTbl[at]), data.val)
      PROVE  \A p \in DOMAIN content' : p \in Positions /\ content'[p] \in Int
  <2>1. at \in DOMAIN preTbl /\ preTbl[at] \in RelocationEntry
    <3>1. at # 0
      BY <1>1 DEF LinkInductive, BeforeLabels
    <3> QED BY <1>2, <1>3, <3>1, ElementOfSeq
  <2>2. PlaceOf(preTbl[at]) \in Positions
    BY <1>2, <2>1 DEF PlaceOf, Position, Positions, RelocationEntry
  <2>3. data.val \in Int
    <3>1. preData[preTbl[at].to + 1] \in SymDataType
      BY <1>2, <2>1, ElementOfSeq
    <3> QED BY <1>3, <3>1 DEF CellReads, NoData, SymData, SymDataType
  <2> QED BY <1>3, <2>2, <2>3, PatchedTyped DEF LinkTyped
<1>4. CASE applyPreLbl
  <2>1. PICK data \in CellReads(preTbl[at].to) :
          content' = Patched(content, PlaceOf(preTbl[at]), data.val)
    BY <1>4 DEF applyPreLbl
  <2>2. at <= Len(preTbl) /\ at' = at + 1
    BY <1>4 DEF applyPreLbl
  <2>3. \A e \in DOMAIN relt' : relt'[e].sect \in DOMAIN sects /\ relt'[e].to \in DOMAIN sects
    <3>1. BeforeMerging' /\ phase' = "labels"
      BY <1>1, <1>4, ApplyStep DEF LinkInductive, applyPreLbl
    <3> QED BY <1>1, <3>1 DEF BeforeMerging, EntryInside
  <2> QED BY <1>1, <1>2, <1>3, <2>1, <2>2, <2>3 DEF LinkTyped, Positions
<1>5. CASE applyFails
  <2>1. /\ at <= Len(preTbl) /\ at' = at /\ relt' = relt
        /\ \E data \in CellReads(preTbl[at].to) :
             content' = content \/ content' = Patched(content, PlaceOf(preTbl[at]), data.val)
    BY <1>5 DEF applyFails, vars, refVars
  <2> QED BY <1>1, <1>3, <2>1 DEF LinkTyped, Positions
<1>6. CASE applyDerails \/ applyEnds
  <2>1. at' = at /\ relt' = relt /\ content' = content
    BY <1>6 DEF applyDerails, applyEnds, vars, refVars
  <2> QED BY <1>1, <2>1 DEF LinkTyped, Positions
<1> QED BY <1>4, <1>5, <1>6

LEMMA TypedMerge ==
  ASSUME LinkTyped, LinkInductive, mergeEntries
  PROVE  LinkTyped'
<1>1. /\ phase = "merging" /\ phase' = "relocating" /\ at' = Len(relt) /\ relt' = relt
      /\ applied' = applied /\ base' = [s \in EntrySects |-> EntryOffset(s)]
      /\ content' = Carried(content, [p \in DOMAIN content |-> MovedByMerge(p)])
      /\ DOMAIN sects' = DOMAIN sects
  BY DEF mergeEntries, refVars
<1>2. /\ DOMAIN sects = 1 .. Len(sects) /\ Len(sects) \in Nat
      /\ \A s \in DOMAIN sects : sects[s].size \in Nat
      /\ Len(relt) \in Nat
  BY <1>1, Sections, LenProperties DEF LinkInductive, BeforeMerging
<1>3. \A s : EntryOffset(s) \in Nat
  <2> SUFFICES ASSUME NEW s PROVE SizeOf({e \in EntrySects : e < s}) \in Nat
    BY DEF EntryOffset
  <2>1. {e \in EntrySects : e < s} \subseteq 1 .. Len(sects)
    BY <1>2 DEF EntrySects
  <2>2. IsFiniteSet(1 .. Len(sects))
    BY <1>2, FS_Interval
  <2>3. IsFiniteSet({e \in EntrySects : e < s})
    BY <2>1, <2>2, FS_Subset
  <2>4. \A e \in {e \in EntrySects : e < s} : sects[e].size \in Nat
    BY <1>2, <2>1
  <2> QED BY <2>3, <2>4, SizesTyped
<1>4. \A p \in DOMAIN content : MovedByMerge(p) \in Positions
  BY <1>3 DEF LinkTyped, MovedByMerge, Position, Positions
<1>5. \A p \in DOMAIN content' : p \in Positions /\ content'[p] \in Int
  <2> DEFINE to == [p \in DOMAIN content |-> MovedByMerge(p)]
  <2>1. \A p \in DOMAIN content : to[p] \in Positions
    BY <1>4
  <2> HIDE DEF to
  <2> QED BY <1>1, <2>1, CarriedTyped DEF LinkTyped, to
<1>6. DOMAIN base' \subseteq DOMAIN sects /\ \A s \in DOMAIN base' : base'[s] \in Nat
  BY <1>1, <1>3 DEF EntrySects
<1> QED BY <1>1, <1>2, <1>5, <1>6 DEF LinkTyped, Phases, Positions

(* An entry still to come has the type of its declaration, and what it     *)
(* becomes does too.                                                       *)
LEMMA MovedTyped ==
  ASSUME LinkTyped, LinkInductive, phase = "relocating", at > 0
  PROVE  /\ relt[at] \in RelocationEntry /\ at \in DOMAIN relt
         /\ relt[at].sect \in DOMAIN sects /\ relt[at].to \in DOMAIN sects
         /\ DOMAIN SectsBehind(relt[at]) = DOMAIN sects
         /\ IsMoved(relt[at]) => Replaced \in DOMAIN base
         /\ MovedEntry(relt[at]) \in RelocationEntry
         /\ MovedEntry(relt[at]).sect \in DOMAIN sects
         /\ MovedEntry(relt[at]).to = relt[at].to
<1>1. /\ relt[at] \in RelocationEntry /\ at \in DOMAIN relt
      /\ relt[at].sect \in DOMAIN sects /\ relt[at].to \in DOMAIN sects
      /\ \A s \in DOMAIN sects : sects[s].attr.entry => s \in DOMAIN base
      /\ DOMAIN base \subseteq DOMAIN sects /\ \A s \in DOMAIN base : base[s] \in Nat
      /\ \A s \in DOMAIN sects : s \in Nat
  BY Sections DEF LinkTyped, LinkInductive, WhileRelocating, EntryInside
<1>2. IsMoved(relt[at]) => Replaced \in DOMAIN base
  BY <1>1, ReplacedSection DEF IsMoved, LinkInductive
<1>3. DOMAIN SectsBehind(relt[at]) = DOMAIN sects
  <2>1. SectsBehind(relt[at]) \in {sects, [sects EXCEPT ![Replaced].attr.entry = FALSE]}
    BY DEF SectsBehind
  <2> QED BY <2>1
<1>4. CASE ~ IsMoved(relt[at])
  BY <1>1, <1>3, <1>4 DEF MovedEntry
<1>5. CASE IsMoved(relt[at])
  <2>1. base[Replaced] \in Nat /\ Replaced \in DOMAIN sects /\ Replaced \in Nat
    BY <1>1, <1>2, <1>5
  <2>2. MovedEntry(relt[at]) =
          [relt[at] EXCEPT !.sect = Replaced, !.off = relt[at].off + base[Replaced]]
    BY <1>5 DEF MovedEntry
  <2>3. \A r \in RelocationEntry : \A s, o \in Nat :
          /\ [r EXCEPT !.sect = s, !.off = o] \in RelocationEntry
          /\ [r EXCEPT !.sect = s, !.off = o].sect = s
          /\ [r EXCEPT !.sect = s, !.off = o].to = r.to
    BY DEF RelocationEntry
  <2>4. relt[at].off + base[Replaced] \in Nat
    BY <1>1, <2>1 DEF RelocationEntry
  <2>5. /\ MovedEntry(relt[at]) \in RelocationEntry
        /\ MovedEntry(relt[at]).sect = Replaced /\ MovedEntry(relt[at]).to = relt[at].to
    <3> DEFINE r == relt[at]
               o == r.off + base[Replaced]
    <3>1. /\ [r EXCEPT !.sect = Replaced, !.off = o] \in RelocationEntry
          /\ [r EXCEPT !.sect = Replaced, !.off = o].sect = Replaced
          /\ [r EXCEPT !.sect = Replaced, !.off = o].to = r.to
      <4>1. r \in RelocationEntry /\ o \in Nat
        BY <1>1, <2>4
      <4> HIDE DEF r, o
      <4> QED BY <2>1, <2>3, <4>1, ZenonT(30)
    <3> QED BY <2>2, <3>1
  <2> QED BY <1>1, <1>2, <1>3, <2>1, <2>5
<1> QED BY <1>4, <1>5

(* A target that is still marked is a merged section.                      *)
LEMMA MergedTarget ==
  ASSUME LinkTyped, LinkInductive, phase = "relocating", at > 0, PointsIntoMerged(relt[at])
  PROVE  relt[at].to \in DOMAIN base
<1>1. /\ relt[at].to \in DOMAIN sects
      /\ IsMoved(relt[at]) => Replaced \in DOMAIN base
      /\ \A s \in DOMAIN sects : sects[s].attr.entry => s \in DOMAIN base
      /\ SectsBehind(relt[at])[relt[at].to].attr.entry
  BY MovedTyped DEF LinkInductive, WhileRelocating, PointsIntoMerged
<1>2. CASE ~ IsMoved(relt[at])
  BY <1>1, <1>2 DEF SectsBehind
<1>3. CASE IsMoved(relt[at])
  <2>1. SectsBehind(relt[at]) = [sects EXCEPT ![Replaced].attr.entry = FALSE]
    BY <1>3 DEF SectsBehind
  <2>2. relt[at].to # Replaced => SectsBehind(relt[at])[relt[at].to] = sects[relt[at].to]
    BY <1>1, <2>1
  <2> QED BY <1>1, <1>3, <2>2
<1> QED BY <1>2, <1>3

LEMMA TypedRelocation ==
  ASSUME LinkTyped, LinkInductive, relocateEntry
  PROVE  LinkTyped'
<1> DEFINE entry == relt[at]
           moved == MovedEntry(entry)
           behind == ContentBehind(entry)
<1>1. /\ phase = "relocating" /\ at > 0 /\ phase' = phase /\ at' = at - 1
      /\ applied' = applied /\ base' = base /\ sects' = SectsBehind(entry)
      /\ \/ content' = behind /\ relt' = [relt EXCEPT ![at] = moved]
         \/ /\ PointsIntoMerged(entry) /\ HoldsBytes(moved.sect)
            /\ content' = Patched(behind, PlaceOf(moved), base[entry.to])
            /\ relt' = [relt EXCEPT ![at] = [moved EXCEPT !.to = Replaced]]
  BY DEF relocateEntry
<1>2. /\ entry \in RelocationEntry /\ at \in DOMAIN relt
      /\ entry.sect \in DOMAIN sects /\ entry.to \in DOMAIN sects
      /\ DOMAIN SectsBehind(entry) = DOMAIN sects
      /\ IsMoved(entry) => Replaced \in DOMAIN base
      /\ moved \in RelocationEntry /\ moved.sect \in DOMAIN sects /\ moved.to = entry.to
  BY <1>1, MovedTyped
<1>3. /\ \A s \in DOMAIN sects : sects[s].attr.entry => s \in DOMAIN base
      /\ DOMAIN base \subseteq DOMAIN sects /\ \A s \in DOMAIN base : base[s] \in Nat
      /\ at \in Nat /\ \A t \in DOMAIN sects : sects[t] \in SectionType
      /\ \A p \in DOMAIN content : p \in Positions /\ content[p] \in Int
  BY <1>1, Sections DEF LinkTyped, LinkInductive, WhileRelocating
<1>4. PointsIntoMerged(entry) => entry.to \in DOMAIN base
  BY <1>1, MergedTarget
<1> HIDE DEF entry, moved
<1>5. \A p \in DOMAIN behind : p \in Positions /\ behind[p] \in Int
  <2>1. CASE ~ (IsMoved(entry) /\ entry.rel)
    BY <1>3, <2>1 DEF ContentBehind
  <2>2. CASE IsMoved(entry) /\ entry.rel
    <3>1. Position(NewSect, moved.off) \in Positions /\ -base[Replaced] \in Int
      BY <1>2, <1>3, <2>2 DEF Position, Positions, RelocationEntry
    <3>2. behind = Patched(content, Position(NewSect, moved.off), -base[Replaced])
      BY <2>2 DEF ContentBehind, moved
    <3> HIDE DEF behind
    <3> QED BY <1>3, <3>1, <3>2, PatchedTyped
  <2> QED BY <2>1, <2>2
<1> HIDE DEF behind
<1>6. \A p \in DOMAIN content' : p \in Positions /\ content'[p] \in Int
  <2>1. CASE content' = behind
    BY <1>5, <2>1
  <2>2. CASE PointsIntoMerged(entry) /\ content' = Patched(behind, PlaceOf(moved), base[entry.to])
    <3>1. PlaceOf(moved) \in Positions /\ base[entry.to] \in Int
      BY <1>2, <1>3, <1>4, <2>2 DEF PlaceOf, Position, Positions, RelocationEntry
    <3> QED BY <1>5, <2>2, <3>1, PatchedTyped
  <2> QED BY <1>1, <2>1, <2>2
<1>7. \A e \in DOMAIN relt' : relt'[e].sect \in DOMAIN sects /\ relt'[e].to \in DOMAIN sects
  <2>1. PICK new : /\ relt' = [relt EXCEPT ![at] = new]
                   /\ new.sect \in DOMAIN sects /\ new.to \in DOMAIN sects
    <3>1. CASE relt' = [relt EXCEPT ![at] = moved]
      BY <1>2, <3>1
    <3>2. CASE PointsIntoMerged(entry) /\ relt' = [relt EXCEPT ![at] = [moved EXCEPT !.to = Replaced]]
      <4>1. Replaced \in DOMAIN base
        BY <1>1, <1>4, <3>2, ReplacedSection DEF LinkInductive
      <4>2. [moved EXCEPT !.to = Replaced].sect = moved.sect
            /\ [moved EXCEPT !.to = Replaced].to = Replaced
        BY <1>2 DEF RelocationEntry
      <4> QED BY <1>2, <1>3, <3>2, <4>1, <4>2
    <3> QED BY <1>1, <3>1, <3>2
  <2>2. \A e \in DOMAIN relt : relt[e].sect \in DOMAIN sects /\ relt[e].to \in DOMAIN sects
    BY <1>1 DEF LinkTyped
  <2> QED BY <2>1, <2>2
<1>8. DOMAIN sects' = DOMAIN sects
  BY <1>1, <1>2
<1>9. at' \in Nat
  BY <1>1, <1>3
<1> QED BY <1>1, <1>3, <1>6, <1>7, <1>8, <1>9 DEF LinkTyped, Positions

LEMMA TypedEnd ==
  ASSUME LinkTyped, LinkInductive, endMerge \/ mergeDerails
  PROVE  LinkTyped'
<1>1. CASE endMerge
  <2>1. /\ phase = "relocating" /\ phase' = "linked" /\ DOMAIN base # {}
        /\ sects' = [sects EXCEPT ![Replaced] = newSect]
        /\ content' = Carried(content, [p \in DOMAIN content |-> InPlace(p)])
        /\ at' = at /\ applied' = applied /\ base' = base /\ relt' = relt
    BY <1>1 DEF endMerge, refVars
  <2>2. Replaced \in DOMAIN sects
    BY <2>1, ReplacedSection DEF LinkInductive, WhileRelocating
  <2>3. \A s \in DOMAIN sects : s \in Nat
    BY <2>1, Sections DEF LinkInductive, WhileRelocating
  <2> DEFINE to == [p \in DOMAIN content |-> InPlace(p)]
  <2>4. \A p \in DOMAIN content : to[p] \in Positions
    BY <2>2, <2>3 DEF LinkTyped, InPlace, Position, Positions
  <2> HIDE DEF to
  <2>5. \A p \in DOMAIN content' : p \in Positions /\ content'[p] \in Int
    BY <2>1, <2>4, CarriedTyped DEF LinkTyped, to
  <2>6. DOMAIN sects' = DOMAIN sects
    BY <2>1
  <2> QED BY <2>1, <2>5, <2>6 DEF LinkTyped, Phases, Positions
<1>2. CASE mergeDerails
  <2>1. /\ phase # "translating" /\ phase' = "undefined" /\ at' = at /\ applied' = applied
        /\ content' = content /\ base' = base /\ sects' = sects /\ relt' = relt
    BY <1>2 DEF mergeDerails, vars, refVars
  <2> QED BY <2>1 DEF LinkTyped, Phases, Positions
<1> QED BY <1>1, <1>2

LEMMA TypedStep ==
  LinkTyped /\ LinkInductive /\ [Passes]_<<linkVars, vars>> => LinkTyped'
<1> SUFFICES ASSUME LinkTyped, LinkInductive, [Passes]_<<linkVars, vars>> PROVE LinkTyped'
  OBVIOUS
<1>1. CASE UNCHANGED <<linkVars, vars>>
  BY <1>1 DEF LinkTyped, Positions, linkVars, vars, refVars
<1> QED BY <1>1, TypedTranslation, TypedLabels, TypedMerge, TypedRelocation, TypedEnd DEF Passes

LEMMA LinkTypedAlways ==
  LinkSpec => []LinkTyped
<1>1. LinkTyped /\ LinkInductive /\ [LinkNext]_<<linkVars, vars>> => LinkTyped'
  BY LinkPasses, TypedStep
<1> QED BY <1>1, LinkInductiveHolds, TypedStart, PTL DEF LinkSpec

(* Every entry the passes read or write names sections that exist, every   *)
(* number they patch lies in one, and what they keep is what it should be. *)
THEOREM LinkTypesHold ==
  LinkSpec => []LinkTypeOK
<1>1. LinkTyped /\ LinkInductive => LinkTypeOK
  <2> SUFFICES ASSUME LinkTyped, LinkInductive PROVE LinkTypeOK
    OBVIOUS
  <2>1. \A e \in DOMAIN relt : relt[e].sect \in DOMAIN sects /\ relt[e].to \in DOMAIN sects
    <3>1. CASE phase = "translating"
      BY <3>1, TranslatedTables DEF LinkInductive, EntryInside
    <3>2. CASE phase # "translating"
      BY <3>2 DEF LinkTyped
    <3> QED BY <3>1, <3>2
  <2> QED BY <2>1 DEF LinkTyped, LinkTypeOK, Positions
<1> QED BY <1>1, LinkInductiveHolds, LinkTypedAlways, PTL

-----------------------------------------------------------------------------
(* Fields.                                                                 *)

(* What a table of numbers and a table of relocations hold for every field *)
(* when field f stands for data[f] and its number is at where[f]: the      *)
(* number of its data, for a near jump less the position behind the field, *)
(* and one entry for it if that depends on where sections are loaded, of   *)
(* the section it is for.                                                  *)
BehindField(f) == IF f.place.rel THEN f.place.off + f.place.size ELSE 0
Depends(f, data) == data.kind = "label" /\ (f.place.rel => data.sect # f.place.sect)
Accounts(numbers, table, data, where) ==
  /\ DOMAIN numbers = {where[f] : f \in DOMAIN data}
  /\ \A f \in DOMAIN data : numbers[where[f]] = data[f].val - BehindField(f)
  /\ EntriesOf(table) =
       {Entry(f.place, data[f].sect) : f \in {g \in DOMAIN data : Depends(g, data[g])}}
  /\ NoneTwice(table)

(* What the fields stand for: in the prototype pass, references that it    *)
(* has not come to yet stand for nothing.                                  *)
IsResolved(f) ==
  f.slot # 0 /\ (phase = "labels" => \E e \in 1 .. at - 1 : preTbl[e] = Entry(f.place, f.slot))
Resolved == [f \in fields |-> IF IsResolved(f) THEN defs[f.slot] ELSE f.data]

(* Where their numbers are: those of the merged sections in the new one    *)
(* until that has its place.                                               *)
IsCarried(f) == phase = "relocating" /\ f.place.sect \in DOMAIN base
Where ==
  [f \in fields |-> IF IsCarried(f) THEN Position(NewSect, f.place.off) ELSE PlaceOf(f.place)]

(* What the translation leaves for good.                                   *)
FieldsKnown ==
  /\ fields \in SUBSET FieldType
  /\ \A f, g \in fields : PlaceOf(f.place) = PlaceOf(g.place) => f = g
  /\ \A f \in fields :
       /\ f.place.sect \in DOMAIN sects
       /\ f.slot # 0 => f.slot \in DOMAIN defs /\ f.data = NoData
       /\ f.data.kind = "label" => f.data.sect \in DOMAIN sects
  /\ DOMAIN sects \subseteq Nat \ {NewSect} /\ IsFiniteSet(DOMAIN sects)
  /\ \A k \in DOMAIN defs :
       defs[k] \in SymDataType /\ (defs[k].kind = "label" => defs[k].sect \in DOMAIN sects)

(* What the prototype pass has before it.                                  *)
ReferencesListed ==
  /\ EntriesOf(preTbl) = {Entry(f.place, f.slot) : f \in {g \in fields : g.slot # 0}}
  /\ NoneTwice(preTbl)
  /\ \A k \in DOMAIN defs : preData[k + 1].kind = "proto" \/ preData[k + 1] = defs[k]

(* One section was merged, so that nothing in it moved.                    *)
OneEntry == \E s : DOMAIN base = {s} /\ base[s] = 0

FieldsFollow ==
  /\ phase # "translating" => FieldsKnown
  /\ phase = "labels" => ReferencesListed /\ ~ applied
  /\ phase = "translating" => ~ applied
  /\ phase = "labels" \/ (phase = "merging" /\ applied) => Accounts(content, relt, Resolved, Where)
  /\ phase \in {"relocating", "linked"} =>
       /\ \A s : DOMAIN base = {s} => base[s] = 0
       /\ applied /\ OneEntry => Accounts(content, relt, Resolved, Where)
  /\ phase = "relocating" =>
       newSect.attr.entry /\ \A s \in DOMAIN base : s # Replaced => sects[s].attr.entry
  /\ phase = "linked" => EntrySects = DOMAIN base

(* Different fields have different positions.                              *)
LEMMA PositionsApart ==
  ASSUME Inductive, Tables, NEW f \in fields, NEW g \in fields, PlaceOf(f.place) = PlaceOf(g.place)
  PROVE  f = g
<1>1. /\ f.place.off \in Nat /\ f.place.size \in Nat
      /\ g.place.off \in Nat /\ g.place.size \in Nat
  BY Places DEF Inductive
<1>2. f.place.sect = g.place.sect /\ f.place.off = g.place.off
  BY DEF PlaceOf, Position
<1>3. f.place.size # 0 /\ g.place.size # 0
  BY DEF Tables, EntriesOnce
<1>4. f # g => Apart(f.place, g.place)
  BY DEF Tables, FieldsApart
<1> QED BY <1>1, <1>2, <1>3, <1>4 DEF Apart

(* The translation leaves all that is needed.                              *)
LEMMA TranslationAccounts ==
  ASSUME Inductive, Tables
  PROVE  FieldsKnown /\ ReferencesListed
<1>1. /\ TypeOK /\ FieldsApart /\ ReferencesAccounted /\ PointsInside /\ EntriesOnce /\ CellsAgree
      /\ TargetsNumbered
  BY DEF Inductive, Tables
<1>2. /\ fields \in SUBSET FieldType
      /\ defs \in Seq(SymDataType) /\ \A k \in DOMAIN defs : defs[k] \in SymDataType
      /\ DOMAIN sects \subseteq Nat \ {NewSect} /\ IsFiniteSet(DOMAIN sects)
  <2>1. DOMAIN sects = 1 .. Len(sects) /\ Len(sects) \in Nat
    BY <1>1, SectsTyped, Sections
  <2>2. defs \in Seq(SymDataType)
    BY <1>1 DEF TypeOK
  <2>3. \A k \in DOMAIN defs : defs[k] \in SymDataType
    BY <2>2, LenProperties, ElementOfSeq
  <2>4. fields \in SUBSET FieldType
    BY <1>1 DEF TypeOK, FieldType
  <2>5. IsFiniteSet(DOMAIN sects)
    <3>1. IsFiniteSet(1 .. Len(sects))
      BY <2>1, FS_Interval
    <3> QED BY <2>1, <3>1
  <2> QED BY <2>1, <2>2, <2>3, <2>4, <2>5 DEF NewSect, NoSect
<1>3. ASSUME NEW f \in fields, f.slot # 0
      PROVE  f.slot \in DOMAIN defs
  <2>1. Entry(f.place, f.slot) \in EntriesOf(preTbl)
    BY <1>1, <1>3 DEF ReferencesAccounted
  <2>2. PICK e \in DOMAIN preTbl : preTbl[e] = Entry(f.place, f.slot)
    BY <2>1 DEF EntriesOf
  <2>3. f.place \in RelocationEntry
    BY <1>1, Places
  <2>4. Entry(f.place, f.slot).to = f.slot
    BY <2>3 DEF Entry, RelocationEntry
  <2> QED BY <1>1, <2>2, <2>4 DEF TargetsNumbered
<1>4. FieldsKnown
  BY <1>1, <1>2, <1>3, PositionsApart
  DEF FieldsKnown, FieldsApart, Inside, EntriesOnce, PointsInside, CellsAgree
<1>5. ReferencesListed
  BY <1>1 DEF ReferencesListed, ReferencesAccounted, EntriesOnce, CellsAgree
<1> QED BY <1>4, <1>5

(* The number of a field is where it was written.                          *)
LEMMA FieldsWritten ==
  ASSUME LinkInductive, FieldsFollow, beginLinking
  PROVE  FieldsFollow'
<1>1. /\ phase = "translating" /\ phase' = "labels" /\ at' = 1 /\ applied' = applied
      /\ content' = [p \in {PlaceOf(f.place) : f \in fields} |-> WrittenNumber(FieldAt(p))]
      /\ UNCHANGED vars
  BY DEF beginLinking
<1>2. /\ sects' = sects /\ relt' = relt /\ preTbl' = preTbl /\ preData' = preData
      /\ defs' = defs /\ fields' = fields
  BY <1>1 DEF vars, symVars, refVars
<1>3. Inductive /\ Tables /\ FieldsKnown /\ ReferencesListed
  BY <1>1, TranslationAccounts DEF LinkInductive
<1>4. FieldsKnown' /\ ReferencesListed'
  BY <1>2, <1>3 DEF FieldsKnown, ReferencesListed
<1>5. Resolved' = [f \in fields |-> f.data]
  <2>1. \A f \in fields : ~ IsResolved(f)'
    BY <1>1 DEF IsResolved
  <2> QED BY <1>2, <2>1 DEF Resolved
<1>6. Where' = [f \in fields |-> PlaceOf(f.place)]
  BY <1>1, <1>2 DEF Where, IsCarried
<1>7. Accounts(content', relt, [f \in fields |-> f.data], [f \in fields |-> PlaceOf(f.place)])
  <2> DEFINE data == [f \in fields |-> f.data]
             where == [f \in fields |-> PlaceOf(f.place)]
  <2>1. DOMAIN content' = {where[f] : f \in DOMAIN data}
    BY <1>1
  <2>2. ASSUME NEW f \in fields
        PROVE  content'[PlaceOf(f.place)] = f.data.val - BehindField(f)
    <3>1. FieldAt(PlaceOf(f.place)) = f
      BY <1>3 DEF FieldAt, FieldsKnown
    <3>2. content'[PlaceOf(f.place)] = WrittenNumber(f)
      BY <1>1, <3>1
    <3> QED BY <3>2 DEF WrittenNumber, BehindField
  <2>3. EntriesOf(relt) =
          {Entry(f.place, data[f].sect) : f \in {g \in DOMAIN data : Depends(g, data[g])}}
    <3>1. \A f : DependsOnLoading(f) <=> Depends(f, f.data)
      BY DEF DependsOnLoading, Depends
    <3>2. {Entry(f.place, data[f].sect) : f \in {g \in DOMAIN data : Depends(g, data[g])}} =
            {Entry(f.place, f.data.sect) : f \in {g \in fields : DependsOnLoading(g)}}
      BY <3>1
    <3> QED BY <1>3, <3>2 DEF Tables, ReferencesAccounted
  <2>4. NoneTwice(relt)
    BY <1>3 DEF Tables, EntriesOnce
  <2> QED BY <2>1, <2>2, <2>3, <2>4 DEF Accounts
<1> QED BY <1>1, <1>2, <1>4, <1>5, <1>6, <1>7 DEF FieldsFollow

(* The parts of an entry for a place.                                      *)
LEMMA EntryParts ==
  ASSUME NEW place \in RelocationEntry, NEW to
  PROVE  /\ Entry(place, to).sect = place.sect /\ Entry(place, to).off = place.off
         /\ Entry(place, to).rel = place.rel /\ Entry(place, to).to = to
         /\ PlaceOf(Entry(place, to)) = PlaceOf(place)
         /\ \A other : Retargeted(Entry(place, to), other) = Entry(place, other.sect)
<1>1. /\ Entry(place, to).sect = place.sect /\ Entry(place, to).off = place.off
      /\ Entry(place, to).rel = place.rel /\ Entry(place, to).to = to
  BY DEF Entry, RelocationEntry
<1>2. PlaceOf(Entry(place, to)) = PlaceOf(place)
  BY <1>1 DEF PlaceOf
<1>3. \A other : Retargeted(Entry(place, to), other) = Entry(place, other.sect)
  BY DEF Retargeted, Entry, RelocationEntry
<1> QED BY <1>1, <1>2, <1>3

(* Two entries for one position are of one field.                          *)
LEMMA OneField ==
  ASSUME FieldsKnown, NEW f \in fields, NEW g \in fields, NEW a, NEW b,
         SamePosition(Entry(f.place, a), Entry(g.place, b))
  PROVE  f = g
<1>1. f.place \in RelocationEntry /\ g.place \in RelocationEntry
  BY DEF FieldsKnown, FieldType
<1>2. f.place.sect = g.place.sect /\ f.place.off = g.place.off
  BY <1>1, EntryParts DEF SamePosition
<1>3. PlaceOf(f.place) = PlaceOf(g.place)
  BY <1>2 DEF PlaceOf
<1> QED BY <1>3 DEF FieldsKnown

(* Entries of fields, with the one of a field that had none added.         *)
LEMMA AccountExtended ==
  ASSUME FieldsKnown, NEW f \in fields, NEW d,
         NEW numbers, NEW table \in Seq(RelocationEntry), NEW data, NEW where, DOMAIN data = fields,
         Accounts(numbers, table, data, where), data[f] = NoData,
         \A g, h \in fields : where[g] = where[h] => g = h,
         \A g \in fields : data[g].val \in Int,
         d.val \in Int, Depends(f, d) => Entry(f.place, d.sect) \in RelocationEntry
  PROVE  Accounts(Patched(numbers, where[f], d.val),
                  IF Depends(f, d) THEN Append(table, Entry(f.place, d.sect)) ELSE table,
                  [data EXCEPT ![f] = d], where)
<1> DEFINE data2 == [data EXCEPT ![f] = d]
           numbers2 == Patched(numbers, where[f], d.val)
           table2 == IF Depends(f, d) THEN Append(table, Entry(f.place, d.sect)) ELSE table
<1>1. /\ DOMAIN data2 = fields /\ data2[f] = d
      /\ \A g \in fields : g # f => data2[g] = data[g]
  OBVIOUS
<1>2. /\ DOMAIN numbers = {where[g] : g \in fields}
      /\ \A g \in fields : numbers[where[g]] = data[g].val - BehindField(g)
      /\ EntriesOf(table) =
           {Entry(g.place, data[g].sect) : g \in {h \in fields : Depends(h, data[h])}}
      /\ NoneTwice(table)
  BY DEF Accounts
<1>3. ~ Depends(f, NoData)
  BY DEF Depends, NoData, SymData
<1>4. DOMAIN numbers2 = {where[g] : g \in fields}
  <2>1. where[f] \in {where[g] : g \in fields}
    OBVIOUS
  <2> QED BY <1>2, <2>1 DEF Patched
<1>5. \A g \in fields : numbers2[where[g]] = data2[g].val - BehindField(g)
  <2>1. \A g \in fields : where[g] \in DOMAIN numbers
    BY <1>2
  <2>2. \A g \in fields :
          numbers2[where[g]] = numbers[where[g]] + (IF where[g] = where[f] THEN d.val ELSE 0)
    BY <1>2, <2>1 DEF Patched
  <2>3. \A g \in fields : BehindField(g) \in Int
    <3>1. \A g \in fields : g.place \in RelocationEntry
      BY DEF FieldsKnown, FieldType
    <3> QED BY <3>1 DEF BehindField, RelocationEntry
  <2>4. numbers2[where[f]] = d.val - BehindField(f)
    <3>1. NoData.val = 0
      BY DEF NoData, SymData
    <3>2. numbers[where[f]] = 0 - BehindField(f)
      BY <1>2, <3>1
    <3>3. numbers2[where[f]] = numbers[where[f]] + d.val
      BY <2>2
    <3> HIDE DEF numbers2
    <3>4. \A m, n \in Int : 0 - m + n = n - m
      OBVIOUS
    <3> QED BY <2>3, <3>2, <3>3, <3>4
  <2>5. ASSUME NEW g \in fields, g # f
        PROVE  numbers2[where[g]] = data[g].val - BehindField(g)
    <3>1. where[g] # where[f]
      BY <2>5
    <3>2. numbers2[where[g]] = numbers[where[g]] + 0
      BY <2>2, <3>1
    <3>3. numbers[where[g]] = data[g].val - BehindField(g)
      BY <1>2
    <3> HIDE DEF numbers2
    <3>4. \A m, n \in Int : n - m + 0 = n - m
      OBVIOUS
    <3> QED BY <2>3, <3>2, <3>3, <3>4
  <2> QED BY <1>1, <2>4, <2>5
<1>6. {Entry(g.place, data2[g].sect) : g \in {h \in fields : Depends(h, data2[h])}} =
        EntriesOf(table) \cup (IF Depends(f, d) THEN {Entry(f.place, d.sect)} ELSE {})
  <2> HIDE DEF data2
  <2>1. \A g \in fields : Depends(g, data2[g]) <=>
          (g # f /\ Depends(g, data[g])) \/ (g = f /\ Depends(f, d))
    BY <1>1
  <2>2. \A g \in fields : Depends(g, data[g]) => g # f
    BY <1>3
  <2> QED BY <1>1, <1>2, <2>1, <2>2
<1>7. EntriesOf(table2) =
        EntriesOf(table) \cup (IF Depends(f, d) THEN {Entry(f.place, d.sect)} ELSE {})
  <2>1. CASE Depends(f, d)
    <3>1. EntriesOf(Append(table, Entry(f.place, d.sect))) =
            EntriesOf(table) \cup {Entry(f.place, d.sect)}
      BY EntriesAppended
    <3> QED BY <2>1, <3>1
  <2>2. CASE ~ Depends(f, d)
    BY <2>2
  <2> QED BY <2>1, <2>2
<1>8. NoneTwice(table2)
  <2>1. \A e \in DOMAIN table : ~ SamePosition(table[e], Entry(f.place, d.sect))
    <3> SUFFICES ASSUME NEW e \in DOMAIN table, SamePosition(table[e], Entry(f.place, d.sect))
                 PROVE  FALSE
      OBVIOUS
    <3>1. table[e] \in EntriesOf(table)
      BY DEF EntriesOf
    <3>2. PICK g \in fields : Depends(g, data[g]) /\ table[e] = Entry(g.place, data[g].sect)
      BY <1>2, <3>1
    <3>3. SamePosition(Entry(g.place, data[g].sect), Entry(f.place, d.sect))
      BY <3>2
    <3>4. g = f
      BY <3>3, OneField
    <3> QED BY <1>3, <3>2, <3>4
  <2>2. NoneTwice(Append(table, Entry(f.place, d.sect)))
    BY <1>2, <2>1, OnceAppended
  <2> QED BY <1>2, <2>2
<1> HIDE DEF data2, numbers2, table2
<1>9. Accounts(numbers2, table2, data2, where)
  BY <1>1, <1>4, <1>5, <1>6, <1>7, <1>8 DEF Accounts
<1> QED BY <1>9 DEF data2, numbers2, table2

LEMMA ResolvedTyped ==
  ASSUME FieldsKnown
  PROVE  /\ DOMAIN Resolved = fields
         /\ \A f \in fields :
              /\ Resolved[f] \in SymDataType
              /\ Resolved[f].kind = "label" => Resolved[f].sect \in DOMAIN sects
<1>1. \A f \in fields : f.data \in SymDataType
  BY DEF FieldsKnown, FieldType
<1>2. \A f \in fields : IsResolved(f) => f.slot \in DOMAIN defs
  BY DEF FieldsKnown, IsResolved
<1> QED BY <1>1, <1>2 DEF Resolved, FieldsKnown

(* The entry the prototype pass is at is the reference of one field, and   *)
(* what its cell is read as is what the prototype was defined as.          *)
LEMMA ReferenceAt ==
  ASSUME LinkInductive, FieldsFollow, phase = "labels", at <= Len(preTbl),
         NEW data \in CellReads(preTbl[at].to), data.kind # "proto"
  PROVE  \E f \in fields : /\ preTbl[at] = Entry(f.place, f.slot)
                           /\ f.slot # 0 /\ ~ IsResolved(f)
                           /\ f.slot \in DOMAIN defs /\ data = defs[f.slot]
<1>1. /\ at \in DOMAIN preTbl /\ at \in Nat \ {0}
      /\ FieldsKnown /\ ReferencesListed
  BY LenProperties DEF LinkInductive, BeforeLabels, FieldsFollow
<1>2. preTbl[at] \in EntriesOf(preTbl)
  BY <1>1 DEF EntriesOf
<1>3. PICK f \in fields : f.slot # 0 /\ preTbl[at] = Entry(f.place, f.slot)
  BY <1>1, <1>2 DEF ReferencesListed
<1>4. f.place \in RelocationEntry /\ f.slot \in DOMAIN defs
  BY <1>1, <1>3 DEF FieldsKnown, FieldType
<1>5. ~ IsResolved(f)
  <2> SUFFICES ASSUME NEW e \in 1 .. at - 1, preTbl[e] = Entry(f.place, f.slot) PROVE FALSE
    BY DEF IsResolved
  <2>1. e \in DOMAIN preTbl /\ e # at
    <3>1. preTbl \in Seq(RelocationEntry)
      BY DEF LinkInductive, BeforeLabels
    <3>2. DOMAIN preTbl = 1 .. Len(preTbl) /\ Len(preTbl) \in Nat
      BY <3>1, LenProperties
    <3> QED BY <1>1, <3>2
  <2>2. SamePosition(preTbl[e], preTbl[at])
    BY <1>3 DEF SamePosition
  <2> QED BY <1>1, <2>1, <2>2 DEF ReferencesListed, NoneTwice
<1>6. data = defs[f.slot]
  <2>1. preTbl[at].to = f.slot
    BY <1>3, <1>4, EntryParts
  <2>2. data = preData[f.slot + 1]
    BY <2>1 DEF CellReads, SymData
  <2> QED BY <1>1, <1>4, <2>2 DEF ReferencesListed
<1> QED BY <1>3, <1>4, <1>5, <1>6

(* One more reference stands for what its prototype was defined as.        *)
LEMMA ReferenceApplied ==
  ASSUME LinkInductive, FieldsFollow, applyPreLbl
  PROVE  FieldsFollow'
<1>1. /\ phase = "labels" /\ at <= Len(preTbl) /\ phase' = phase /\ at' = at + 1
      /\ applied' = applied /\ sects' = sects /\ preTbl' = preTbl /\ preData' = preData
      /\ defs' = defs /\ fields' = fields
  BY DEF applyPreLbl, symVars
<1>2. PICK data \in CellReads(preTbl[at].to) :
        /\ data.kind # "proto"
        /\ content' = Patched(content, PlaceOf(preTbl[at]), data.val)
        /\ relt' = IF MovesFrom(data, preTbl[at]) THEN Append(relt, Retargeted(preTbl[at], data))
                   ELSE relt
  BY DEF applyPreLbl
<1>3. PICK f \in fields : /\ preTbl[at] = Entry(f.place, f.slot)
                          /\ f.slot # 0 /\ ~ IsResolved(f)
                          /\ f.slot \in DOMAIN defs /\ data = defs[f.slot]
  BY <1>1, <1>2, ReferenceAt
<1>4. /\ FieldsKnown /\ ReferencesListed /\ ~ applied
      /\ Accounts(content, relt, Resolved, Where)
      /\ relt \in Seq(RelocationEntry) /\ at \in Nat \ {0}
      /\ f.place \in RelocationEntry
  BY <1>1 DEF FieldsFollow, FieldsKnown, FieldType, LinkInductive, BeforeMerging, BeforeLabels
<1>5. FieldsKnown' /\ ReferencesListed'
  BY <1>1, <1>4 DEF FieldsKnown, ReferencesListed
<1>6. Where = [g \in fields |-> PlaceOf(g.place)] /\ Where' = Where
  BY <1>1 DEF Where, IsCarried
<1>7. Resolved' = [Resolved EXCEPT ![f] = data]
  <2>1. \A g \in fields : g # f => preTbl[at] # Entry(g.place, g.slot)
    <3> SUFFICES ASSUME NEW g \in fields, preTbl[at] = Entry(g.place, g.slot) PROVE g = f
      OBVIOUS
    <3>1. SamePosition(Entry(g.place, g.slot), Entry(f.place, f.slot))
      BY <1>3 DEF SamePosition
    <3> QED BY <1>4, <3>1, OneField
  <2>2. 1 .. at' - 1 = (1 .. at - 1) \cup {at}
    BY <1>1, <1>4
  <2>3. \A g \in fields : IsResolved(g)' <=> IsResolved(g) \/ g = f
    BY <1>1, <1>3, <2>1, <2>2 DEF IsResolved
  <2> QED BY <1>1, <1>3, <2>3 DEF Resolved
<1>8. Resolved[f] = NoData
  BY <1>3, <1>4 DEF Resolved, FieldsKnown
<1>9. PlaceOf(preTbl[at]) = Where[f]
  BY <1>3, <1>4, <1>6, EntryParts
<1>10. relt' = IF Depends(f, data) THEN Append(relt, Entry(f.place, data.sect)) ELSE relt
  <2>1. MovesFrom(data, preTbl[at]) <=> Depends(f, data)
    BY <1>3, <1>4, EntryParts DEF MovesFrom, Depends
  <2>2. Retargeted(preTbl[at], data) = Entry(f.place, data.sect)
    BY <1>3, <1>4, EntryParts
  <2> QED BY <1>2, <2>1, <2>2
<1>11. /\ data.val \in Int /\ Entry(f.place, data.sect) \in RelocationEntry
       /\ \A g \in fields : Resolved[g].val \in Int
  <2>1. data \in SymDataType
    BY <1>3, <1>4 DEF FieldsKnown
  <2>2. \A g \in fields : Resolved[g] \in SymDataType
    BY <1>4, ResolvedTyped
  <2> QED BY <1>4, <2>1, <2>2 DEF SymDataType, RelocationEntry, Entry
<1>12. \A g, h \in fields : Where[g] = Where[h] => g = h
  BY <1>4, <1>6 DEF FieldsKnown
<1>13. Accounts(Patched(content, Where[f], data.val),
                IF Depends(f, data) THEN Append(relt, Entry(f.place, data.sect)) ELSE relt,
                [Resolved EXCEPT ![f] = data], Where)
  BY <1>4, <1>8, <1>11, <1>12, ResolvedTyped, AccountExtended
<1>14. Accounts(content', relt', Resolved', Where')
  BY <1>2, <1>6, <1>7, <1>9, <1>10, <1>13
<1> QED BY <1>1, <1>4, <1>5, <1>14 DEF FieldsFollow

(* When the pass is through, all references are resolved; when it fails or *)
(* derails, nothing is claimed.                                            *)
LEMMA ReferencesEnd ==
  ASSUME LinkInductive, FieldsFollow, applyFails \/ applyDerails \/ applyEnds
  PROVE  FieldsFollow'
<1>1. /\ phase = "labels" /\ sects' = sects /\ defs' = defs /\ fields' = fields
      /\ FieldsKnown /\ ReferencesListed /\ ~ applied
  BY DEF applyFails, applyDerails, applyEnds, vars, symVars, refVars, FieldsFollow
<1>2. FieldsKnown'
  BY <1>1 DEF FieldsKnown
<1>3. CASE applyFails \/ applyDerails
  <2>1. phase' \in {"merging", "undefined"} /\ applied' = applied
    BY <1>3 DEF applyFails, applyDerails
  <2> QED BY <1>1, <1>2, <2>1 DEF FieldsFollow
<1>4. CASE applyEnds
  <2>1. /\ at > Len(preTbl) /\ phase' = "merging" /\ content' = content /\ relt' = relt
        /\ base' = base
    BY <1>4 DEF applyEnds
  <2>2. Where' = Where
    BY <1>1, <2>1 DEF Where, IsCarried
  <2>3. \A f \in fields : f.slot # 0 => IsResolved(f)
    <3> SUFFICES ASSUME NEW f \in fields, f.slot # 0
                 PROVE  \E e \in 1 .. at - 1 : preTbl[e] = Entry(f.place, f.slot)
      BY DEF IsResolved
    <3>1. Entry(f.place, f.slot) \in EntriesOf(preTbl)
      BY <1>1 DEF ReferencesListed
    <3>2. PICK e \in DOMAIN preTbl : preTbl[e] = Entry(f.place, f.slot)
      BY <3>1 DEF EntriesOf
    <3>3. DOMAIN preTbl = 1 .. Len(preTbl) /\ Len(preTbl) \in Nat /\ at \in Nat
      BY <1>1, LenProperties DEF LinkInductive, BeforeLabels
    <3> QED BY <2>1, <3>2, <3>3
  <2>4. Resolved' = Resolved
    <3>1. \A f \in fields : IsResolved(f)' <=> IsResolved(f)
      BY <2>1, <2>3 DEF IsResolved
    <3> QED BY <1>1, <3>1 DEF Resolved
  <2>5. Accounts(content', relt', Resolved', Where')
    BY <1>1, <2>1, <2>2, <2>4 DEF FieldsFollow
  <2> QED BY <1>2, <2>1, <2>5 DEF FieldsFollow
<1> QED BY <1>3, <1>4

(* Numbers that are carried to different positions stay what they are.     *)
LEMMA AccountCarried ==
  ASSUME NEW numbers, NEW table, NEW data, NEW where, Accounts(numbers, table, data, where),
         NEW to, \A p, q \in DOMAIN numbers : to[p] = to[q] => p = q
  PROVE  Accounts(Carried(numbers, to), table, data, [f \in DOMAIN data |-> to[where[f]]])
<1> DEFINE numbers2 == Carried(numbers, to)
           where2 == [f \in DOMAIN data |-> to[where[f]]]
<1>1. /\ DOMAIN numbers = {where[f] : f \in DOMAIN data}
      /\ \A f \in DOMAIN data : numbers[where[f]] = data[f].val - BehindField(f)
  BY DEF Accounts
<1>2. DOMAIN numbers2 = {where2[f] : f \in DOMAIN data}
  <2>1. DOMAIN numbers2 = {to[p] : p \in DOMAIN numbers}
    BY DEF Carried
  <2> QED BY <1>1, <2>1
<1>3. \A p \in DOMAIN numbers : numbers2[to[p]] = numbers[p]
  <2> SUFFICES ASSUME NEW p \in DOMAIN numbers PROVE numbers2[to[p]] = numbers[p]
    OBVIOUS
  <2>1. (CHOOSE q \in DOMAIN numbers : to[q] = to[p]) = p
    OBVIOUS
  <2> QED BY <2>1 DEF Carried
<1>4. \A f \in DOMAIN data : numbers2[where2[f]] = data[f].val - BehindField(f)
  <2>1. \A f \in DOMAIN data : where[f] \in DOMAIN numbers
    BY <1>1
  <2> QED BY <1>1, <1>3, <2>1
<1> HIDE DEF numbers2, where2
<1>5. Accounts(numbers2, table, data, where2)
  BY <1>2, <1>4 DEF Accounts
<1> QED BY <1>5 DEF numbers2, where2

(* Nothing lies before the first entry section.                            *)
LEMMA NothingBefore ==
  ASSUME NEW s \in Nat, EntrySects = {s}
  PROVE  EntryOffset(s) = 0
<1> DEFINE f == [r \in SUBSET {} |-> 0]
           iter == CHOOSE g : g = [r \in SUBSET {} |->
                     IF r = {} THEN 0 ELSE sects[AnyOf(r)].size + g[r \ {AnyOf(r)}]]
<1>1. f = [r \in SUBSET {} |-> IF r = {} THEN 0 ELSE sects[AnyOf(r)].size + f[r \ {AnyOf(r)}]]
  OBVIOUS
<1>2. iter = [r \in SUBSET {} |->
                IF r = {} THEN 0 ELSE sects[AnyOf(r)].size + iter[r \ {AnyOf(r)}]]
  BY <1>1
<1>3. iter[{}] = 0
  BY <1>2
<1>4. SizeOf({}) = iter[{}]
  BY Zenon DEF SizeOf, MapThenSumSet, MapThenFoldSet, AnyOf
<1>5. {e \in EntrySects : e < s} = {}
  OBVIOUS
<1> QED BY <1>3, <1>4, <1>5 DEF EntryOffset

LEMMA FieldsMerged ==
  ASSUME LinkInductive, FieldsFollow, mergeEntries
  PROVE  FieldsFollow'
<1>1. /\ phase = "merging" /\ phase' = "relocating" /\ relt' = relt /\ applied' = applied
      /\ base' = [s \in EntrySects |-> EntryOffset(s)]
      /\ content' = Carried(content, [p \in DOMAIN content |-> MovedByMerge(p)])
      /\ sects' = [s \in DOMAIN sects |->
                     IF s \in EntrySects THEN [sects[s] EXCEPT !.size = 0] ELSE sects[s]]
      /\ newSect' = [Section("_ALL_CODE_", BIN_SECTION_PRESET_MAIN, FALSE)
                       EXCEPT !.size = SizeOf(EntrySects) + SuffixSize]
      /\ defs' = defs /\ fields' = fields
  BY DEF mergeEntries, symVars, refVars
<1>2. /\ DOMAIN sects = 1 .. Len(sects) /\ Len(sects) \in Nat
      /\ \A s \in DOMAIN sects : sects[s] \in SectionType
      /\ FieldsKnown
  BY <1>1, Sections DEF LinkInductive, BeforeMerging, FieldsFollow
<1>3. FieldsKnown'
  BY <1>1, <1>2 DEF FieldsKnown
<1>4. newSect'.attr.entry
  <2> DEFINE n == SizeOf(EntrySects) + SuffixSize
  <2>1. newSect' = [Section("_ALL_CODE_", BIN_SECTION_PRESET_MAIN, FALSE) EXCEPT !.size = n]
    BY <1>1
  <2> HIDE DEF n
  <2> QED BY <2>1 DEF Section, BIN_SECTION_PRESET_MAIN
<1>5. \A s \in DOMAIN base' : sects'[s].attr.entry
  <2>1. \A r \in SectionType : [r EXCEPT !.size = 0].attr = r.attr
    BY DEF SectionType
  <2> QED BY <1>1, <1>2, <2>1 DEF EntrySects
<1>6. \A s : DOMAIN base' = {s} => base'[s] = 0
  <2> SUFFICES ASSUME NEW s, DOMAIN base' = {s} PROVE base'[s] = 0
    OBVIOUS
  <2>1. EntrySects = {s} /\ base'[s] = EntryOffset(s)
    BY <1>1
  <2>2. s \in Nat
    BY <1>2, <2>1 DEF EntrySects
  <2> QED BY <2>1, <2>2, NothingBefore
<1>7. ASSUME applied', OneEntry'
      PROVE  Accounts(content', relt', Resolved', Where')
  <2>1. Accounts(content, relt, Resolved, Where)
    BY <1>1, <1>7 DEF FieldsFollow
  <2>2. Resolved' = Resolved
    <3>1. \A f \in fields : IsResolved(f)' <=> IsResolved(f)
      BY <1>1 DEF IsResolved
    <3> QED BY <1>1, <3>1 DEF Resolved
  <2>3. PICK s : EntrySects = {s} /\ EntryOffset(s) = 0
    <3>1. PICK s : DOMAIN base' = {s} /\ base'[s] = 0
      BY <1>7 DEF OneEntry
    <3> QED BY <1>1, <3>1
  <2> DEFINE to == [p \in DOMAIN content |-> MovedByMerge(p)]
  <2>4. /\ DOMAIN content = {PlaceOf(f.place) : f \in fields}
        /\ Where = [f \in fields |-> PlaceOf(f.place)]
    <3>1. Where = [f \in fields |-> PlaceOf(f.place)]
      BY <1>1 DEF Where, IsCarried
    <3> QED BY <2>1, <3>1, <1>2, ResolvedTyped DEF Accounts
  <2>5. \A f \in fields :
          /\ f.place.off \in Nat /\ f.place.sect \in DOMAIN sects
          /\ PlaceOf(f.place).sect = f.place.sect /\ PlaceOf(f.place).off = f.place.off
    BY <1>2 DEF FieldsKnown, FieldType, RelocationEntry, PlaceOf, Position
  <2>6. \A f \in fields :
          to[PlaceOf(f.place)] = IF f.place.sect = s THEN Position(NewSect, f.place.off)
                                 ELSE PlaceOf(f.place)
    <3> SUFFICES ASSUME NEW f \in fields
                 PROVE  MovedByMerge(PlaceOf(f.place)) =
                          IF f.place.sect = s THEN Position(NewSect, f.place.off)
                          ELSE PlaceOf(f.place)
      BY <2>4
    <3>1. f.place.off + 0 = f.place.off
      BY <2>5
    <3> QED BY <2>3, <2>5, <3>1 DEF MovedByMerge
  <2>7. Where' = [f \in fields |-> to[Where[f]]]
    BY <1>1, <2>3, <2>4, <2>6 DEF Where, IsCarried
  <2>8. \A p, q \in DOMAIN content : to[p] = to[q] => p = q
    <3> SUFFICES ASSUME NEW f \in fields, NEW g \in fields,
                        to[PlaceOf(f.place)] = to[PlaceOf(g.place)]
                 PROVE  PlaceOf(f.place) = PlaceOf(g.place)
      BY <2>4
    <3>1. f.place.sect # NewSect /\ g.place.sect # NewSect
      BY <1>2, <2>5 DEF FieldsKnown
    <3>2. \A n : Position(NewSect, n).sect = NewSect /\ Position(NewSect, n).off = n
      BY DEF Position
    <3> QED BY <2>5, <2>6, <3>1, <3>2 DEF PlaceOf
  <2> HIDE DEF to
  <2>9. Accounts(Carried(content, to), relt, Resolved, [f \in DOMAIN Resolved |-> to[Where[f]]])
    BY <2>1, <2>8, AccountCarried
  <2>10. DOMAIN Resolved = fields
    BY <1>2, ResolvedTyped
  <2> QED BY <1>1, <2>2, <2>7, <2>9, <2>10 DEF to
<1> QED BY <1>1, <1>3, <1>4, <1>5, <1>6, <1>7 DEF FieldsFollow

(* What a change leaves of every number and entry, it leaves of the        *)
(* account.                                                                *)
LEMMA AccountSame ==
  ASSUME NEW numbers, NEW table, NEW data, NEW where, Accounts(numbers, table, data, where),
         NEW numbers2, DOMAIN numbers2 = DOMAIN numbers,
         \A p \in DOMAIN numbers : numbers2[p] = numbers[p],
         NEW table2, DOMAIN table2 = DOMAIN table,
         \A e \in DOMAIN table : table2[e] = table[e]
  PROVE  Accounts(numbers2, table2, data, where)
<1>1. /\ DOMAIN numbers = {where[f] : f \in DOMAIN data}
      /\ \A f \in DOMAIN data : numbers[where[f]] = data[f].val - BehindField(f)
      /\ EntriesOf(table) =
           {Entry(f.place, data[f].sect) : f \in {g \in DOMAIN data : Depends(g, data[g])}}
      /\ NoneTwice(table)
  BY DEF Accounts
<1>2. \A f \in DOMAIN data : numbers2[where[f]] = data[f].val - BehindField(f)
  <2>1. \A f \in DOMAIN data : where[f] \in DOMAIN numbers
    BY <1>1
  <2> QED BY <1>1, <2>1
<1>3. EntriesOf(table2) = EntriesOf(table)
  BY DEF EntriesOf
<1>4. NoneTwice(table2)
  BY <1>1 DEF NoneTwice, SamePosition
<1> QED BY <1>1, <1>2, <1>3, <1>4 DEF Accounts

(* Adding nothing to a number that is there changes nothing.               *)
LEMMA PatchedByNothing ==
  ASSUME NEW numbers, \A p \in DOMAIN numbers : numbers[p] \in Int, NEW place \in DOMAIN numbers
  PROVE  /\ DOMAIN Patched(numbers, place, 0) = DOMAIN numbers
         /\ \A p \in DOMAIN numbers : Patched(numbers, place, 0)[p] = numbers[p]
<1>1. DOMAIN numbers \cup {place} = DOMAIN numbers
  OBVIOUS
<1>2. Patched(numbers, place, 0) =
        [p \in DOMAIN numbers |-> numbers[p] + (IF p = place THEN 0 ELSE 0)]
  BY <1>1 DEF Patched
<1>3. \A n \in Int : n + 0 = n
  OBVIOUS
<1>4. \A p \in DOMAIN numbers : numbers[p] + (IF p = place THEN 0 ELSE 0) = numbers[p]
  BY <1>3
<1> QED BY <1>2, <1>4

(* With one entry section nothing moves: an entry in it keeps its place,   *)
(* and one for it is not in it.                                            *)
LEMMA NothingMoves ==
  ASSUME LinkTyped, LinkInductive, phase = "relocating", at > 0,
         NEW s, DOMAIN base = {s}, base[s] = 0
  PROVE  /\ Replaced = s
         /\ MovedEntry(relt[at]) = relt[at]
         /\ IsMoved(relt[at]) => relt[at].sect = s
         /\ PointsIntoMerged(relt[at]) => relt[at].to = s /\ relt[at].sect # s
<1>1. /\ relt[at] \in RelocationEntry /\ relt[at].sect \in DOMAIN sects
      /\ \A t \in DOMAIN sects : sects[t].attr.entry => t = s
  BY MovedTyped DEF LinkInductive, WhileRelocating
<1>2. Replaced = s
  BY ReplacedSection DEF LinkInductive
<1>3. IsMoved(relt[at]) => relt[at].sect = s
  BY <1>1 DEF IsMoved
<1>4. MovedEntry(relt[at]) = relt[at]
  <2>1. CASE ~ IsMoved(relt[at])
    BY <2>1 DEF MovedEntry
  <2>2. CASE IsMoved(relt[at])
    <3>1. MovedEntry(relt[at]) = [relt[at] EXCEPT !.sect = s, !.off = relt[at].off + 0]
      BY <1>2, <2>2 DEF MovedEntry
    <3>2. \A r \in RelocationEntry : [r EXCEPT !.sect = r.sect, !.off = r.off + 0] = r
      <4>1. \A r \in RelocationEntry : r.off + 0 = r.off
        BY DEF RelocationEntry
      <4>2. \A r \in RelocationEntry : [r EXCEPT !.sect = r.sect, !.off = r.off] = r
        BY DEF RelocationEntry
      <4> QED BY <4>1, <4>2, Zenon
    <3>3. [relt[at] EXCEPT !.sect = relt[at].sect, !.off = relt[at].off + 0] = relt[at]
      BY <1>1, <3>2
    <3> QED BY <1>3, <2>2, <3>1, <3>3
  <2> QED BY <2>1, <2>2
<1>5. PointsIntoMerged(relt[at]) => relt[at].to = s /\ relt[at].sect # s
  BY <1>4, MergedTarget, OneMerged
<1> QED BY <1>2, <1>3, <1>4, <1>5

(* Relocating an entry of a program with one entry section patches nothing *)
(* that changes a number, and leaves the entry as it is.                   *)
LEMMA EntryRelocated ==
  ASSUME LinkTyped, LinkInductive, FieldsFollow, relocateEntry, applied,
         NEW s, DOMAIN base = {s}, base[s] = 0
  PROVE  Accounts(content', relt', Resolved, Where)
<1> DEFINE entry == relt[at]
           behind == ContentBehind(entry)
<1>1. /\ phase = "relocating" /\ at > 0
      /\ \/ content' = behind /\ relt' = [relt EXCEPT ![at] = MovedEntry(entry)]
         \/ /\ PointsIntoMerged(entry)
            /\ content' = Patched(behind, PlaceOf(MovedEntry(entry)), base[entry.to])
            /\ relt' = [relt EXCEPT ![at] = [MovedEntry(entry) EXCEPT !.to = Replaced]]
  BY DEF relocateEntry
<1>2. /\ Replaced = s /\ MovedEntry(entry) = entry
      /\ IsMoved(entry) => entry.sect = s
      /\ PointsIntoMerged(entry) => entry.to = s /\ entry.sect # s
  BY <1>1, NothingMoves
<1>3. entry \in RelocationEntry /\ at \in DOMAIN relt
  BY <1>1, MovedTyped
<1>4. /\ FieldsKnown /\ Accounts(content, relt, Resolved, Where)
      /\ \A p \in DOMAIN content : content[p] \in Int
  BY <1>1 DEF FieldsFollow, OneEntry, LinkTyped
<1>5. PICK f \in fields : entry.sect = f.place.sect /\ entry.off = f.place.off
  <2>1. entry \in EntriesOf(relt)
    BY <1>3 DEF EntriesOf
  <2>2. PICK f \in fields : entry = Entry(f.place, Resolved[f].sect)
    BY <1>4, <2>1, ResolvedTyped DEF Accounts
  <2>3. f.place \in RelocationEntry
    BY <1>4 DEF FieldsKnown, FieldType
  <2> QED BY <2>2, <2>3, EntryParts
<1>6. Where[f] \in DOMAIN content
  BY <1>4, ResolvedTyped DEF Accounts
<1>7. /\ entry.sect = s => Where[f] = Position(NewSect, entry.off)
      /\ entry.sect # s => Where[f] = PlaceOf(entry)
  BY <1>1, <1>5 DEF Where, IsCarried, PlaceOf
<1> HIDE DEF entry
<1>8. /\ DOMAIN behind = DOMAIN content
      /\ \A p \in DOMAIN content : behind[p] = content[p]
  <2>1. CASE ~ (IsMoved(entry) /\ entry.rel)
    BY <2>1 DEF ContentBehind
  <2>2. CASE IsMoved(entry) /\ entry.rel
    <3>1. base[Replaced] = 0
      BY <1>2
    <3>2. -base[Replaced] = 0
      <4>1. \A n \in Int : -n = 0 - n
        OBVIOUS
      <4>2. -base[Replaced] = 0 - base[Replaced]
        BY <3>1, <4>1, 0 \in Int, Zenon
      <4>3. 0 - base[Replaced] = 0
        BY <3>1
      <4> QED BY <4>2, <4>3, Zenon
    <3>3. behind = Patched(content, Where[f], 0)
      BY <1>2, <1>7, <2>2, <3>2 DEF ContentBehind
    <3> HIDE DEF behind
    <3> QED BY <1>4, <1>6, <3>3, PatchedByNothing
  <2> QED BY <2>1, <2>2
<1> HIDE DEF behind
<1>9. /\ DOMAIN content' = DOMAIN content
      /\ \A p \in DOMAIN content : content'[p] = content[p]
  <2>1. CASE content' = behind
    BY <1>8, <2>1
  <2>2. CASE /\ PointsIntoMerged(entry)
             /\ content' = Patched(behind, PlaceOf(MovedEntry(entry)), base[entry.to])
    <3>1. content' = Patched(behind, Where[f], 0)
      BY <1>2, <1>7, <2>2
    <3> QED BY <1>4, <1>6, <1>8, <3>1, PatchedByNothing
  <2> QED BY <1>1, <2>1, <2>2 DEF entry
<1>10. /\ DOMAIN relt' = DOMAIN relt
       /\ \A e \in DOMAIN relt : relt'[e] = relt[e]
  <2>1. relt' = [relt EXCEPT ![at] = entry]
    <3>1. PointsIntoMerged(entry) => [entry EXCEPT !.to = Replaced] = entry
      <4>1. \A r \in RelocationEntry : [r EXCEPT !.to = r.to] = r
        BY DEF RelocationEntry
      <4> QED BY <1>2, <1>3, <4>1
    <3> QED BY <1>1, <1>2, <3>1 DEF entry
  <2> QED BY <2>1 DEF entry
<1> QED BY <1>4, <1>9, <1>10, AccountSame

LEMMA FieldsRelocated ==
  ASSUME LinkTyped, LinkInductive, FieldsFollow, relocateEntry
  PROVE  FieldsFollow'
<1>1. /\ phase = "relocating" /\ at > 0 /\ phase' = phase /\ applied' = applied /\ base' = base
      /\ newSect' = newSect /\ sects' = SectsBehind(relt[at])
      /\ defs' = defs /\ fields' = fields
  BY DEF relocateEntry, symVars
<1>2. /\ DOMAIN sects' = DOMAIN sects
      /\ \A t \in DOMAIN sects : t # Replaced => sects'[t] = sects[t]
  <2>1. DOMAIN sects' = DOMAIN sects
    BY <1>1, MovedTyped
  <2>2. sects' \in {sects, [sects EXCEPT ![Replaced].attr.entry = FALSE]}
    BY <1>1 DEF SectsBehind
  <2> QED BY <2>1, <2>2
<1>3. FieldsKnown'
  BY <1>1, <1>2 DEF FieldsFollow, FieldsKnown
<1>4. \A t \in DOMAIN base : t # Replaced => sects'[t].attr.entry
  BY <1>1, <1>2 DEF FieldsFollow, LinkTyped
<1>5. Resolved' = Resolved /\ Where' = Where
  <2>1. \A f \in fields : (IsResolved(f)' <=> IsResolved(f)) /\ (IsCarried(f)' <=> IsCarried(f))
    BY <1>1 DEF IsResolved, IsCarried
  <2> QED BY <1>1, <2>1 DEF Resolved, Where
<1>6. applied /\ OneEntry => Accounts(content', relt', Resolved', Where')
  BY <1>5, EntryRelocated DEF OneEntry
<1>7. Replaced' = Replaced
  BY <1>1 DEF Replaced
<1> QED BY <1>1, <1>3, <1>4, <1>6, <1>7 DEF FieldsFollow, OneEntry

(* The numbers of the merged section are carried to its place.             *)
LEMMA FieldsPlaced ==
  ASSUME LinkTyped, LinkInductive, FieldsFollow, endMerge
  PROVE  FieldsFollow'
<1>1. /\ phase = "relocating" /\ phase' = "linked" /\ DOMAIN base # {}
      /\ sects' = [sects EXCEPT ![Replaced] = newSect]
      /\ content' = Carried(content, [p \in DOMAIN content |-> InPlace(p)])
      /\ applied' = applied /\ base' = base /\ relt' = relt /\ defs' = defs /\ fields' = fields
  BY DEF endMerge, symVars, refVars
<1>2. /\ Replaced \in DOMAIN base /\ DOMAIN base \subseteq DOMAIN sects
      /\ \A s \in DOMAIN sects : sects[s].attr.entry => s \in DOMAIN base
      /\ newSect.attr.entry /\ \A s \in DOMAIN base : s # Replaced => sects[s].attr.entry
      /\ FieldsKnown
  BY <1>1, ReplacedSection DEF LinkInductive, WhileRelocating, FieldsFollow
<1>3. /\ DOMAIN sects' = DOMAIN sects /\ sects'[Replaced] = newSect
      /\ \A s \in DOMAIN sects : s # Replaced => sects'[s] = sects[s]
  BY <1>1, <1>2
<1>4. FieldsKnown'
  BY <1>1, <1>2, <1>3 DEF FieldsKnown
<1>5. EntrySects' = DOMAIN base
  BY <1>2, <1>3 DEF EntrySects
<1>6. \A s : DOMAIN base = {s} => base[s] = 0
  BY <1>1 DEF FieldsFollow
<1>7. ASSUME applied, OneEntry
      PROVE  Accounts(content', relt', Resolved', Where')
  <2>1. Accounts(content, relt, Resolved, Where)
    BY <1>1, <1>7 DEF FieldsFollow
  <2>2. PICK s : DOMAIN base = {s}
    BY <1>7 DEF OneEntry
  <2>3. Replaced = s
    BY <1>2, <2>2
  <2>4. Resolved' = Resolved /\ DOMAIN Resolved = fields
    <3>1. \A f \in fields : IsResolved(f)' <=> IsResolved(f)
      BY <1>1 DEF IsResolved
    <3> QED BY <1>1, <1>2, <3>1, ResolvedTyped DEF Resolved
  <2>5. \A f \in fields : f.place.sect # NewSect
    BY <1>2 DEF FieldsKnown
  <2> DEFINE to == [p \in DOMAIN content |-> InPlace(p)]
  <2>6. \A f \in fields : Where[f] \in DOMAIN content
    BY <2>1, <2>4 DEF Accounts
  <2>7. \A f \in fields :
          /\ f.place.sect = s => Where[f] = Position(NewSect, f.place.off)
          /\ f.place.sect # s => Where[f] = Position(f.place.sect, f.place.off)
    BY <1>1, <2>2 DEF Where, IsCarried, PlaceOf
  <2>8. \A f \in fields : to[Where[f]] = PlaceOf(f.place)
    <3>1. \A t, n : Position(t, n).sect = t /\ Position(t, n).off = n
      BY DEF Position
    <3> QED BY <2>3, <2>5, <2>6, <2>7, <3>1 DEF InPlace, PlaceOf
  <2>9. Where' = [f \in fields |-> to[Where[f]]]
    <3>1. Where' = [f \in fields |-> PlaceOf(f.place)]
      BY <1>1 DEF Where, IsCarried
    <3> HIDE DEF to
    <3> QED BY <2>8, <3>1
  <2>10. \A p, q \in DOMAIN content : to[p] = to[q] => p = q
    <3> HIDE DEF to
    <3>1. DOMAIN content = {Where[f] : f \in fields}
      BY <2>1, <2>4 DEF Accounts
    <3>2. \A f, g \in fields : to[Where[f]] = to[Where[g]] => f = g
      BY <1>2, <2>8 DEF FieldsKnown
    <3> QED BY <3>1, <3>2
  <2> HIDE DEF to
  <2>11. Accounts(Carried(content, to), relt, Resolved, [f \in DOMAIN Resolved |-> to[Where[f]]])
    BY <2>1, <2>10, AccountCarried
  <2> QED BY <1>1, <2>4, <2>9, <2>11 DEF to
<1> QED BY <1>1, <1>4, <1>5, <1>6, <1>7 DEF FieldsFollow, OneEntry

(* The remaining steps change nothing of it.                               *)
LEMMA FieldsUntouched ==
  ASSUME LinkInductive, FieldsFollow, Translate \/ mergeDerails \/ UNCHANGED <<linkVars, vars>>
  PROVE  FieldsFollow'
<1>1. CASE Translate
  <2>1. phase' = "translating" /\ ~ applied'
    BY <1>1 DEF Translate, linkVars, LinkInductive, FieldsFollow
  <2> QED BY <2>1 DEF FieldsFollow
<1>2. CASE mergeDerails
  <2>1. phase # "translating" /\ phase' = "undefined" /\ UNCHANGED vars
    BY <1>2 DEF mergeDerails
  <2>2. FieldsKnown'
    BY <2>1 DEF FieldsKnown, FieldsFollow, vars, symVars, refVars
  <2> QED BY <2>1, <2>2 DEF FieldsFollow
<1>3. CASE UNCHANGED <<linkVars, vars>>
  <2>1. /\ phase' = phase /\ at' = at /\ applied' = applied /\ content' = content /\ base' = base
        /\ newSect' = newSect /\ sects' = sects /\ relt' = relt /\ preTbl' = preTbl
        /\ preData' = preData /\ defs' = defs /\ fields' = fields
    BY <1>3 DEF linkVars, vars, symVars, refVars
  <2>2. /\ (FieldsKnown' <=> FieldsKnown) /\ (ReferencesListed' <=> ReferencesListed)
        /\ (OneEntry' <=> OneEntry) /\ EntrySects' = EntrySects /\ Replaced' = Replaced
    BY <2>1 DEF FieldsKnown, ReferencesListed, OneEntry, EntrySects, Replaced
  <2>3. Resolved' = Resolved /\ Where' = Where
    <3>1. \A f \in fields : (IsResolved(f)' <=> IsResolved(f)) /\ (IsCarried(f)' <=> IsCarried(f))
      BY <2>1 DEF IsResolved, IsCarried
    <3> QED BY <2>1, <3>1 DEF Resolved, Where
  <2> QED BY <2>1, <2>2, <2>3 DEF FieldsFollow
<1> QED BY <1>1, <1>2, <1>3

LEMMA FollowStep ==
  ASSUME LinkTyped, LinkInductive, FieldsFollow, [Passes]_<<linkVars, vars>>
  PROVE  FieldsFollow'
BY FieldsUntouched, FieldsWritten, ReferenceApplied, ReferencesEnd, FieldsMerged,
   FieldsRelocated, FieldsPlaced
DEF Passes

LEMMA FollowStart ==
  LinkInit => FieldsFollow
BY DEF LinkInit, FieldsFollow

LEMMA FieldsFollowAlways ==
  LinkSpec => []FieldsFollow
<1>1. LinkTyped /\ LinkInductive /\ FieldsFollow /\ [LinkNext]_<<linkVars, vars>> => FieldsFollow'
  BY LinkPasses, FollowStep
<1> QED BY <1>1, FollowStart, LinkInductiveHolds, LinkTypedAlways, PTL DEF LinkSpec

(* What a loader adds at a place for the entries there: the weight of one, *)
(* and nothing for none.                                                   *)
Weight(e, addr) == addr[relt[e].to] - (IF relt[e].rel THEN addr[relt[e].sect] ELSE 0)
EntriesAt(place) == {e \in DOMAIN relt : PlaceOf(relt[e]) = place}

LEMMA LoadedFew ==
  ASSUME NEW place, NEW addr
  PROVE  /\ EntriesAt(place) = {} => Loaded(place, addr) = content[place] + 0
         /\ \A e : EntriesAt(place) = {e} =>
                     Loaded(place, addr) = content[place] + (Weight(e, addr) + 0)
<1> DEFINE E == EntriesAt(place)
           iter == CHOOSE g : g = [r \in SUBSET E |->
                     IF r = {} THEN 0
                     ELSE addr[relt[AnyOf(r)].to]
                            - (IF relt[AnyOf(r)].rel THEN addr[relt[AnyOf(r)].sect] ELSE 0)
                            + g[r \ {AnyOf(r)}]]
           total == iter[E]
<1>1. Loaded(place, addr) = content[place] + total
  BY Zenon DEF Loaded, EntriesAt, MapThenSumSet, MapThenFoldSet, AnyOf
<1>2. ASSUME IsFiniteSet(E)
      PROVE  iter = [r \in SUBSET E |->
                       IF r = {} THEN 0 ELSE Weight(AnyOf(r), addr) + iter[r \ {AnyOf(r)}]]
  <2> DEFINE w == [e \in E |-> Weight(e, addr)]
             Sums(g) == g = [r \in SUBSET E |->
                               IF r = {} THEN 0 ELSE Weight(AnyOf(r), addr) + g[r \ {AnyOf(r)}]]
  <2> HIDE DEF E
  <2>1. \A r \in SUBSET E : r # {} => AnyOf(r) \in E
    BY DEF AnyOf
  <2>2. \A g : IsSum(w, g, E) <=> Sums(g)
    BY <2>1 DEF IsSum, SumStep
  <2>3. \E g : IsSum(w, g, E)
    <3> HIDE DEF w
    <3> QED BY <1>2, SumExists
  <2>4. \E g : Sums(g)
    BY <2>2, <2>3
  <2>5. iter = CHOOSE g : Sums(g)
    BY Zenon DEF Weight
  <2> HIDE DEF iter, Sums
  <2>6. Sums(iter)
    BY <2>4, <2>5
  <2> QED BY <2>6 DEF Sums
<1> HIDE DEF iter
<1>3. ASSUME E = {}
      PROVE  total = 0
  <2>1. IsFiniteSet(E)
    BY <1>3, FS_EmptySet
  <2> QED BY <1>2, <1>3, <2>1
<1>4. ASSUME NEW e, E = {e}
      PROVE  total = Weight(e, addr) + 0
  <2>1. IsFiniteSet(E)
    BY <1>4, FS_Singleton
  <2>2. AnyOf({e}) = e /\ {e} \ {e} = {}
    BY DEF AnyOf
  <2> HIDE DEF E
  <2>3. iter[{}] = 0 /\ iter[{e}] = Weight(e, addr) + iter[{}]
    BY <1>2, <1>4, <2>1, <2>2
  <2> QED BY <1>4, <2>3
<1> HIDE DEF total
<1> QED BY <1>1, <1>3, <1>4

(* With one entry section the merged code is where that was.               *)
LEMMA PlacesStay ==
  ASSUME NEW s, DOMAIN base = {s}, base[s] = 0, Replaced = s, NEW t, NEW n \in Int
  PROVE  FinalPlace(Position(t, n)) = Position(t, n)
<1>1. Position(t, n).sect = t /\ Position(t, n).off = n
  BY DEF Position
<1>2. n + 0 = n
  OBVIOUS
<1> QED BY <1>1, <1>2 DEF FinalPlace

(* The one entry of a field, if what it stands for depends on where        *)
(* sections are loaded, and none otherwise.                                *)
LEMMA EntriesOfField ==
  ASSUME FieldsKnown, NEW data, DOMAIN data = fields, NEW where,
         Accounts(content, relt, data, where), NEW f \in fields
  PROVE  /\ ~ Depends(f, data[f]) => EntriesAt(PlaceOf(f.place)) = {}
         /\ Depends(f, data[f]) =>
              \E e \in DOMAIN relt : /\ EntriesAt(PlaceOf(f.place)) = {e}
                                     /\ relt[e] = Entry(f.place, data[f].sect)
<1>1. /\ EntriesOf(relt) =
           {Entry(g.place, data[g].sect) : g \in {h \in fields : Depends(h, data[h])}}
      /\ NoneTwice(relt)
  BY DEF Accounts
<1>2. \A g \in fields : \A t : PlaceOf(Entry(g.place, t)) = PlaceOf(g.place)
  <2>1. \A g \in fields : g.place \in RelocationEntry
    BY DEF FieldsKnown, FieldType
  <2> QED BY <2>1, EntryParts
<1>3. \A e \in EntriesAt(PlaceOf(f.place)) : Depends(f, data[f])
  <2> SUFFICES ASSUME NEW e \in DOMAIN relt, PlaceOf(relt[e]) = PlaceOf(f.place)
               PROVE  Depends(f, data[f])
    BY DEF EntriesAt
  <2>1. relt[e] \in EntriesOf(relt)
    BY DEF EntriesOf
  <2>2. PICK g \in fields : Depends(g, data[g]) /\ relt[e] = Entry(g.place, data[g].sect)
    BY <1>1, <2>1
  <2>3. PlaceOf(g.place) = PlaceOf(f.place)
    BY <1>2, <2>2
  <2> QED BY <2>2, <2>3 DEF FieldsKnown
<1>4. ASSUME Depends(f, data[f])
      PROVE  \E e \in DOMAIN relt : /\ EntriesAt(PlaceOf(f.place)) = {e}
                                    /\ relt[e] = Entry(f.place, data[f].sect)
  <2>1. Entry(f.place, data[f].sect) \in EntriesOf(relt)
    BY <1>1, <1>4
  <2>2. PICK e \in DOMAIN relt : relt[e] = Entry(f.place, data[f].sect)
    BY <2>1 DEF EntriesOf
  <2>3. PlaceOf(relt[e]) = PlaceOf(f.place)
    BY <1>2, <2>2
  <2>4. \A d \in DOMAIN relt : PlaceOf(relt[d]) = PlaceOf(relt[e]) => d = e
    BY <1>1 DEF NoneTwice, SamePosition, PlaceOf, Position
  <2>5. EntriesAt(PlaceOf(f.place)) = {e}
    BY <2>3, <2>4 DEF EntriesAt
  <2> QED BY <2>2, <2>5
<1> QED BY <1>3, <1>4

(* With one entry section and every prototype defined, the passes leave    *)
(* every number where the translation wrote it, all of them account for    *)
(* what their fields mean, and nothing moved.                              *)
LEMMA LinkedAccounts ==
  ASSUME LinkTyped, FieldsFollow, phase = "linked", applied, Cardinality(EntrySects) = 1
  PROVE  /\ FieldsKnown
         /\ \E s : DOMAIN base = {s} /\ base[s] = 0 /\ Replaced = s
         /\ DOMAIN Resolved = fields /\ \A f \in fields : Resolved[f] = Meaning(f)
         /\ Accounts(content, relt, Resolved, [f \in fields |-> PlaceOf(f.place)])
<1>1. /\ FieldsKnown /\ EntrySects = DOMAIN base /\ DOMAIN base \subseteq DOMAIN sects
      /\ \A s : DOMAIN base = {s} => base[s] = 0
      /\ OneEntry => Accounts(content, relt, Resolved, Where)
  BY DEF FieldsFollow, LinkTyped
<1>2. PICK s : DOMAIN base = {s}
  <2>1. IsFiniteSet(EntrySects)
    BY <1>1, FS_Subset DEF FieldsKnown
  <2> QED BY <1>1, <2>1, FS_Singleton
<1>3. base[s] = 0 /\ OneEntry
  BY <1>1, <1>2 DEF OneEntry
<1>4. Replaced = s
  <2>1. s \in Nat /\ {s} \in SUBSET (0 .. s)
    BY <1>1, <1>2 DEF FieldsKnown
  <2>2. Max({s}) \in {s}
    BY <2>1, MaxFacts
  <2> QED BY <1>2, <2>2 DEF Replaced
<1>5. Where = [f \in fields |-> PlaceOf(f.place)]
  BY DEF Where, IsCarried
<1>6. DOMAIN Resolved = fields /\ \A f \in fields : Resolved[f] = Meaning(f)
  BY DEF Resolved, IsResolved, Meaning
<1> QED BY <1>1, <1>2, <1>3, <1>4, <1>5, <1>6

(* What a loader makes of a field is what it is wanted to be.              *)
LEMMA FieldLoaded ==
  ASSUME FieldsKnown, NEW s, DOMAIN base = {s}, base[s] = 0, Replaced = s,
         NEW data, DOMAIN data = fields, NEW where, Accounts(content, relt, data, where),
         NEW f \in fields, where[f] = PlaceOf(f.place),
         data[f] = Meaning(f), HasMeaning(f), data[f] \in SymDataType,
         data[f].kind = "label" => data[f].sect \in DOMAIN sects,
         NEW addr \in [DOMAIN sects -> {0, 4096}]
  PROVE  Loaded(PlaceOf(f.place), addr) = Wanted(f, addr)
<1> DEFINE d == data[f]
           place == f.place
           here == PlaceOf(place)
<1>1. /\ place \in RelocationEntry /\ place.off \in Int /\ place.size \in Int
      /\ place.rel \in BOOLEAN
      /\ place.sect \in DOMAIN sects /\ d.val \in Int
  BY DEF FieldsKnown, FieldType, RelocationEntry, SymDataType
<1>2. addr[place.sect] \in Int /\ (d.kind = "label" => addr[d.sect] \in Int)
  BY <1>1
<1>3. content[here] = d.val - BehindField(f)
  BY DEF Accounts
<1>4. FinalPlace(here) = here /\ FinalPlace(Position(d.sect, d.val)) = Position(d.sect, d.val)
  BY <1>1, PlacesStay DEF PlaceOf
<1>5. /\ AddressOf(here, addr) = addr[place.sect] + place.off
      /\ AddressOf(Position(d.sect, d.val), addr) = addr[d.sect] + d.val
  <2>1. \A t, n : Position(t, n).sect = t /\ Position(t, n).off = n
    BY DEF Position
  <2> QED BY <1>4, <2>1 DEF AddressOf, PlaceOf
<1>6. Wanted(f, addr) =
        (IF d.kind = "label" THEN addr[d.sect] + d.val ELSE d.val)
        - (IF place.rel THEN addr[place.sect] + place.off + place.size ELSE 0)
  BY <1>5 DEF Wanted
<1>7. /\ ~ Depends(f, data[f]) => EntriesAt(PlaceOf(f.place)) = {}
      /\ Depends(f, data[f]) =>
           \E e \in DOMAIN relt : /\ EntriesAt(PlaceOf(f.place)) = {e}
                                  /\ relt[e] = Entry(f.place, data[f].sect)
  <2> HIDE DEF d, place, here
  <2> QED BY EntriesOfField
<1>8. ~ Depends(f, d) => Loaded(here, addr) = d.val - BehindField(f) + 0
  BY <1>3, <1>7, LoadedFew
<1>9. Depends(f, d) =>
        Loaded(here, addr) =
          d.val - BehindField(f)
          + ((addr[d.sect] - (IF place.rel THEN addr[place.sect] ELSE 0)) + 0)
  <2> SUFFICES ASSUME Depends(f, d)
               PROVE  Loaded(here, addr) =
                        d.val - BehindField(f)
                        + ((addr[d.sect] - (IF place.rel THEN addr[place.sect] ELSE 0)) + 0)
    OBVIOUS
  <2>1. PICK e \in DOMAIN relt : EntriesAt(here) = {e} /\ relt[e] = Entry(place, d.sect)
    <3>1. \E e \in DOMAIN relt : /\ EntriesAt(PlaceOf(f.place)) = {e}
                                 /\ relt[e] = Entry(f.place, data[f].sect)
      BY <1>7
    <3> QED BY <3>1
  <2>2. Weight(e, addr) = addr[d.sect] - (IF place.rel THEN addr[place.sect] ELSE 0)
    BY <1>1, <2>1, EntryParts DEF Weight
  <2> HIDE DEF here, d
  <2> QED BY <1>3, <2>1, <2>2, LoadedFew
<1>10. BehindField(f) = IF place.rel THEN place.off + place.size ELSE 0
  BY DEF BehindField
<1>11. Depends(f, d) <=> d.kind = "label" /\ (place.rel => d.sect # place.sect)
  BY DEF Depends
<1>12. d.kind = "label" \/ ~ place.rel
  BY DEF HasMeaning
<1>13. \A v, a, h, o, z \in Int :
         /\ v - 0 + ((a - 0) + 0) = (a + v) - 0
         /\ v - (o + z) + ((a - h) + 0) = (a + v) - (h + o + z)
         /\ v - (o + z) + 0 = (h + v) - (h + o + z)
         /\ v - 0 + 0 = v - 0
  OBVIOUS
<1> HIDE DEF d, place, here
<1>14. CASE d.kind = "label" /\ ~ place.rel
  BY <1>1, <1>2, <1>6, <1>9, <1>10, <1>11, <1>13, <1>14 DEF here, place
<1>15. CASE d.kind = "label" /\ place.rel /\ d.sect # place.sect
  BY <1>1, <1>2, <1>6, <1>9, <1>10, <1>11, <1>13, <1>15 DEF here, place
<1>16. CASE d.kind = "label" /\ place.rel /\ d.sect = place.sect
  BY <1>1, <1>2, <1>6, <1>8, <1>10, <1>11, <1>13, <1>16 DEF here, place
<1>17. CASE d.kind # "label"
  BY <1>1, <1>2, <1>6, <1>8, <1>10, <1>11, <1>12, <1>13, <1>17 DEF here, place
<1> QED BY <1>1, <1>14, <1>15, <1>16, <1>17 DEF here, place

(* What the account says once everything is linked.                        *)
LEMMA FieldsFollowed ==
  LinkTyped /\ FieldsFollow => LinkedFieldsResolve
<1> SUFFICES ASSUME LinkTyped, FieldsFollow, phase = "linked", applied,
                    Cardinality(EntrySects) = 1
             PROVE  FieldsResolve
  BY DEF LinkedFieldsResolve
<1> DEFINE where == [f \in fields |-> PlaceOf(f.place)]
<1>1. /\ FieldsKnown /\ DOMAIN Resolved = fields
      /\ \A f \in fields : Resolved[f] = Meaning(f)
      /\ Accounts(content, relt, Resolved, where)
  BY LinkedAccounts
<1>2. PICK s : DOMAIN base = {s} /\ base[s] = 0 /\ Replaced = s
  BY LinkedAccounts
<1>3. \A f \in fields : FinalPlace(PlaceOf(f.place)) = PlaceOf(f.place)
  <2>1. \A f \in fields : f.place.off \in Int
    BY <1>1 DEF FieldsKnown, FieldType, RelocationEntry
  <2> QED BY <1>2, <2>1, PlacesStay DEF PlaceOf
<1>4. {FinalPlace(PlaceOf(f.place)) : f \in fields} = {PlaceOf(f.place) : f \in fields}
  BY <1>3
<1>5. DOMAIN content = {PlaceOf(f.place) : f \in fields}
  BY <1>1 DEF Accounts
<1>6. \A e \in DOMAIN relt : PlaceOf(relt[e]) \in {PlaceOf(f.place) : f \in fields}
  <2> SUFFICES ASSUME NEW e \in DOMAIN relt
               PROVE  \E f \in fields : PlaceOf(relt[e]) = PlaceOf(f.place)
    OBVIOUS
  <2>1. relt[e] \in EntriesOf(relt)
    BY DEF EntriesOf
  <2>2. PICK f \in fields : relt[e] = Entry(f.place, Resolved[f].sect)
    BY <1>1, <2>1 DEF Accounts
  <2>3. f.place \in RelocationEntry
    BY <1>1 DEF FieldsKnown, FieldType
  <2> QED BY <2>2, <2>3, EntryParts
<1>7. ASSUME NEW f \in fields, HasMeaning(f), NEW addr \in [DOMAIN sects -> {0, 4096}]
      PROVE  Loaded(PlaceOf(f.place), addr) = Wanted(f, addr)
  BY <1>1, <1>2, <1>7, ResolvedTyped, FieldLoaded
<1> QED BY <1>3, <1>4, <1>5, <1>6, <1>7 DEF FieldsResolve

(* With one entry section and every prototype defined, every field of the  *)
(* program means, wherever a loader puts the sections, what its symbol was *)
(* defined as, and no other number was changed: translation, prototype     *)
(* pass and merging each do their part of it exactly once.                 *)
THEOREM LinkedFieldsHold ==
  LinkSpec => []LinkedFieldsResolve
BY FieldsFollowed, LinkTypedAlways, FieldsFollowAlways, PTL
=============================================================================
