------------------------------ MODULE Linking ------------------------------
(***************************************************************************)
(* The two passes behind a successful translation.  execOutApplyPreLbls    *)
(* patches what was referenced through prototypes, and execOutPrepareCode  *)
(* merges the sections that take control at the start into one             *)
(* (exec_output.cpp, relocation_table.cpp).  Both work on the output that  *)
(* ExecOutput describes; main_tree.cpp runs the second whatever the first  *)
(* returned.                                                               *)
(*                                                                         *)
(* The bytes of a section are the numbers its operand fields hold.         *)
(* MovesIfAbsolute, KeepsTarget and KeepsMark are slips the code could     *)
(* have made in the definition that follows each.                          *)
(***************************************************************************)
EXTENDS ExecOutput

VARIABLES
  phase,     \* which pass is running
  at,        \* the entry it is at
  applied,   \* what execOutApplyPreLbls returned
  content,   \* the numbers in the operand fields, by position
  base,      \* sect_reloc_offs of the entry sections, once they are merged
  newSect    \* new_sect

linkVars == <<phase, at, applied, content, base, newSect>>

Phases == {"translating", "labels", "merging", "relocating", "linked", "undefined"}

Position(sect, off) == [sect |-> sect, off |-> off]
PlaceOf(entry) == Position(entry.sect, entry.off)

(* Section number of new_sect while it has no place in sects.              *)
NewSect == NoSect
SuffixSize == 1
NothingYet == Section("_ALL_CODE_", NoAttr, FALSE)

LinkInit ==
  /\ Init
  /\ phase = "translating"
  /\ at = 0
  /\ applied = FALSE
  /\ content = <<>>
  /\ base = <<>>
  /\ newSect = NothingYet

(* relocationEntryApply adds a number to the field at a position.          *)
Patched(numbers, place, n) ==
  [p \in DOMAIN numbers \cup {place} |->
     (IF p \in DOMAIN numbers THEN numbers[p] ELSE 0) + (IF p = place THEN n ELSE 0)]

-----------------------------------------------------------------------------
(* References through prototypes.                                          *)

translate ==
  /\ status = "running"
  /\ Next
  /\ UNCHANGED linkVars

(* A near jump's field starts as minus the position behind it, any other   *)
(* field as the number its symbol stood for, and both as 0 for a prototype.*)
WrittenNumber(f) == f.data.val - (IF f.place.rel THEN f.place.off + f.place.size ELSE 0)
FieldAt(place) == CHOOSE f \in fields : PlaceOf(f.place) = place

beginLinking ==
  /\ status = "translated" /\ phase = "translating"
  /\ content' = [p \in {PlaceOf(f.place) : f \in fields} |-> WrittenNumber(FieldAt(p))]
  /\ phase' = "labels" /\ at' = 1
  /\ UNCHANGED <<applied, base, newSect, vars>>

(* What the prototype's cell of sym_pre_data is read as.  A cell behind    *)
(* the top was never written: it may look like a number or a prototype.    *)
CellReads(slot) ==
  IF preData[slot + 1] = NoData THEN {NoData, SymData("proto", 0, NoSect)}
  ELSE {preData[slot + 1]}

MovesIfAbsolute(data, entry) == data.kind = "label" /\ ~ entry.rel
MovesFrom(data, entry) == data.kind = "label" /\ (~ entry.rel \/ data.sect # entry.sect)

KeepsTarget(entry, data) == entry
Retargeted(entry, data) == [entry EXCEPT !.to = data.sect]

HoldsBytes(s) == s = NewSect \/ (Initialised(s) /\ s \notin DOMAIN base)

applyPreLbl ==
  /\ phase = "labels" /\ at <= Len(preTbl)
  /\ LET entry == preTbl[at]
         place == PlaceOf(entry)
     IN  \E data \in CellReads(entry.to) :
           /\ data.kind # "proto" /\ HoldsBytes(entry.sect)
           /\ content' = Patched(content, place, data.val)
           /\ relt' = IF MovesFrom(data, entry) THEN Append(relt, Retargeted(entry, data))
                      ELSE relt
           /\ at' = at + 1
  /\ UNCHANGED <<phase, applied, base, newSect, status, ip, blkVars, sects, symVars,
                 preTbl, fields>>

(* Not all prototypes are defined, or memadd() reports an overflow, which  *)
(* it may when it adds to a negative number (as in MayOverflow).           *)
applyFails ==
  /\ phase = "labels" /\ at <= Len(preTbl)
  /\ LET entry == preTbl[at]
         place == PlaceOf(entry)
     IN  \E data \in CellReads(entry.to) :
           \/ data.kind = "proto" /\ UNCHANGED content
           \/ /\ data.kind # "proto" /\ HoldsBytes(entry.sect)
              /\ content[place] < 0 /\ (data.val < 0 \/ content[place] + data.val >= 0)
              /\ content' = Patched(content, place, data.val)
  /\ phase' = "merging"
  /\ UNCHANGED <<at, applied, base, newSect, vars>>

(* Patching a section without bytes, and whatever else an unwritten cell   *)
(* may hold.                                                               *)
applyDerails ==
  /\ phase = "labels" /\ at <= Len(preTbl)
  /\ \/ preData[preTbl[at].to + 1] = NoData
     \/ preData[preTbl[at].to + 1].kind # "proto" /\ ~ HoldsBytes(preTbl[at].sect)
  /\ phase' = "undefined"
  /\ UNCHANGED <<at, applied, content, base, newSect, vars>>

applyEnds ==
  /\ phase = "labels" /\ at > Len(preTbl)
  /\ preTbl' = <<>>
  /\ preData' = <<preData[1]>>
  /\ applied' = TRUE
  /\ phase' = "merging"
  /\ UNCHANGED <<at, content, base, newSect, status, ip, blkVars, sects, syms, defs,
                 relt, fields>>

-----------------------------------------------------------------------------
(* Merging the entry sections, in the order they were added.               *)

EntrySects == {s \in DOMAIN sects : sects[s].attr.entry}
SizeOf(some) == MapThenSumSet(LAMBDA s : sects[s].size, some)
EntryOffset(s) == SizeOf({e \in EntrySects : e < s})

MovedByMerge(place) ==
  IF place.sect \in EntrySects THEN Position(NewSect, place.off + EntryOffset(place.sect))
  ELSE place

CopiesFromNull == \E s \in EntrySects : ~ Initialised(s) /\ sects[s].size > 0

(* The numbers in the fields after every field went from its position to   *)
(* another one.                                                            *)
Carried(numbers, to) ==
  [q \in {to[p] : p \in DOMAIN numbers} |-> numbers[CHOOSE p \in DOMAIN numbers : to[p] = q]]

mergeEntries ==
  /\ phase = "merging" /\ ~ CopiesFromNull
  /\ base' = [s \in EntrySects |-> EntryOffset(s)]
  /\ newSect' = [Section("_ALL_CODE_", BIN_SECTION_PRESET_MAIN, FALSE)
                   EXCEPT !.size = SizeOf(EntrySects) + SuffixSize]
  /\ content' = Carried(content, [p \in DOMAIN content |-> MovedByMerge(p)])
  /\ sects' = [s \in DOMAIN sects |->
                 IF s \in EntrySects THEN [sects[s] EXCEPT !.size = 0] ELSE sects[s]]
  /\ phase' = "relocating" /\ at' = Len(relt)
  /\ UNCHANGED <<applied, status, ip, blkVars, symVars, refVars>>

(* The merged code takes the place of the last entry section.              *)
Replaced == Max(DOMAIN base)

(* An entry inside an entry section moves with it.  The section's number   *)
(* is replaced before its offset is looked up, and the replaced section    *)
(* loses its mark.                                                         *)
IsMoved(entry) == sects[entry.sect].attr.entry
MovedEntry(entry) ==
  IF IsMoved(entry) THEN [entry EXCEPT !.sect = Replaced, !.off = @ + base[Replaced]] ELSE entry
KeepsMark(entry) == sects
SectsBehind(entry) ==
  IF IsMoved(entry) THEN [sects EXCEPT ![Replaced].attr.entry = FALSE] ELSE sects
ContentBehind(entry) ==
  IF IsMoved(entry) /\ entry.rel
  THEN Patched(content, Position(NewSect, MovedEntry(entry).off), -base[Replaced])
  ELSE content

(* The address of a symbol inside an entry section moves with it, too.     *)
PointsIntoMerged(entry) == SectsBehind(entry)[entry.to].attr.entry

relocateEntry ==
  /\ phase = "relocating" /\ at > 0
  /\ LET entry == relt[at]
         moved == MovedEntry(entry)
     IN  /\ sects' = SectsBehind(entry)
         /\ \/ /\ ~ PointsIntoMerged(entry)
               /\ content' = ContentBehind(entry)
               /\ relt' = [relt EXCEPT ![at] = moved]
            \/ /\ PointsIntoMerged(entry) /\ HoldsBytes(moved.sect)
               /\ content' = Patched(ContentBehind(entry), PlaceOf(moved), base[entry.to])
               /\ relt' = [relt EXCEPT ![at] = [moved EXCEPT !.to = Replaced]]
  /\ at' = at - 1
  /\ UNCHANGED <<phase, applied, base, newSect, status, ip, blkVars, symVars, preTbl, fields>>

InPlace(place) == IF place.sect = NewSect THEN Position(Replaced, place.off) ELSE place

endMerge ==
  /\ phase = "relocating" /\ at = 0 /\ DOMAIN base # {}
  /\ sects' = [sects EXCEPT ![Replaced] = newSect]
  /\ content' = Carried(content, [p \in DOMAIN content |-> InPlace(p)])
  /\ phase' = "linked"
  /\ UNCHANGED <<at, applied, base, newSect, status, ip, blkVars, symVars, refVars>>

(* Copying from a section without bytes, patching one whose bytes are      *)
(* gone, and putting the merged code in the place of no section.           *)
mergeDerails ==
  /\ \/ phase = "merging" /\ CopiesFromNull
     \/ /\ phase = "relocating" /\ at > 0
        /\ PointsIntoMerged(relt[at]) /\ ~ HoldsBytes(MovedEntry(relt[at]).sect)
     \/ phase = "relocating" /\ at = 0 /\ DOMAIN base = {}
  /\ phase' = "undefined"
  /\ UNCHANGED <<at, applied, content, base, newSect, vars>>

-----------------------------------------------------------------------------
Finished ==
  phase \in {"linked", "undefined"} \/ status \notin {"running", "translated"}

LinkNext ==
  \/ translate
  \/ beginLinking
  \/ applyPreLbl \/ applyFails \/ applyDerails \/ applyEnds
  \/ mergeEntries \/ relocateEntry \/ endMerge \/ mergeDerails
  \/ Finished /\ UNCHANGED <<linkVars, vars>>

LinkSpec == LinkInit /\ [][LinkNext]_<<linkVars, vars>>

-----------------------------------------------------------------------------
(* Entries name sections that exist, fields hold numbers, and what both    *)
(* passes keep between their steps has the type of its declaration.        *)
LinkTypeOK ==
  /\ phase \in Phases
  /\ at \in Nat
  /\ applied \in BOOLEAN
  /\ DOMAIN base \subseteq DOMAIN sects /\ \A s \in DOMAIN base : base[s] \in Nat
  /\ \A p \in DOMAIN content :
       p \in [sect : {NewSect} \cup DOMAIN sects, off : Nat] /\ content[p] \in Int
  /\ \A e \in DOMAIN relt : relt[e].sect \in DOMAIN sects /\ relt[e].to \in DOMAIN sects

(* Where the code of a section ends up, and what a field should hold once  *)
(* a loader has put every section at an address: the address or number its *)
(* symbol was defined as, for a near jump counted from behind the field.   *)
FinalPlace(place) ==
  IF place.sect \in DOMAIN base THEN Position(Replaced, place.off + base[place.sect])
  ELSE place
AddressOf(place, addr) == addr[FinalPlace(place).sect] + FinalPlace(place).off

Meaning(f) == IF f.slot = 0 THEN f.data ELSE defs[f.slot]
HasMeaning(f) == Meaning(f).kind = "label" \/ (Meaning(f).kind # "none" /\ ~ f.place.rel)
Wanted(f, addr) ==
  (IF Meaning(f).kind = "label"
   THEN AddressOf(Position(Meaning(f).sect, Meaning(f).val), addr) ELSE Meaning(f).val)
  - (IF f.place.rel THEN AddressOf(PlaceOf(f.place), addr) + f.place.size ELSE 0)

(* What it does hold: a loader adds, for each entry at its position, where *)
(* the target's section is, less where its own is if the entry is relative.*)
Loaded(place, addr) ==
  content[place] +
  MapThenSumSet(LAMBDA e : addr[relt[e].to] - (IF relt[e].rel THEN addr[relt[e].sect] ELSE 0),
                {e \in DOMAIN relt : PlaceOf(relt[e]) = place})

FieldsResolve ==
  LET places == {FinalPlace(PlaceOf(f.place)) : f \in fields}
  IN  /\ DOMAIN content = places
      /\ \A e \in DOMAIN relt : PlaceOf(relt[e]) \in places
      /\ \A f \in {g \in fields : HasMeaning(g)}, addr \in [DOMAIN sects -> {0, 4096}] :
           Loaded(FinalPlace(PlaceOf(f.place)), addr) = Wanted(f, addr)

(* With one entry section and every prototype defined, every field of the  *)
(* program means, wherever the loader puts the sections, what its symbol   *)
(* was defined as, and nothing else was patched: translation, prototype    *)
(* pass and merging each do their part of it exactly once.                 *)
LinkedFieldsResolve ==
  phase = "linked" /\ applied /\ Cardinality(EntrySects) = 1 => FieldsResolve

(* With one entry section, no number is added to bytes that were freed     *)
(* when the section was merged: the mark its first entry clears keeps the  *)
(* references inside it from being taken for references to it.             *)
FreedBytesUntouched ==
  phase = "relocating" /\ at > 0 /\ Cardinality(DOMAIN base) = 1 /\ PointsIntoMerged(relt[at])
  => MovedEntry(relt[at]).sect \notin DOMAIN base

(* LinkedFieldsResolve with any number of entry sections: they "will be    *)
(* merged before execution", and several outputs in one are to work "with  *)
(* no problems".                                                           *)
MergedFieldsResolve == phase = "linked" /\ applied => FieldsResolve
=============================================================================
