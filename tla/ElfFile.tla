------------------------------ MODULE ElfFile ------------------------------
(***************************************************************************)
(* Writing an ELF file (createElfFile.cpp): composeSegments gathers the    *)
(* sections into one segment for each combination of permissions, and      *)
(* gives every section a place in the file and in memory; writeElfFile     *)
(* puts headers in front and copies the sections behind them.              *)
(*                                                                         *)
(* Sections are visited in two passes for each combination: those with     *)
(* bytes of their own first.  Bytes, and the fields of the headers that    *)
(* are constant, are left out; so is the test for sections without a name, *)
(* as execoutAddSection names every one.                                   *)
(*                                                                         *)
(* UnroundedAddress, AdvanceByHeld, FirstEntryStays, StaysOpen, TwoStacks  *)
(* and BytesOfAll are slips the code could have made in the definition     *)
(* that follows each.                                                      *)
(***************************************************************************)
EXTENDS Integers, Sequences, FiniteSets, FiniteSetsExt

CONSTANT Outputs    \* the section arrays of the outputs to write

PAGESIZE == 4096
HeaderSize == 64
ProgramHeaderSize == 56
SectionHeaderSize == 64
max_ph_cnt == 10
prog_start_addr == 4194304

FillTypes == {"ZEROED", "INITIALISED", "UNINITIALISED", "ONE_ED"}
Permissions == 0 .. 7    \* RWX as bits
ElfSection == [perm : Permissions, fill : FillTypes, entry : BOOLEAN, size : Nat]

ASSUME OutputsAssumption == Outputs \subseteq Seq(ElfSection)

VARIABLES
  sections,   \* out->sects
  perm,       \* j: the permissions of the segment being composed
  pass,       \* which of the two loops over the sections is running
  visited,    \* sections that loop is done with
  segs,       \* prog_hdrs behind the first one, as far as they are used
  segUsed,    \* seg_used
  offs,       \* sect_offs
  addrs,      \* sect_addr
  memAddr,    \* mem_addr
  fileOff,    \* file_offset
  entry,      \* entrypoint
  stage       \* how the call of writeElfFile stands

elfVars == <<sections, perm, pass, visited, segs, segUsed, offs, addrs, memAddr, fileOff,
             entry, stage>>

Stages == {"composing", "written", "failed"}

(* The headers: that of the file, ten program headers, and a header for    *)
(* each section and for the table of names.                                *)
sect_place_offset ==
  HeaderSize + ProgramHeaderSize * max_ph_cnt + SectionHeaderSize * (Len(sections) + 1)

ElfInit ==
  /\ sections \in Outputs
  /\ perm = 0 /\ pass = "initialised" /\ visited = 0
  /\ segs = <<>>
  /\ segUsed = FALSE
  /\ offs = [s \in DOMAIN sections |-> 0]
  /\ addrs = [s \in DOMAIN sections |-> 0]
  /\ fileOff = sect_place_offset
  /\ memAddr = prog_start_addr + sect_place_offset
  /\ entry = 0
  /\ stage = "composing"

-----------------------------------------------------------------------------
(* Segments.                                                               *)

round_to_pages(i) == i + (PAGESIZE - 1 - ((i - 1) % PAGESIZE))

Initialised(s) == sections[s].fill = "INITIALISED"
Chosen(s) == sections[s].perm = perm

(* Sections a loop stops at, in the order of the array.                    *)
InThisPass(s) ==
  /\ s > visited /\ Chosen(s)
  /\ pass = "rest" => ~ Initialised(s) /\ sections[s].fill # "ONE_ED"
Ahead == {s \in DOMAIN sections : InThisPass(s)}
Section == Min(Ahead)
Size == sections[Section].size

Segment(offset, vaddr) ==
  [perm |-> perm, offset |-> offset, vaddr |-> vaddr, filesz |-> 0, memsz |-> 0]
Last == segs[Len(segs)]

Composing(p) == stage = "composing" /\ perm \in Permissions /\ pass = p

UnroundedAddress(i) == i
SegmentAddress(i) == round_to_pages(i)

(* The first section of its permissions, whatever it holds, opens their    *)
(* segment at a page of its own in the file and in memory.                 *)
openSegment ==
  /\ Composing("initialised") /\ Ahead # {} /\ ~ segUsed
  /\ memAddr' = SegmentAddress(memAddr)
  /\ fileOff' = round_to_pages(fileOff)
  /\ segs' = Append(segs, Segment(round_to_pages(fileOff), SegmentAddress(memAddr)))
  /\ segUsed' = TRUE
  /\ UNCHANGED <<sections, perm, pass, visited, offs, addrs, entry, stage>>

passSection ==
  /\ Composing("initialised") /\ Ahead # {} /\ segUsed
  /\ ~ Initialised(Section)
  /\ visited' = Section
  /\ UNCHANGED <<sections, perm, pass, segs, segUsed, offs, addrs, memAddr, fileOff, entry, stage>>

Placed == /\ offs' = [offs EXCEPT ![Section] = fileOff]
          /\ addrs' = [addrs EXCEPT ![Section] = memAddr]

(* The section joins the segment.  The offsets then advance by all that    *)
(* the segment holds so far.                                               *)
AdvanceByHeld(held) == held
Advance(held) == held + Size

(* A second entry section with bytes is complained about and taken.        *)
FirstEntryStays == IF sections[Section].entry /\ entry = 0 THEN memAddr ELSE entry
EntryWith == IF sections[Section].entry THEN memAddr ELSE entry

placeInitialised ==
  /\ Composing("initialised") /\ Ahead # {} /\ segUsed
  /\ Initialised(Section)
  /\ entry' = EntryWith
  /\ Placed
  /\ segs' = [segs EXCEPT ![Len(segs)].filesz = @ + Size, ![Len(segs)].memsz = @ + Size]
  /\ fileOff' = fileOff + Advance(Last.filesz)
  /\ memAddr' = memAddr + Advance(Last.memsz)
  /\ visited' = Section
  /\ UNCHANGED <<sections, perm, pass, segUsed, stage>>

SecondEntry == sections[Section].entry /\ entry # 0

(* A section without bytes takes room in memory only.                      *)
placeRest ==
  /\ Composing("rest") /\ Ahead # {} /\ ~ SecondEntry
  /\ entry' = EntryWith
  /\ Placed
  /\ segs' = [segs EXCEPT ![Len(segs)].memsz = @ + Size]
  /\ memAddr' = memAddr + Advance(Last.memsz)
  /\ visited' = Section
  /\ UNCHANGED <<sections, perm, pass, segUsed, fileOff, stage>>

refuseRest ==
  /\ Composing("rest") /\ Ahead # {} /\ SecondEntry
  /\ stage' = "failed"
  /\ UNCHANGED <<sections, perm, pass, visited, segs, segUsed, offs, addrs, memAddr, fileOff,
                 entry>>

StaysOpen == segUsed
SegmentStaysOpen == segUsed /\ pass = "initialised"

nextPass ==
  /\ \E p \in {"initialised", "rest"} : Composing(p)
  /\ Ahead = {}
  /\ visited' = 0
  /\ pass' = IF pass = "initialised" THEN "rest" ELSE "initialised"
  /\ perm' = IF pass = "initialised" THEN perm ELSE perm + 1
  /\ segUsed' = SegmentStaysOpen
  /\ UNCHANGED <<sections, segs, offs, addrs, memAddr, fileOff, entry, stage>>

-----------------------------------------------------------------------------
(* writeElfFile goes on if there is an entry point; each of its writes may *)
(* fail.                                                                   *)
finish ==
  /\ stage = "composing" /\ perm \notin Permissions
  /\ \/ entry # 0 /\ stage' = "written"
     \/ stage' = "failed"
  /\ UNCHANGED <<sections, perm, pass, visited, segs, segUsed, offs, addrs, memAddr, fileOff,
                 entry>>

(* The program headers used: one for the headers, the segments, and one    *)
(* for the stack.                                                          *)
TwoStacks == Len(segs) + 3
segs_used == Len(segs) + 2

(* Where the bytes of a section go in the buffer that is written behind    *)
(* the headers, and how long the buffer is.                                *)
CopyFrom(s) == offs[s] - sect_place_offset
BytesOfAll == MapThenSumSet(LAMBDA s : sections[s].size, {s \in DOMAIN sections : Initialised(s)})
BufferSize == fileOff - sect_place_offset

ElfNext ==
  \/ openSegment \/ passSection \/ placeInitialised \/ placeRest \/ refuseRest \/ nextPass
  \/ finish
  \/ stage # "composing" /\ UNCHANGED elfVars

ElfSpec == ElfInit /\ [][ElfNext]_elfVars

-----------------------------------------------------------------------------
(* Properties.                                                             *)

PlacedSections == {s \in DOMAIN sections : addrs[s] # 0}
Apart(start1, size1, start2, size2) ==
  size1 = 0 \/ size2 = 0 \/ start1 + size1 <= start2 \/ start2 + size2 <= start1

(* No two sections share a byte of memory or of the file, and none shares  *)
(* one with the headers in front, whatever was skipped or placed between   *)
(* them.                                                                   *)
LayoutDisjoint ==
  /\ \A s, t \in PlacedSections : s # t =>
       /\ Apart(addrs[s], sections[s].size, addrs[t], sections[t].size)
       /\ Initialised(s) /\ Initialised(t) =>
            Apart(offs[s], sections[s].size, offs[t], sections[t].size)
  /\ \A s \in PlacedSections :
       addrs[s] >= prog_start_addr + sect_place_offset /\ offs[s] >= sect_place_offset

(* A loader maps a segment page by page: "file offsets of segments should  *)
(* be congruent, modulo the page size with their virtual addresses", and   *)
(* the bytes of a section are where the mapping of its segment puts them.  *)
InSegment(s, k) == segs[k].perm = sections[s].perm
FilePlacesMatchMemory ==
  /\ \A k \in DOMAIN segs : segs[k].vaddr % PAGESIZE = segs[k].offset % PAGESIZE
  /\ \A s \in PlacedSections, k \in DOMAIN segs : Initialised(s) /\ InSegment(s, k) =>
       addrs[s] - segs[k].vaddr = offs[s] - segs[k].offset

(* Every section lies inside the segment of its permissions, and its bytes *)
(* inside what that segment maps of the file.                              *)
Covers(k, s) ==
  /\ addrs[s] >= segs[k].vaddr
  /\ addrs[s] + sections[s].size <= segs[k].vaddr + segs[k].memsz
  /\ Initialised(s) => offs[s] + sections[s].size <= segs[k].offset + segs[k].filesz
SectionsMapped ==
  \A s \in PlacedSections : \E k \in DOMAIN segs : InSegment(s, k) /\ Covers(k, s)

(* SectionsMapped for two sections of the same permissions at most.  The   *)
(* third is placed as far behind the second as the first two are long.     *)
Alike(s) == {t \in DOMAIN sections : sections[t].perm = sections[s].perm}
PairsMapped ==
  (\A s \in DOMAIN sections : Cardinality(Alike(s)) <= 2) => SectionsMapped

(* Eight combinations of permissions, the headers and the stack fill the   *)
(* table of program headers, and never more than that.                     *)
HeadersFit == segs_used <= max_ph_cnt

(* Execution begins at the merged code: execOutPrepareCode leaves it in    *)
(* the last entry section with the permissions of all, and the emptied     *)
(* entry sections, which keep their marks, are placed before it.           *)
EntryPointRight ==
  stage = "written" => entry = addrs[Max({s \in DOMAIN sections : sections[s].entry})]

(* The bytes of every section are copied inside the buffer.                *)
CopiesInside ==
  perm \notin Permissions =>
    \A s \in DOMAIN sections : Initialised(s) =>
      CopyFrom(s) >= 0 /\ CopyFrom(s) + sections[s].size <= BufferSize
=============================================================================
