--------------------------- MODULE ElfFileProofs ---------------------------
(***************************************************************************)
(* What ElfFile guarantees for every output, of any number of sections of  *)
(* any size and kind.                                                      *)
(***************************************************************************)
EXTENDS ElfFile, BasicLemmas, FiniteSetTheorems

SegmentType ==
  [perm : Permissions, offset : Nat, vaddr : Nat, filesz : Nat, memsz : Nat]

ElfTypes ==
  /\ sections \in Seq(ElfSection)
  /\ perm \in 0 .. 8
  /\ pass \in {"initialised", "rest"}
  /\ visited \in 0 .. Len(sections)
  /\ segs \in Seq(SegmentType)
  /\ segUsed \in BOOLEAN
  /\ offs \in [DOMAIN sections -> Nat]
  /\ addrs \in [DOMAIN sections -> Nat]
  /\ memAddr \in Nat
  /\ fileOff \in Nat
  /\ entry \in Nat
  /\ stage \in Stages

(* Segments stand in the order of their permissions, at most one for each, *)
(* and the last one is the one being filled, if there is one.              *)
SegmentsOrdered ==
  /\ \A k \in DOMAIN segs : segs[k].perm <= perm
  /\ \A k, l \in DOMAIN segs : k < l => segs[k].perm < segs[l].perm
  /\ segUsed => segs # <<>> /\ Last.perm = perm
  /\ ~ segUsed => \A k \in DOMAIN segs : segs[k].perm < perm
  /\ perm = 8 => ~ segUsed /\ pass = "initialised"

(* One segment for each of the permissions done with.                      *)
SegmentsCounted == Len(segs) <= perm + (IF segUsed THEN 1 ELSE 0)

(* The second loop finds a segment opened for every section it places.     *)
SegmentOpened ==
  /\ ~ segUsed /\ pass = "initialised" => visited = 0
  /\ ~ segUsed /\ pass = "rest" => \A s \in DOMAIN sections : ~ Chosen(s)

(* As long as sections with bytes are placed, file and memory advance in   *)
(* step, from the beginning of the segment.                                *)
InStep ==
  segUsed /\ pass = "initialised" =>
    memAddr - Last.vaddr = fileOff - Last.offset /\ Last.filesz = Last.memsz

PagesAligned ==
  \A k \in DOMAIN segs : segs[k].vaddr % PAGESIZE = 0 /\ segs[k].offset % PAGESIZE = 0

(* Everything placed lies between the headers and the current offsets.     *)
BehindPlaced ==
  /\ memAddr >= prog_start_addr + sect_place_offset
  /\ fileOff >= sect_place_offset
  /\ \A s \in PlacedSections : addrs[s] + sections[s].size <= memAddr
  /\ \A s \in PlacedSections : Initialised(s) => offs[s] + sections[s].size <= fileOff

(* Sections with bytes are placed once their permissions are done with.    *)
PlacedInTurn ==
  \A s \in DOMAIN sections :
    /\ Initialised(s)
    /\ \/ sections[s].perm < perm
       \/ sections[s].perm = perm /\ (pass = "rest" \/ s <= visited)
    => s \in PlacedSections

(* A section is placed only while the segment of its permissions is open.  *)
PlacedInSegment ==
  \A s \in PlacedSections :
    sections[s].perm < perm \/ (sections[s].perm = perm /\ segUsed)

ElfInvariant ==
  /\ ElfTypes /\ SegmentsOrdered /\ SegmentsCounted /\ SegmentOpened
  /\ InStep /\ PagesAligned /\ BehindPlaced /\ PlacedInTurn /\ PlacedInSegment
  /\ LayoutDisjoint /\ FilePlacesMatchMemory

-----------------------------------------------------------------------------
(* Facts about the operators.                                              *)

(* Rounding up to pages.                                                   *)
LEMMA RoundsUp ==
  ASSUME NEW i \in Nat
  PROVE  /\ round_to_pages(i) \in Nat
         /\ round_to_pages(i) >= i
         /\ round_to_pages(i) % PAGESIZE = 0
  BY DEF round_to_pages, PAGESIZE

(* The headers take up room.                                               *)
LEMMA HeadersTakeRoom ==
  ASSUME ElfTypes
  PROVE  sect_place_offset \in Nat /\ sect_place_offset > 0
<1>1. Len(sections) \in Nat
  BY DEF ElfTypes
<1> QED BY <1>1 DEF sect_place_offset, HeaderSize, ProgramHeaderSize, SectionHeaderSize, max_ph_cnt

(* What the array holds.                                                   *)
LEMMA SectionFields ==
  ASSUME sections \in Seq(ElfSection)
  PROVE  /\ Len(sections) \in Nat /\ DOMAIN sections = 1 .. Len(sections)
         /\ \A s \in DOMAIN sections : sections[s].perm \in Permissions /\ sections[s].size \in Nat
<1>1. \A s \in DOMAIN sections : sections[s] \in ElfSection
  OBVIOUS
<1>2. \A x \in ElfSection : x.perm \in Permissions /\ x.size \in Nat
  BY DEF ElfSection
<1> QED BY <1>1, <1>2

(* The section a loop is at is the first one it has not passed.            *)
LEMMA SectionAhead ==
  ASSUME ElfTypes, Ahead # {}
  PROVE  /\ Section \in Ahead /\ Section \in 1 .. Len(sections)
         /\ Section \in DOMAIN sections /\ sections[Section] \in ElfSection
         /\ Size \in Nat /\ sections[Section].perm = perm /\ Section > visited
         /\ \A s \in DOMAIN sections : InThisPass(s) => Section <= s
<1>1. DOMAIN sections = 1 .. Len(sections) /\ Len(sections) \in Nat
  BY DEF ElfTypes
<1>2. Ahead \in SUBSET Nat
  BY <1>1 DEF Ahead
<1>3. Section \in Ahead /\ \A s \in Ahead : Section <= s
  BY <1>2, MinFacts DEF Section
<1>4. Section \in DOMAIN sections /\ InThisPass(Section)
  BY <1>3 DEF Ahead
<1>5. sections[Section] \in ElfSection
  BY <1>4, sections \in Seq(ElfSection) DEF ElfTypes
<1>6. Size \in Nat
  BY <1>5 DEF Size, ElfSection
<1> QED BY <1>1, <1>3, <1>4, <1>5, <1>6 DEF InThisPass, Chosen, Ahead

(* What the headers hold.                                                  *)
LEMMA SegmentFields ==
  ASSUME ElfTypes
  PROVE  /\ Len(segs) \in Nat
         /\ \A k \in DOMAIN segs :
              /\ segs[k].perm \in 0 .. 7 /\ segs[k].vaddr \in Nat /\ segs[k].offset \in Nat
              /\ segs[k].filesz \in Nat /\ segs[k].memsz \in Nat
<1>1. \A k \in DOMAIN segs : segs[k] \in SegmentType
  BY segs \in Seq(SegmentType) DEF ElfTypes
<1>2. \A x \in SegmentType : /\ x.perm \in 0 .. 7 /\ x.vaddr \in Nat /\ x.offset \in Nat
                             /\ x.filesz \in Nat /\ x.memsz \in Nat
  BY DEF SegmentType, Permissions
<1> QED BY <1>1, <1>2 DEF ElfTypes

(* The segment being filled.                                               *)
LEMMA LastSegment ==
  ASSUME ElfTypes, SegmentsOrdered, segUsed
  PROVE  /\ Len(segs) \in DOMAIN segs /\ Last \in SegmentType /\ Last.perm = perm
         /\ \A k \in DOMAIN segs : segs[k].perm = perm => k = Len(segs)
<1>1. Len(segs) \in Nat /\ DOMAIN segs = 1 .. Len(segs) /\ segs # <<>>
  BY DEF ElfTypes, SegmentsOrdered
<1>2. Len(segs) \in DOMAIN segs
  BY <1>1, segs \in Seq(SegmentType) DEF ElfTypes
<1>3. Last \in SegmentType /\ Last.perm = perm
  BY <1>2 DEF ElfTypes, SegmentsOrdered, Last
<1>4. ASSUME NEW k \in DOMAIN segs, segs[k].perm = perm PROVE k = Len(segs)
  <2>1. k < Len(segs) => segs[k].perm < segs[Len(segs)].perm
    BY <1>2, <1>4 DEF SegmentsOrdered
  <2> QED BY <1>1, <1>3, <1>4, <2>1 DEF Last, SegmentType, Permissions
<1> QED BY <1>2, <1>3, <1>4
-----------------------------------------------------------------------------
(* How the actions change what they write.                                 *)

(* Adding to the sizes of a header.                                        *)
LongerBy(seg, n, m) ==
  [perm |-> seg.perm, offset |-> seg.offset, vaddr |-> seg.vaddr,
   filesz |-> seg.filesz + n, memsz |-> seg.memsz + m]

LEMMA Lengthened ==
  ASSUME NEW seg \in SegmentType, NEW n \in Nat, NEW m \in Nat
  PROVE  LongerBy(seg, n, m) \in SegmentType
<1>1. /\ seg.perm \in Permissions /\ seg.offset \in Nat /\ seg.vaddr \in Nat
      /\ seg.filesz \in Nat /\ seg.memsz \in Nat
  BY DEF SegmentType
<1>2. seg.filesz + n \in Nat /\ seg.memsz + m \in Nat
  BY <1>1
<1> QED BY <1>1, <1>2 DEF SegmentType, LongerBy

(* Placing a section makes the last segment longer and leaves the rest of  *)
(* the segments' headers alone.                                            *)
LEMMA PlacingLengthens ==
  ASSUME ElfInvariant, placeInitialised \/ placeRest
  PROVE  /\ segUsed /\ Ahead # {} /\ visited' = Section
         /\ UNCHANGED <<sections, perm, pass, segUsed, stage>>
         /\ segs' \in Seq(SegmentType) /\ DOMAIN segs' = DOMAIN segs /\ Len(segs') = Len(segs)
         /\ \A k \in DOMAIN segs :
              /\ segs'[k].perm = segs[k].perm /\ segs'[k].vaddr = segs[k].vaddr
              /\ segs'[k].offset = segs[k].offset
              /\ segs'[k].memsz >= segs[k].memsz /\ segs'[k].filesz >= segs[k].filesz
         /\ segs'[Len(segs)].memsz = Last.memsz + Size
         /\ placeInitialised => segs'[Len(segs)].filesz = Last.filesz + Size
<1>1. segUsed
  <2>1. CASE placeInitialised
    BY <2>1 DEF placeInitialised
  <2>2. CASE placeRest
    <3>1. Ahead # {} /\ pass = "rest"
      BY <2>2 DEF placeRest, Composing
    <3>2. Chosen(Section) /\ Section \in DOMAIN sections
      BY <3>1, SectionAhead DEF ElfInvariant, Chosen
    <3> QED BY <3>1, <3>2 DEF ElfInvariant, ElfTypes, SegmentOpened
  <2> QED BY <2>1, <2>2
<1>2. Ahead # {} /\ UNCHANGED <<sections, perm, pass, segUsed, stage>> /\ visited' = Section
  BY DEF placeInitialised, placeRest
<1>3. Size \in Nat
  BY <1>2, SectionAhead DEF ElfInvariant
<1>4. Len(segs) \in DOMAIN segs /\ Last \in SegmentType /\ segs \in Seq(SegmentType)
  BY <1>1, LastSegment DEF ElfInvariant, ElfTypes
<1>5. \E n \in Nat : /\ segs' = [segs EXCEPT ![Len(segs)] = LongerBy(Last, n, Size)]
                     /\ placeInitialised => n = Size
  <2>1. CASE placeInitialised
    <3>1. segs' = [segs EXCEPT ![Len(segs)].filesz = @ + Size, ![Len(segs)].memsz = @ + Size]
      BY <2>1 DEF placeInitialised
    <3>2. segs' = [segs EXCEPT ![Len(segs)] =
                     [Last EXCEPT !.filesz = @ + Size, !.memsz = @ + Size]]
      BY <1>4, <3>1 DEF Last
    <3>3. PICK longer : /\ segs' = [segs EXCEPT ![Len(segs)] = longer]
                        /\ longer = [Last EXCEPT !.filesz = @ + Size, !.memsz = @ + Size]
      BY <3>2
    <3>4. longer = LongerBy(Last, Size, Size)
      BY <1>3, <1>4, <3>3 DEF SegmentType, LongerBy
    <3> QED BY <1>3, <3>3, <3>4
  <2>2. CASE ~ placeInitialised
    <3>1. segs' = [segs EXCEPT ![Len(segs)].memsz = @ + Size]
      BY <2>2 DEF placeRest
    <3>2. segs' = [segs EXCEPT ![Len(segs)] = [Last EXCEPT !.memsz = @ + Size]]
      BY <3>1 DEF Last
    <3>3. PICK longer : /\ segs' = [segs EXCEPT ![Len(segs)] = longer]
                        /\ longer = [Last EXCEPT !.memsz = @ + Size]
      BY <3>2
    <3>4. Last.filesz + 0 = Last.filesz
      BY <1>4 DEF SegmentType
    <3>5. longer = [perm |-> Last.perm, offset |-> Last.offset, vaddr |-> Last.vaddr,
                    filesz |-> Last.filesz, memsz |-> Last.memsz + Size]
      BY <1>3, <1>4, <3>3 DEF SegmentType
    <3>6. longer = LongerBy(Last, 0, Size)
      BY <3>4, <3>5 DEF LongerBy
    <3> QED BY <2>2, <3>3, <3>6
  <2> QED BY <2>1, <2>2
<1>6. PICK n \in Nat : /\ segs' = [segs EXCEPT ![Len(segs)] = LongerBy(Last, n, Size)]
                       /\ placeInitialised => n = Size
  BY <1>5
<1> DEFINE longer == LongerBy(Last, n, Size)
<1>7. /\ longer \in SegmentType /\ longer.perm = Last.perm /\ longer.vaddr = Last.vaddr
      /\ longer.offset = Last.offset /\ longer.memsz = Last.memsz + Size
      /\ longer.memsz >= Last.memsz /\ longer.filesz >= Last.filesz
      /\ placeInitialised => longer.filesz = Last.filesz + Size
  <2>1. longer \in SegmentType
    BY <1>3, <1>4, Lengthened
  <2>2. Last.memsz \in Nat /\ Last.filesz \in Nat
    BY <1>4 DEF SegmentType
  <2> QED BY <1>3, <1>6, <2>1, <2>2 DEF LongerBy
<1> HIDE DEF longer
<1>8. /\ segs' \in Seq(SegmentType) /\ DOMAIN segs' = DOMAIN segs /\ Len(segs') = Len(segs)
      /\ \A k \in DOMAIN segs : segs'[k] = IF k = Len(segs) THEN longer ELSE segs[k]
  <2>1. segs' = [segs EXCEPT ![Len(segs)] = longer]
    BY <1>6 DEF longer
  <2>2. \A k \in DOMAIN segs : segs'[k] = IF k = Len(segs) THEN longer ELSE segs[k]
    BY <2>1
  <2> QED BY <1>4, <1>7, <2>1, <2>2
<1>9. \A k \in DOMAIN segs :
        segs'[k].memsz >= segs[k].memsz /\ segs'[k].filesz >= segs[k].filesz
  <2>1. \A k \in DOMAIN segs : segs[k].memsz \in Nat /\ segs[k].filesz \in Nat
    BY SegmentFields DEF ElfInvariant
  <2> QED BY <1>7, <1>8, <2>1 DEF Last
<1> QED BY <1>1, <1>2, <1>4, <1>7, <1>8, <1>9 DEF Last

(* Opening one puts it behind the others, on a page of its own.            *)
LEMMA OpeningAppends ==
  ASSUME ElfInvariant, openSegment
  PROVE  /\ ~ segUsed /\ segUsed' /\ pass = "initialised" /\ perm \in Permissions /\ Ahead # {}
         /\ memAddr' = round_to_pages(memAddr) /\ fileOff' = round_to_pages(fileOff)
         /\ segs' = Append(segs, Segment(fileOff', memAddr'))
         /\ Segment(fileOff', memAddr') \in SegmentType
         /\ UNCHANGED <<sections, perm, pass, visited, offs, addrs, entry, stage>>
<1>1. memAddr' \in Nat /\ fileOff' \in Nat
  BY RoundsUp DEF ElfInvariant, ElfTypes, openSegment, SegmentAddress
<1> QED BY <1>1 DEF openSegment, Composing, SegmentAddress, Segment, SegmentType

-----------------------------------------------------------------------------
(* The invariant holds at the beginning.                                   *)
LEMMA InvariantInit == ElfInit => ElfInvariant
<1> SUFFICES ASSUME ElfInit PROVE ElfInvariant
  OBVIOUS
<1>1. sections \in Seq(ElfSection)
  BY OutputsAssumption DEF ElfInit
<1>2. /\ Len(sections) \in Nat /\ DOMAIN sections = 1 .. Len(sections)
      /\ \A s \in DOMAIN sections : sections[s].perm \in Permissions /\ s > 0
  BY <1>1, SectionFields
<1>3. sect_place_offset \in Nat
  BY <1>2 DEF sect_place_offset, HeaderSize, ProgramHeaderSize, SectionHeaderSize, max_ph_cnt
<1>4. prog_start_addr \in Nat
  BY SMT DEF prog_start_addr
<1>5. ElfTypes
  <2>1. segs \in Seq(SegmentType)
    BY DEF ElfInit
  <2>2. /\ visited \in 0 .. Len(sections) /\ perm \in 0 .. 8 /\ entry \in Nat
        /\ memAddr \in Nat /\ fileOff \in Nat
    BY <1>2, <1>3, <1>4 DEF ElfInit
  <2>3. offs \in [DOMAIN sections -> Nat] /\ addrs \in [DOMAIN sections -> Nat]
    BY DEF ElfInit
  <2> QED BY <1>1, <2>1, <2>2, <2>3 DEF ElfInit, ElfTypes, Stages
<1>6. PlacedSections = {}
  BY DEF ElfInit, PlacedSections
<1>7. SegmentsOrdered /\ SegmentsCounted /\ SegmentOpened /\ InStep /\ PagesAligned
  BY DEF ElfInit, SegmentsOrdered, SegmentsCounted, SegmentOpened, InStep, PagesAligned
<1>8. BehindPlaced /\ PlacedInSegment
  BY <1>3, <1>4, <1>6 DEF ElfInit, BehindPlaced, PlacedInSegment
<1>9. PlacedInTurn
  BY <1>2 DEF ElfInit, PlacedInTurn, Permissions
<1>10. LayoutDisjoint /\ FilePlacesMatchMemory
  BY <1>6 DEF ElfInit, LayoutDisjoint, FilePlacesMatchMemory
<1> QED BY <1>5, <1>7, <1>8, <1>9, <1>10 DEF ElfInvariant

-----------------------------------------------------------------------------
(* The invariant is kept by each kind of step.                             *)

(* Refusing a section, ending and stuttering touch nothing but the stage.  *)
LEMMA StageKeeps ==
  ASSUME ElfInvariant, stage' \in Stages,
         UNCHANGED <<sections, perm, pass, visited, segs, segUsed, offs, addrs, memAddr,
                     fileOff, entry>>
  PROVE  ElfInvariant'
<1>1. ElfTypes'
  BY DEF ElfInvariant, ElfTypes
<1>2. /\ SegmentsOrdered' /\ SegmentsCounted' /\ InStep' /\ PagesAligned'
  BY DEF ElfInvariant, SegmentsOrdered, SegmentsCounted, InStep, PagesAligned, Last
<1>3. SegmentOpened'
  BY DEF ElfInvariant, SegmentOpened, Chosen
<1>4. PlacedSections' = PlacedSections /\ sect_place_offset' = sect_place_offset
      /\ \A s : Initialised(s)' = Initialised(s)
  BY DEF PlacedSections, sect_place_offset, Initialised
<1>5. BehindPlaced'
  BY <1>4 DEF ElfInvariant, BehindPlaced, prog_start_addr
<1>6. PlacedInTurn' /\ PlacedInSegment'
  BY <1>4 DEF ElfInvariant, PlacedInTurn, PlacedInSegment
<1>7. LayoutDisjoint'
  BY <1>4 DEF ElfInvariant, LayoutDisjoint, prog_start_addr
<1>8. FilePlacesMatchMemory'
  BY <1>4 DEF ElfInvariant, FilePlacesMatchMemory, InSegment
<1> QED BY <1>1, <1>2, <1>3, <1>5, <1>6, <1>7, <1>8 DEF ElfInvariant

(* Passing a section that the second loop will place.                      *)
LEMMA PassingKeeps ==
  ASSUME ElfInvariant, passSection
  PROVE  ElfInvariant'
<1>1. /\ segUsed /\ pass = "initialised" /\ Ahead # {} /\ ~ Initialised(Section)
      /\ visited' = Section
      /\ UNCHANGED <<sections, perm, pass, segs, segUsed, offs, addrs, memAddr, fileOff, entry,
                     stage>>
  BY DEF passSection, Composing
<1>2. /\ Section \in 1 .. Len(sections) /\ Section > visited /\ Section \in DOMAIN sections
      /\ \A s \in DOMAIN sections : InThisPass(s) => Section <= s
  BY <1>1, SectionAhead DEF ElfInvariant
<1>3. DOMAIN sections = 1 .. Len(sections) /\ Len(sections) \in Nat /\ visited \in Nat
  BY SectionFields DEF ElfInvariant, ElfTypes
<1>4. ElfTypes'
  BY <1>1, <1>2, <1>3 DEF ElfInvariant, ElfTypes
<1>5. SegmentsOrdered' /\ SegmentsCounted' /\ InStep' /\ PagesAligned'
  BY <1>1 DEF ElfInvariant, SegmentsOrdered, SegmentsCounted, InStep, PagesAligned, Last
<1>6. SegmentOpened'
  BY <1>1 DEF SegmentOpened
<1>7. PlacedSections' = PlacedSections /\ sect_place_offset' = sect_place_offset
      /\ \A s : Initialised(s)' = Initialised(s)
  BY <1>1 DEF PlacedSections, sect_place_offset, Initialised
<1>8. BehindPlaced' /\ PlacedInSegment'
  BY <1>1, <1>7 DEF ElfInvariant, BehindPlaced, PlacedInSegment, prog_start_addr
<1>9. PlacedInTurn'
  <2> SUFFICES ASSUME NEW s \in DOMAIN sections, Initialised(s),
                      \/ sections[s].perm < perm
                      \/ sections[s].perm = perm /\ s <= Section
               PROVE  s \in PlacedSections
    BY <1>1, <1>7 DEF PlacedInTurn
  <2>1. ASSUME sections[s].perm = perm, s <= Section PROVE s <= visited
    <3>1. s # Section
      BY <1>1
    <3>2. ~ InThisPass(s)
      BY <1>2, <1>3, <2>1, <3>1
    <3> QED BY <1>1, <1>3, <2>1, <3>2 DEF InThisPass, Chosen
  <2> QED BY <2>1 DEF ElfInvariant, PlacedInTurn
<1>10. LayoutDisjoint'
  BY <1>1, <1>7 DEF ElfInvariant, LayoutDisjoint, prog_start_addr
<1>11. FilePlacesMatchMemory'
  BY <1>1, <1>7 DEF ElfInvariant, FilePlacesMatchMemory, InSegment
<1> QED BY <1>4, <1>5, <1>6, <1>8, <1>9, <1>10, <1>11 DEF ElfInvariant

(* The next of the sixteen loops.                                          *)
LEMMA NextPassKeeps ==
  ASSUME ElfInvariant, nextPass
  PROVE  ElfInvariant'
<1>1. /\ Ahead = {} /\ visited' = 0 /\ perm \in Permissions
      /\ UNCHANGED <<sections, segs, offs, addrs, memAddr, fileOff, entry, stage>>
  BY DEF nextPass, Composing
<1>2. \/ pass = "initialised" /\ pass' = "rest" /\ perm' = perm /\ segUsed' = segUsed
      \/ pass = "rest" /\ pass' = "initialised" /\ perm' = perm + 1 /\ segUsed' = FALSE
  BY DEF nextPass, SegmentStaysOpen, ElfInvariant, ElfTypes
<1>3. /\ DOMAIN sections = 1 .. Len(sections) /\ Len(sections) \in Nat /\ visited \in Nat
      /\ \A s \in DOMAIN sections : s \in Nat \ {0} /\ sections[s].perm \in Permissions
  BY SectionFields DEF ElfInvariant, ElfTypes
<1>4. perm \in 0 .. 7
  BY <1>1 DEF Permissions
<1>5. perm' \in 0 .. 8 /\ pass' \in {"initialised", "rest"} /\ segUsed' \in BOOLEAN
  <2>1. perm' \in 0 .. 8
    BY <1>2, <1>4
  <2>2. segUsed \in BOOLEAN
    BY DEF ElfInvariant, ElfTypes
  <2> QED BY <1>2, <2>1, <2>2
<1>6. ElfTypes'
  BY <1>1, <1>3, <1>5 DEF ElfInvariant, ElfTypes
<1>7. Len(segs) \in Nat /\ \A k \in DOMAIN segs : segs[k].perm \in 0 .. 7
  BY SegmentFields DEF ElfInvariant
<1>8. SegmentsOrdered'
  BY <1>1, <1>2, <1>4, <1>7 DEF ElfInvariant, SegmentsOrdered, Last
<1>9. SegmentsCounted'
  BY <1>1, <1>2, <1>4, <1>7 DEF ElfInvariant, SegmentsCounted
<1>10. SegmentOpened'
  <2>1. ASSUME pass = "initialised", ~ segUsed, NEW s \in DOMAIN sections
        PROVE  ~ Chosen(s)
    <3>1. visited = 0
      BY <2>1 DEF ElfInvariant, SegmentOpened
    <3>2. ~ InThisPass(s)
      BY <1>1 DEF Ahead
    <3> QED BY <1>3, <2>1, <3>1, <3>2 DEF InThisPass
  <2> QED BY <1>1, <1>2, <2>1 DEF SegmentOpened, Chosen
<1>11. InStep' /\ PagesAligned'
  BY <1>1, <1>2 DEF ElfInvariant, InStep, PagesAligned
<1>12. PlacedSections' = PlacedSections /\ sect_place_offset' = sect_place_offset
       /\ \A s : Initialised(s)' = Initialised(s)
  BY <1>1 DEF PlacedSections, sect_place_offset, Initialised
<1>13. BehindPlaced'
  BY <1>1, <1>12 DEF ElfInvariant, BehindPlaced, prog_start_addr
<1>14. PlacedInSegment'
  <2>1. \A s \in PlacedSections : sections[s].perm \in 0 .. 7
    BY <1>3 DEF PlacedSections, Permissions
  <2> QED BY <1>1, <1>2, <1>4, <1>12, <2>1 DEF ElfInvariant, PlacedInSegment
<1>15. PlacedInTurn'
  <2> SUFFICES ASSUME NEW s \in DOMAIN sections, Initialised(s),
                      \/ sections[s].perm < perm'
                      \/ sections[s].perm = perm' /\ (pass' = "rest" \/ s <= 0)
               PROVE  s \in PlacedSections
    BY <1>1, <1>12 DEF PlacedInTurn
  <2>1. sections[s].perm \in 0 .. 7 /\ s \in Nat /\ s > 0
    BY <1>3 DEF Permissions
  <2>2. sections[s].perm < perm \/ sections[s].perm = perm
    BY <1>2, <1>4, <2>1
  <2>3. pass = "initialised" /\ sections[s].perm = perm => s <= visited
    <3>1. ~ InThisPass(s)
      BY <1>1 DEF Ahead
    <3> QED BY <1>3, <2>1, <3>1 DEF InThisPass, Chosen
  <2> QED BY <1>2, <2>2, <2>3 DEF ElfInvariant, PlacedInTurn
<1>16. LayoutDisjoint'
  BY <1>1, <1>12 DEF ElfInvariant, LayoutDisjoint, prog_start_addr
<1>17. FilePlacesMatchMemory'
  BY <1>1, <1>12 DEF ElfInvariant, FilePlacesMatchMemory, InSegment
<1> QED BY <1>6, <1>8, <1>9, <1>10, <1>11, <1>13, <1>14, <1>15, <1>16, <1>17 DEF ElfInvariant

(* A new segment.                                                          *)
LEMMA OpeningKeeps ==
  ASSUME ElfInvariant, openSegment
  PROVE  ElfInvariant'
<1> DEFINE opened == Segment(fileOff', memAddr')
<1>1. /\ ~ segUsed /\ segUsed' /\ pass = "initialised" /\ perm \in 0 .. 7 /\ Ahead # {}
      /\ UNCHANGED <<sections, perm, pass, visited, offs, addrs, entry, stage>>
  BY OpeningAppends DEF Permissions
<1>2. memAddr' = round_to_pages(memAddr) /\ fileOff' = round_to_pages(fileOff)
  BY OpeningAppends
<1>3. /\ memAddr' \in Nat /\ fileOff' \in Nat /\ memAddr' >= memAddr /\ fileOff' >= fileOff
      /\ memAddr' % PAGESIZE = 0 /\ fileOff' % PAGESIZE = 0
      /\ memAddr \in Nat /\ fileOff \in Nat
  BY <1>2, RoundsUp DEF ElfInvariant, ElfTypes
<1>4. /\ opened \in SegmentType /\ opened.perm = perm /\ opened.vaddr = memAddr'
      /\ opened.offset = fileOff' /\ opened.filesz = 0 /\ opened.memsz = 0
  BY OpeningAppends DEF Segment
<1>5. segs' = Append(segs, opened) /\ segs \in Seq(SegmentType)
  BY OpeningAppends DEF ElfInvariant, ElfTypes
<1> HIDE DEF opened
<1>6. /\ segs' \in Seq(SegmentType) /\ Len(segs') = Len(segs) + 1 /\ Len(segs) \in Nat
      /\ DOMAIN segs = 1 .. Len(segs) /\ DOMAIN segs' = 1 .. Len(segs) + 1
      /\ \A k \in DOMAIN segs : segs'[k] = segs[k]
      /\ segs'[Len(segs) + 1] = opened /\ segs' # <<>>
  BY <1>4, <1>5
<1>7. ElfTypes'
  BY <1>1, <1>3, <1>6 DEF ElfInvariant, ElfTypes
<1>8. SegmentsOrdered'
  <2>1. \A k \in DOMAIN segs : segs'[k].perm < perm
    BY <1>1, <1>6 DEF ElfInvariant, SegmentsOrdered
  <2>2. \A k \in DOMAIN segs' : segs'[k].perm <= perm
    <3>1. \A k \in DOMAIN segs : segs'[k].perm \in 0 .. 7
      BY <1>6, SegmentFields DEF ElfInvariant
    <3>2. \A k \in DOMAIN segs' : k \in DOMAIN segs \/ k = Len(segs) + 1
      BY <1>6
    <3> QED BY <1>1, <1>4, <1>6, <2>1, <3>1, <3>2
  <2>3. ASSUME NEW k \in DOMAIN segs', NEW l \in DOMAIN segs', k < l
        PROVE  segs'[k].perm < segs'[l].perm
    <3>1. k \in DOMAIN segs
      BY <1>6, <2>3
    <3>2. CASE l \in DOMAIN segs
      BY <1>6, <2>3, <3>1, <3>2 DEF ElfInvariant, SegmentsOrdered
    <3>3. CASE l = Len(segs) + 1
      BY <1>4, <1>6, <2>1, <3>1, <3>3
    <3> QED BY <1>6, <3>2, <3>3
  <2>4. Last'.perm = perm
    BY <1>4, <1>6 DEF Last
  <2> QED BY <1>1, <1>6, <2>2, <2>3, <2>4 DEF SegmentsOrdered
<1>9. SegmentsCounted'
  BY <1>1, <1>6 DEF ElfInvariant, SegmentsCounted
<1>10. SegmentOpened'
  BY <1>1 DEF SegmentOpened
<1>11. InStep'
  BY <1>3, <1>4, <1>6 DEF InStep, Last
<1>12. PagesAligned'
  BY <1>3, <1>4, <1>6 DEF ElfInvariant, PagesAligned
<1>13. /\ PlacedSections' = PlacedSections /\ sect_place_offset' = sect_place_offset
       /\ PlacedSections \subseteq DOMAIN sections
       /\ \A s : Initialised(s)' = Initialised(s)
  BY <1>1 DEF PlacedSections, sect_place_offset, Initialised
<1>14. BehindPlaced'
  <2>1. sect_place_offset \in Nat
    BY HeadersTakeRoom DEF ElfInvariant
  <2>2. prog_start_addr \in Nat
    BY SMT DEF prog_start_addr
  <2>3. \A s \in PlacedSections :
          addrs[s] \in Nat /\ offs[s] \in Nat /\ sections[s].size \in Nat
    BY <1>13, SectionFields DEF ElfInvariant, ElfTypes
  <2> QED BY <1>1, <1>3, <1>13, <2>1, <2>2, <2>3 DEF ElfInvariant, BehindPlaced
<1>15. PlacedInTurn' /\ PlacedInSegment'
  BY <1>1, <1>13 DEF ElfInvariant, PlacedInTurn, PlacedInSegment
<1>16. LayoutDisjoint'
  BY <1>1, <1>13 DEF ElfInvariant, LayoutDisjoint
<1>17. FilePlacesMatchMemory'
  <2>1. \A k \in DOMAIN segs' : segs'[k].vaddr % PAGESIZE = segs'[k].offset % PAGESIZE
    BY <1>12 DEF PagesAligned
  <2>2. ASSUME NEW s \in PlacedSections, NEW k \in DOMAIN segs', Initialised(s),
               segs'[k].perm = sections[s].perm
        PROVE  addrs[s] - segs'[k].vaddr = offs[s] - segs'[k].offset
    <3>1. sections[s].perm < perm
      BY <1>1 DEF ElfInvariant, PlacedInSegment
    <3>2. k \in DOMAIN segs
      BY <1>1, <1>4, <1>6, <2>2, <3>1
    <3> QED BY <1>6, <2>2, <3>2 DEF ElfInvariant, FilePlacesMatchMemory, InSegment
  <2> QED BY <1>1, <1>13, <2>1, <2>2 DEF FilePlacesMatchMemory, InSegment
<1> QED BY <1>7, <1>8, <1>9, <1>10, <1>11, <1>12, <1>14, <1>15, <1>16, <1>17 DEF ElfInvariant

(* A section that gets its place.                                          *)
LEMMA PlacingKeeps ==
  ASSUME ElfInvariant, placeInitialised \/ placeRest
  PROVE  ElfInvariant'
<1>1. /\ segUsed /\ Ahead # {} /\ visited' = Section
      /\ UNCHANGED <<sections, perm, pass, segUsed, stage>>
      /\ segs' \in Seq(SegmentType) /\ DOMAIN segs' = DOMAIN segs /\ Len(segs') = Len(segs)
      /\ \A k \in DOMAIN segs :
           /\ segs'[k].perm = segs[k].perm /\ segs'[k].vaddr = segs[k].vaddr
           /\ segs'[k].offset = segs[k].offset
      /\ segs'[Len(segs)].memsz = Last.memsz + Size
      /\ placeInitialised => segs'[Len(segs)].filesz = Last.filesz + Size
  BY PlacingLengthens
<1>2. /\ Section \in 1 .. Len(sections) /\ Section > visited /\ Section \in DOMAIN sections
      /\ Size \in Nat /\ Size = sections[Section].size /\ sections[Section].perm = perm
      /\ \A s \in DOMAIN sections : InThisPass(s) => Section <= s
  BY <1>1, SectionAhead DEF ElfInvariant, Size
<1>3. /\ DOMAIN sections = 1 .. Len(sections) /\ Len(sections) \in Nat /\ visited \in Nat
      /\ \A s \in DOMAIN sections : sections[s].size \in Nat
  BY SectionFields DEF ElfInvariant, ElfTypes
<1>4. /\ Len(segs) \in DOMAIN segs /\ Last.perm = perm /\ segs # <<>> /\ Last = segs[Len(segs)]
      /\ Last.vaddr \in Nat /\ Last.offset \in Nat /\ Last.filesz \in Nat /\ Last.memsz \in Nat
      /\ \A k \in DOMAIN segs : segs[k].perm = perm => k = Len(segs)
  BY <1>1, LastSegment DEF ElfInvariant, SegmentType, SegmentsOrdered, Last
<1>5. /\ memAddr \in Nat /\ fileOff \in Nat /\ entry \in Nat
      /\ offs \in [DOMAIN sections -> Nat] /\ addrs \in [DOMAIN sections -> Nat]
  BY DEF ElfInvariant, ElfTypes
<1>6. /\ offs' = [offs EXCEPT ![Section] = fileOff]
      /\ addrs' = [addrs EXCEPT ![Section] = memAddr]
      /\ memAddr' = memAddr + Advance(Last.memsz)
      /\ entry' = EntryWith
  BY DEF placeInitialised, placeRest, Placed
<1>7. \/ /\ placeInitialised /\ pass = "initialised" /\ Initialised(Section)
         /\ fileOff' = fileOff + Advance(Last.filesz)
      \/ /\ ~ placeInitialised /\ pass = "rest" /\ ~ Initialised(Section) /\ fileOff' = fileOff
  <2>1. CASE placeInitialised
    BY <2>1 DEF placeInitialised, Composing
  <2>2. CASE ~ placeInitialised
    <3>1. placeRest /\ pass = "rest" /\ fileOff' = fileOff
      BY <2>2 DEF placeRest, Composing
    <3>2. Section \in Ahead
      BY <1>1, SectionAhead DEF ElfInvariant
    <3> QED BY <2>2, <3>1, <3>2 DEF Ahead, InThisPass
  <2> QED BY <2>1, <2>2
<1> DEFINE moreMem == Advance(Last.memsz)
           moreFile == Advance(Last.filesz)
<1>8. /\ moreMem \in Nat /\ moreMem >= Size /\ moreMem = Last.memsz + Size
      /\ moreFile \in Nat /\ moreFile >= Size /\ moreFile = Last.filesz + Size
  <2>1. \A a, b \in Nat : a + b \in Nat /\ a + b >= b
    OBVIOUS
  <2> QED BY <1>2, <1>4, <2>1 DEF Advance
<1>9. /\ memAddr' \in Nat /\ memAddr' >= memAddr + Size /\ memAddr' >= memAddr
      /\ fileOff' \in Nat /\ fileOff' >= fileOff
      /\ Initialised(Section) => fileOff' >= fileOff + Size
  <2>1. \A a, b, c \in Nat : b >= c => a + b \in Nat /\ a + b >= a + c /\ a + b >= a
    OBVIOUS
  <2>2. memAddr' = memAddr + moreMem
    BY <1>6
  <2> HIDE DEF moreMem, moreFile
  <2>3. memAddr' \in Nat /\ memAddr' >= memAddr + Size /\ memAddr' >= memAddr
    BY <1>2, <1>5, <1>8, <2>1, <2>2
  <2>4. CASE placeInitialised
    <3>1. fileOff' = fileOff + moreFile
      BY <1>7, <2>4 DEF moreFile
    <3> QED BY <1>2, <1>5, <1>8, <2>1, <2>3, <3>1
  <2>5. CASE ~ placeInitialised
    BY <1>5, <1>7, <2>3, <2>5
  <2> QED BY <2>4, <2>5
<1>10. /\ offs' \in [DOMAIN sections -> Nat] /\ addrs' \in [DOMAIN sections -> Nat]
       /\ \A s \in DOMAIN sections : /\ addrs'[s] = IF s = Section THEN memAddr ELSE addrs[s]
                                     /\ offs'[s] = IF s = Section THEN fileOff ELSE offs[s]
  BY <1>2, <1>5, <1>6
<1>11. ElfTypes'
  <2>1. entry' \in Nat
    BY <1>5, <1>6 DEF EntryWith
  <2>2. visited' \in 0 .. Len(sections)
    BY <1>1, <1>2, <1>3
  <2> QED BY <1>1, <1>9, <1>10, <2>1, <2>2 DEF ElfInvariant, ElfTypes
<1>12. SegmentsOrdered'
  <2>1. segs' # <<>> /\ Last'.perm = perm
    BY <1>1, <1>4 DEF Last
  <2> QED BY <1>1, <2>1 DEF ElfInvariant, SegmentsOrdered
<1>13. SegmentsCounted' /\ SegmentOpened' /\ PagesAligned'
  BY <1>1 DEF ElfInvariant, SegmentsCounted, SegmentOpened, PagesAligned
<1>14. InStep'
  <2> SUFFICES ASSUME pass = "initialised"
               PROVE  /\ memAddr' - Last'.vaddr = fileOff' - Last'.offset
                      /\ Last'.filesz = Last'.memsz
    BY <1>1 DEF InStep
  <2>1. memAddr - Last.vaddr = fileOff - Last.offset /\ Last.filesz = Last.memsz
    BY <1>1 DEF ElfInvariant, InStep
  <2>2. /\ Last'.vaddr = Last.vaddr /\ Last'.offset = Last.offset
        /\ Last'.memsz = Last.memsz + Size /\ Last'.filesz = Last.filesz + Size
    BY <1>1, <1>4, <1>7 DEF Last
  <2>3. \A v, o \in Nat : memAddr - v = fileOff - o =>
          \A more \in Nat : (memAddr + more) - v = (fileOff + more) - o
    BY <1>5
  <2>4. memAddr' = memAddr + moreMem /\ fileOff' = fileOff + moreFile
    BY <1>6, <1>7
  <2> HIDE DEF moreMem, moreFile
  <2>5. moreMem = moreFile
    BY <1>8, <2>1
  <2>6. moreMem \in Nat /\ Last.vaddr \in Nat /\ Last.offset \in Nat
    BY <1>4, <1>8
  <2>7. (memAddr + moreMem) - Last.vaddr = (fileOff + moreMem) - Last.offset
    BY <2>1, <2>3, <2>6, Zenon
  <2> QED BY <2>1, <2>2, <2>4, <2>5, <2>7
<1>15. sect_place_offset \in Nat /\ sect_place_offset > 0
  BY HeadersTakeRoom DEF ElfInvariant
<1>16. prog_start_addr \in Nat
  BY SMT DEF prog_start_addr
<1>17. /\ memAddr >= prog_start_addr + sect_place_offset /\ fileOff >= sect_place_offset
       /\ sect_place_offset' = sect_place_offset
       /\ \A s : Initialised(s)' = Initialised(s)
  BY <1>1 DEF ElfInvariant, BehindPlaced, sect_place_offset, Initialised
<1>18. /\ PlacedSections' = PlacedSections \union {Section}
       /\ PlacedSections \subseteq DOMAIN sections
  <2>1. memAddr # 0
    BY <1>5, <1>15, <1>16, <1>17
  <2> QED BY <1>1, <1>2, <1>10, <2>1 DEF PlacedSections
<1>19. \A s \in PlacedSections :
         /\ addrs[s] \in Nat /\ offs[s] \in Nat /\ sections[s].size \in Nat
         /\ addrs[s] + sections[s].size <= memAddr
         /\ Initialised(s) => offs[s] + sections[s].size <= fileOff
  BY <1>3, <1>5, <1>18 DEF ElfInvariant, BehindPlaced
<1>20. BehindPlaced'
  <2>1. ASSUME NEW s \in PlacedSections'
        PROVE  /\ addrs'[s] + sections[s].size <= memAddr'
               /\ Initialised(s) => offs'[s] + sections[s].size <= fileOff'
    <3>1. CASE s = Section
      BY <1>2, <1>5, <1>9, <1>10, <3>1
    <3>2. CASE s # Section
      <4>1. \A a, m, n \in Nat : a <= m /\ m <= n => a <= n
        OBVIOUS
      <4>2. /\ s \in PlacedSections /\ s \in DOMAIN sections
            /\ addrs'[s] = addrs[s] /\ offs'[s] = offs[s]
        BY <1>10, <1>18, <3>2
      <4>3. addrs[s] + sections[s].size \in Nat /\ offs[s] + sections[s].size \in Nat
        BY <1>19, <4>2
      <4> QED BY <1>5, <1>9, <1>19, <4>1, <4>2, <4>3
    <3> QED BY <3>1, <3>2
  <2>2. memAddr' >= prog_start_addr + sect_place_offset /\ fileOff' >= sect_place_offset
    BY <1>2, <1>5, <1>9, <1>15, <1>16, <1>17, SMTT(30)
  <2> QED BY <1>1, <1>17, <2>1, <2>2 DEF BehindPlaced
<1>21. PlacedInTurn'
  <2> SUFFICES ASSUME NEW s \in DOMAIN sections, Initialised(s), s # Section,
                      \/ sections[s].perm < perm
                      \/ sections[s].perm = perm /\ (pass = "rest" \/ s <= Section)
               PROVE  s \in PlacedSections
    BY <1>1, <1>17, <1>18 DEF PlacedInTurn
  <2>1. pass = "initialised" /\ sections[s].perm = perm /\ s <= Section => s <= visited
    <3>1. ASSUME s <= Section PROVE ~ InThisPass(s)
      BY <1>2, <1>3, <3>1
    <3> QED BY <1>3, <3>1 DEF InThisPass, Chosen
  <2> QED BY <1>7, <2>1 DEF ElfInvariant, PlacedInTurn
<1>22. PlacedInSegment'
  BY <1>1, <1>2, <1>18 DEF ElfInvariant, PlacedInSegment
<1>23. LayoutDisjoint'
  <2>1. ASSUME NEW s \in PlacedSections', NEW t \in PlacedSections', s # t
        PROVE  /\ Apart(addrs'[s], sections[s].size, addrs'[t], sections[t].size)
               /\ Initialised(s) /\ Initialised(t) =>
                    Apart(offs'[s], sections[s].size, offs'[t], sections[t].size)
    <3>1. CASE s = Section
      BY <1>2, <1>5, <1>10, <1>18, <1>19, <2>1, <3>1 DEF Apart
    <3>2. CASE t = Section
      BY <1>2, <1>5, <1>10, <1>18, <1>19, <2>1, <3>2 DEF Apart
    <3>3. CASE s # Section /\ t # Section
      BY <1>10, <1>18, <2>1, <3>3 DEF ElfInvariant, LayoutDisjoint
    <3> QED BY <3>1, <3>2, <3>3
  <2>2. ASSUME NEW s \in PlacedSections'
        PROVE  addrs'[s] >= prog_start_addr + sect_place_offset /\ offs'[s] >= sect_place_offset
    <3>1. CASE s = Section
      BY <1>2, <1>10, <1>17, <3>1
    <3>2. CASE s # Section
      BY <1>10, <1>18, <3>2 DEF ElfInvariant, LayoutDisjoint
    <3> QED BY <3>1, <3>2
  <2> QED BY <1>1, <1>17, <2>1, <2>2 DEF LayoutDisjoint
<1>24. FilePlacesMatchMemory'
  <2>1. \A k \in DOMAIN segs' : segs'[k].vaddr % PAGESIZE = segs'[k].offset % PAGESIZE
    BY <1>13 DEF PagesAligned
  <2>2. ASSUME NEW s \in PlacedSections', NEW k \in DOMAIN segs, Initialised(s),
               segs[k].perm = sections[s].perm
        PROVE  addrs'[s] - segs[k].vaddr = offs'[s] - segs[k].offset
    <3>1. CASE s = Section
      <4>1. k = Len(segs)
        BY <1>2, <1>4, <2>2, <3>1
      <4>2. pass = "initialised"
        BY <1>7, <2>2, <3>1
      <4> QED BY <1>1, <1>2, <1>4, <1>10, <3>1, <4>1, <4>2 DEF ElfInvariant, InStep
    <3>2. CASE s # Section
      BY <1>10, <1>18, <2>2, <3>2 DEF ElfInvariant, FilePlacesMatchMemory, InSegment
    <3> QED BY <3>1, <3>2
  <2> QED BY <1>1, <1>17, <2>1, <2>2 DEF FilePlacesMatchMemory, InSegment
<1> QED BY <1>11, <1>12, <1>13, <1>14, <1>20, <1>21, <1>22, <1>23, <1>24 DEF ElfInvariant

(* Every step is one of these.                                             *)
LEMMA InvariantNext == ElfInvariant /\ [ElfNext]_elfVars => ElfInvariant'
<1> SUFFICES ASSUME ElfInvariant, [ElfNext]_elfVars PROVE ElfInvariant'
  OBVIOUS
<1>1. CASE openSegment
  BY <1>1, OpeningKeeps
<1>2. CASE passSection
  BY <1>2, PassingKeeps
<1>3. CASE placeInitialised \/ placeRest
  BY <1>3, PlacingKeeps
<1>4. CASE nextPass
  BY <1>4, NextPassKeeps
<1>5. CASE refuseRest
  BY <1>5, StageKeeps DEF refuseRest, Stages
<1>6. CASE finish
  BY <1>6, StageKeeps DEF finish, Stages
<1>7. CASE UNCHANGED elfVars
  <2>1. stage' \in Stages
    BY <1>7 DEF ElfInvariant, ElfTypes, elfVars
  <2> QED BY <1>7, <2>1, StageKeeps DEF elfVars
<1> QED BY <1>1, <1>2, <1>3, <1>4, <1>5, <1>6, <1>7 DEF ElfNext

-----------------------------------------------------------------------------
(* Types, the order of segments, and where offsets stand: what the         *)
(* theorems below rest on.                                                 *)
THEOREM ElfInvariantHolds == ElfSpec => []ElfInvariant
  BY InvariantInit, InvariantNext, PTL DEF ElfSpec

(* Sections never share a byte with each other or with the headers,        *)
(* whatever gaps the offsets leave.                                        *)
THEOREM LayoutHolds == ElfSpec => []LayoutDisjoint
<1>1. ElfInvariant => LayoutDisjoint
  BY DEF ElfInvariant
<1> QED BY <1>1, ElfInvariantHolds, PTL

(* Bytes are where the mapping of their segment puts them.                 *)
THEOREM FilePlacesHold == ElfSpec => []FilePlacesMatchMemory
<1>1. ElfInvariant => FilePlacesMatchMemory
  BY DEF ElfInvariant
<1> QED BY <1>1, ElfInvariantHolds, PTL

(* The table of program headers is large enough for every output.          *)
THEOREM HeadersHold == ElfSpec => []HeadersFit
<1>1. ASSUME ElfInvariant PROVE HeadersFit
  <2>1. Len(segs) \in Nat /\ perm \in 0 .. 8
    BY <1>1 DEF ElfInvariant, ElfTypes
  <2>2. perm = 8 => ~ segUsed
    BY <1>1 DEF ElfInvariant, SegmentsOrdered
  <2>3. Len(segs) <= 8
    BY <1>1, <2>1, <2>2 DEF ElfInvariant, SegmentsCounted
  <2> QED BY <2>1, <2>3 DEF HeadersFit, segs_used, max_ph_cnt
<1> QED BY <1>1, ElfInvariantHolds, PTL

(* When the sections are placed, each is copied inside the buffer.         *)
THEOREM CopiesHold == ElfSpec => []CopiesInside
<1>1. ASSUME ElfInvariant, perm \notin Permissions, NEW s \in DOMAIN sections, Initialised(s)
      PROVE  CopyFrom(s) >= 0 /\ CopyFrom(s) + sections[s].size <= BufferSize
  <2>1. sections[s].perm \in 0 .. 7 /\ sections[s].size \in Nat
    BY <1>1, SectionFields DEF ElfInvariant, ElfTypes, Permissions
  <2>2. perm = 8
    BY <1>1 DEF ElfInvariant, ElfTypes, Permissions
  <2>3. s \in PlacedSections
    BY <1>1, <2>1, <2>2 DEF ElfInvariant, PlacedInTurn
  <2>4. offs[s] >= sect_place_offset /\ offs[s] + sections[s].size <= fileOff
    BY <1>1, <2>3 DEF ElfInvariant, LayoutDisjoint, BehindPlaced
  <2>5. offs[s] \in Nat /\ fileOff \in Nat /\ sect_place_offset \in Nat
    BY <1>1, HeadersTakeRoom DEF ElfInvariant, ElfTypes
  <2> QED BY <2>1, <2>4, <2>5 DEF CopyFrom, BufferSize
<1>2. ElfInvariant => CopiesInside
  BY <1>1 DEF CopiesInside
<1> QED BY <1>2, ElfInvariantHolds, PTL
-----------------------------------------------------------------------------
(* Two sections of the same permissions, and the entry point.              *)

(* Sections are placed in the order in which the loops visit them, each    *)
(* one once.                                                               *)
PlacedBefore ==
  \A s \in PlacedSections : sections[s].perm = perm =>
    IF Initialised(s) THEN pass = "rest" \/ s <= visited ELSE pass = "rest" /\ s <= visited

(* A segment without sections is empty.  While it holds one at most, the   *)
(* next one is placed right behind what the segment holds.                 *)
EmptyAtFirst ==
  segUsed /\ (\A s \in PlacedSections : sections[s].perm # perm) =>
    Last.memsz = 0 /\ Last.filesz = 0
Contiguous ==
  /\ segUsed
  /\ \A s, t \in PlacedSections : sections[s].perm = perm /\ sections[t].perm = perm => s = t
  => /\ memAddr = Last.vaddr + Last.memsz
     /\ pass = "initialised" => fileOff = Last.offset + Last.filesz

NoThree ==
  \A s, t, u \in DOMAIN sections :
    sections[t].perm = sections[s].perm /\ sections[u].perm = sections[s].perm =>
      s = t \/ t = u \/ s = u

(* The section execOutPrepareCode merges the code into: the last one that  *)
(* takes control, with bytes and the permissions of all of them.           *)
IsMerged(out, l) ==
  /\ out[l].entry /\ out[l].fill = "INITIALISED"
  /\ \A s \in DOMAIN out : out[s].entry => s <= l /\ out[s].perm <= out[l].perm

(* Whatever was placed before it, the merged code has the last word on the *)
(* entry point.                                                            *)
EntryFollows ==
  /\ \A l \in PlacedSections : IsMerged(sections, l) => entry = addrs[l]
  /\ entry # 0 => \E s \in DOMAIN sections : sections[s].entry
  /\ stage = "written" => perm = 8 /\ entry # 0

PlacingInvariant ==
  /\ PlacedBefore /\ EmptyAtFirst
  /\ NoThree => Contiguous /\ SectionsMapped
  /\ EntryFollows

(* Three sections of the same permissions are what pairs leave out.        *)
LEMMA PairsAreNoThree ==
  ASSUME ElfTypes, \A s \in DOMAIN sections : Cardinality(Alike(s)) <= 2
  PROVE  NoThree
<1> SUFFICES ASSUME NEW s \in DOMAIN sections, NEW t \in DOMAIN sections,
                    NEW u \in DOMAIN sections,
                    sections[t].perm = sections[s].perm, sections[u].perm = sections[s].perm,
                    s # t, t # u, s # u
             PROVE  FALSE
  BY DEF NoThree
<1>1. DOMAIN sections = 1 .. Len(sections) /\ Len(sections) \in Nat
  BY DEF ElfTypes
<1>2. IsFiniteSet(DOMAIN sections)
  BY <1>1, FS_Interval
<1>3. IsFiniteSet(Alike(s)) /\ {s, t, u} \subseteq Alike(s)
  <2>1. Alike(s) \subseteq DOMAIN sections
    BY DEF Alike
  <2> QED BY <1>2, <2>1, FS_Subset DEF Alike
<1>4. Cardinality({s, t, u}) = 3
  <2>1. IsFiniteSet({s}) /\ Cardinality({s}) = 1
    BY FS_Singleton
  <2>2. IsFiniteSet({s} \cup {t}) /\ Cardinality({s} \cup {t}) = 2
    BY <2>1, FS_AddElement
  <2>3. u \notin {s} \cup {t} /\ 2 + 1 = 3
    OBVIOUS
  <2>4. Cardinality(({s} \cup {t}) \cup {u}) = 3
    BY <2>2, <2>3, FS_AddElement
  <2>5. ({s} \cup {t}) \cup {u} = {s, t, u}
    OBVIOUS
  <2> QED BY <2>4, <2>5
<1>5. Cardinality({s, t, u}) <= Cardinality(Alike(s))
  BY <1>3, FS_Subset
<1>6. Cardinality(Alike(s)) \in Nat
  BY <1>3, FS_CardinalityType
<1> QED BY <1>4, <1>5, <1>6

LEMMA PlacingInit == ElfInit => PlacingInvariant
<1> SUFFICES ASSUME ElfInit PROVE PlacingInvariant
  OBVIOUS
<1>1. PlacedSections = {}
  BY DEF ElfInit, PlacedSections
<1>2. ~ segUsed /\ entry = 0 /\ stage = "composing"
  BY DEF ElfInit
<1> QED BY <1>1, <1>2
        DEF PlacingInvariant, PlacedBefore, EmptyAtFirst, Contiguous, SectionsMapped,
            EntryFollows

(* Steps that place nothing.                                               *)
LEMMA NothingPlaced ==
  ASSUME ElfInvariant, PlacingInvariant,
         UNCHANGED <<sections, offs, addrs, entry>>,
         openSegment \/ passSection \/ nextPass \/ refuseRest \/ finish \/ UNCHANGED elfVars
  PROVE  PlacingInvariant'
<1>1. /\ PlacedSections' = PlacedSections /\ PlacedSections \subseteq DOMAIN sections
      /\ \A s : Initialised(s)' = Initialised(s)
      /\ NoThree' = NoThree
  BY DEF PlacedSections, Initialised, NoThree
<1>2. /\ \A s \in DOMAIN sections : s \in Nat /\ sections[s].perm \in 0 .. 7
      /\ visited \in Nat /\ perm \in 0 .. 8 /\ pass \in {"initialised", "rest"}
      /\ segs \in Seq(SegmentType)
  BY SectionFields DEF ElfInvariant, ElfTypes, Permissions
<1>3. PlacedBefore'
  <2> SUFFICES ASSUME NEW s \in PlacedSections, sections[s].perm = perm'
               PROVE  IF Initialised(s) THEN pass' = "rest" \/ s <= visited'
                      ELSE pass' = "rest" /\ s <= visited'
    BY <1>1 DEF PlacedBefore
  <2>1. s \in Nat /\ (sections[s].perm < perm \/ (sections[s].perm = perm /\ segUsed))
    BY <1>1, <1>2 DEF ElfInvariant, PlacedInSegment
  <2>2. sections[s].perm = perm =>
          IF Initialised(s) THEN pass = "rest" \/ s <= visited ELSE pass = "rest" /\ s <= visited
    BY DEF PlacingInvariant, PlacedBefore
  <2>3. CASE passSection
    <3>1. Ahead # {} /\ visited' = Section /\ pass = "initialised" /\ UNCHANGED <<perm, pass>>
      BY <2>3 DEF passSection, Composing
    <3>2. Section > visited /\ Section \in Nat
      BY <1>2, <3>1, SectionAhead DEF ElfInvariant
    <3> QED BY <1>2, <2>1, <2>2, <3>1, <3>2
  <2>4. CASE nextPass
    <3>1. \/ pass = "initialised" /\ pass' = "rest" /\ perm' = perm
          \/ pass = "rest" /\ perm' = perm + 1
      BY <1>2, <2>4 DEF nextPass
    <3> QED BY <1>1, <1>2, <2>1, <2>2, <3>1
  <2>5. CASE ~ passSection /\ ~ nextPass
    <3>1. UNCHANGED <<perm, pass, visited>>
      BY <2>5 DEF openSegment, refuseRest, finish, elfVars
    <3> QED BY <2>2, <3>1
  <2> QED BY <2>3, <2>4, <2>5
<1>4. EmptyAtFirst'
  <2> SUFFICES ASSUME segUsed', \A s \in PlacedSections : sections[s].perm # perm'
               PROVE  Last'.memsz = 0 /\ Last'.filesz = 0
    BY <1>1 DEF EmptyAtFirst
  <2>1. CASE openSegment
    <3>1. /\ segs' = Append(segs, Segment(fileOff', memAddr'))
          /\ Segment(fileOff', memAddr') \in SegmentType
      BY <2>1, OpeningAppends
    <3>2. Last' = Segment(fileOff', memAddr')
      BY <1>2, <3>1 DEF Last
    <3> QED BY <3>2 DEF Segment
  <2>2. CASE ~ openSegment
    <3>1. UNCHANGED <<segs, perm, segUsed>>
      <4>1. CASE nextPass
        BY <1>2, <4>1 DEF nextPass, SegmentStaysOpen, ElfInvariant, ElfTypes
      <4>2. CASE ~ nextPass
        BY <2>2, <4>2 DEF passSection, refuseRest, finish, elfVars
      <4> QED BY <4>1, <4>2
    <3> QED BY <3>1 DEF PlacingInvariant, EmptyAtFirst, Last
  <2> QED BY <2>1, <2>2
<1>5. ASSUME NoThree PROVE Contiguous' /\ SectionsMapped'
  <2>1. Contiguous /\ SectionsMapped
    BY <1>5 DEF PlacingInvariant
  <2>2. CASE openSegment
    <3>1. /\ segs' = Append(segs, Segment(fileOff', memAddr'))
          /\ Segment(fileOff', memAddr') \in SegmentType /\ UNCHANGED <<perm, pass>>
      BY <2>2, OpeningAppends
    <3>2. /\ Len(segs') = Len(segs) + 1 /\ segs'[Len(segs')] = Segment(fileOff', memAddr')
          /\ \A k \in DOMAIN segs : k \in DOMAIN segs' /\ segs'[k] = segs[k]
      BY <1>2, <3>1
    <3>3. Last' = Segment(fileOff', memAddr')
      BY <3>2 DEF Last
    <3>4. Last'.vaddr = memAddr' /\ Last'.memsz = 0 /\ Last'.offset = fileOff' /\ Last'.filesz = 0
      BY <3>3 DEF Segment
    <3>5. memAddr' \in Nat /\ fileOff' \in Nat
      BY <3>1 DEF Segment, SegmentType
    <3>6. Contiguous'
      <4>1. memAddr' = Last'.vaddr + Last'.memsz /\ fileOff' = Last'.offset + Last'.filesz
        <5>1. \A i \in Nat : i = i + 0
          OBVIOUS
        <5> QED BY <3>4, <3>5, <5>1, Zenon
      <4> QED BY <4>1 DEF Contiguous
    <3>7. SectionsMapped'
      BY <1>1, <2>1, <3>2 DEF SectionsMapped, InSegment, Covers
    <3> QED BY <3>6, <3>7
  <2>3. CASE ~ openSegment
    <3>1. UNCHANGED <<segs, memAddr, fileOff>>
      BY <2>3 DEF passSection, nextPass, refuseRest, finish, elfVars
    <3>2. \/ UNCHANGED <<perm, pass, segUsed>>
          \/ pass = "initialised" /\ pass' = "rest" /\ perm' = perm /\ segUsed' = segUsed
          \/ ~ segUsed'
      <4>1. CASE nextPass
        BY <1>2, <4>1 DEF nextPass, SegmentStaysOpen, ElfInvariant, ElfTypes
      <4>2. CASE ~ nextPass
        BY <2>3, <4>2 DEF passSection, refuseRest, finish, elfVars
      <4> QED BY <4>1, <4>2
    <3>3. SectionsMapped'
      BY <1>1, <2>1, <3>1 DEF SectionsMapped, InSegment, Covers
    <3>4. Contiguous'
      BY <1>1, <2>1, <3>1, <3>2 DEF Contiguous, Last
    <3> QED BY <3>3, <3>4
  <2> QED BY <2>2, <2>3
<1>6. EntryFollows'
  <2>1. \A l \in PlacedSections : IsMerged(sections, l) => entry = addrs[l]
    BY DEF PlacingInvariant, EntryFollows
  <2>2. entry # 0 => \E s \in DOMAIN sections : sections[s].entry
    BY DEF PlacingInvariant, EntryFollows
  <2>3. stage' = "written" => perm' = 8 /\ entry # 0
    <3>1. CASE finish
      BY <1>2, <3>1 DEF finish, Permissions
    <3>2. CASE ~ finish
      <4>1. stage' = "written" => stage = "written" /\ UNCHANGED perm
        BY <3>2 DEF openSegment, passSection, nextPass, refuseRest, elfVars, Composing
      <4> QED BY <4>1 DEF PlacingInvariant, EntryFollows
    <3> QED BY <3>1, <3>2
  <2> QED BY <1>1, <2>1, <2>2, <2>3 DEF EntryFollows
<1> QED BY <1>1, <1>3, <1>5, <1>6, <1>4 DEF PlacingInvariant

(* Steps that place a section.                                             *)
LEMMA SectionPlaced ==
  ASSUME ElfInvariant, PlacingInvariant, placeInitialised \/ placeRest
  PROVE  PlacingInvariant'
<1>1. /\ segUsed /\ Ahead # {} /\ visited' = Section
      /\ UNCHANGED <<sections, perm, pass, segUsed, stage>>
      /\ DOMAIN segs' = DOMAIN segs /\ Len(segs') = Len(segs)
      /\ \A k \in DOMAIN segs :
           /\ segs'[k].perm = segs[k].perm /\ segs'[k].vaddr = segs[k].vaddr
           /\ segs'[k].offset = segs[k].offset
           /\ segs'[k].memsz >= segs[k].memsz /\ segs'[k].filesz >= segs[k].filesz
      /\ segs'[Len(segs)].memsz = Last.memsz + Size
      /\ placeInitialised => segs'[Len(segs)].filesz = Last.filesz + Size
  BY PlacingLengthens
<1>2. /\ Section \in Nat /\ Section > visited /\ Section \in DOMAIN sections
      /\ Size \in Nat /\ Size = sections[Section].size /\ sections[Section].perm = perm
      /\ Section \in Ahead
  BY <1>1, SectionAhead DEF ElfInvariant, Size
<1>3. /\ \A s \in DOMAIN sections : s \in Nat /\ sections[s].perm \in 0 .. 7
      /\ visited \in Nat /\ perm \in 0 .. 8 /\ pass \in {"initialised", "rest"}
  BY SectionFields DEF ElfInvariant, ElfTypes, Permissions
<1>4. /\ Len(segs) \in DOMAIN segs /\ Last.perm = perm /\ Last = segs[Len(segs)]
      /\ Last.vaddr \in Nat /\ Last.offset \in Nat /\ Last.filesz \in Nat /\ Last.memsz \in Nat
  BY <1>1, LastSegment DEF ElfInvariant, SegmentType, Last
<1>5. /\ offs' = [offs EXCEPT ![Section] = fileOff]
      /\ addrs' = [addrs EXCEPT ![Section] = memAddr]
      /\ memAddr' = memAddr + Advance(Last.memsz)
      /\ entry' = EntryWith
  BY DEF placeInitialised, placeRest, Placed
<1>6. \/ placeInitialised /\ pass = "initialised" /\ Initialised(Section)
      \/ placeRest /\ pass = "rest" /\ ~ Initialised(Section)
  BY <1>2 DEF placeInitialised, placeRest, Composing, Ahead, InThisPass
<1>7. /\ memAddr \in Nat /\ fileOff \in Nat /\ memAddr # 0
      /\ \A s \in DOMAIN sections : /\ addrs'[s] = IF s = Section THEN memAddr ELSE addrs[s]
                                    /\ offs'[s] = IF s = Section THEN fileOff ELSE offs[s]
  <2>1. prog_start_addr + sect_place_offset \in Nat /\ prog_start_addr + sect_place_offset > 0
    BY HeadersTakeRoom DEF ElfInvariant, prog_start_addr
  <2>2. /\ memAddr \in Nat /\ fileOff \in Nat /\ memAddr >= prog_start_addr + sect_place_offset
        /\ offs \in [DOMAIN sections -> Nat] /\ addrs \in [DOMAIN sections -> Nat]
    BY DEF ElfInvariant, ElfTypes, BehindPlaced
  <2>3. memAddr # 0
    BY <2>1, <2>2
  <2>4. ASSUME NEW s \in DOMAIN sections
        PROVE  /\ addrs'[s] = IF s = Section THEN memAddr ELSE addrs[s]
               /\ offs'[s] = IF s = Section THEN fileOff ELSE offs[s]
    BY <1>5, <2>2
  <2> QED BY <2>2, <2>3, <2>4
<1>8. /\ PlacedSections' = PlacedSections \cup {Section}
      /\ PlacedSections \subseteq DOMAIN sections
      /\ \A s : Initialised(s)' = Initialised(s)
      /\ NoThree' = NoThree
  BY <1>1, <1>2, <1>7 DEF PlacedSections, Initialised, NoThree
<1>9. \A s \in PlacedSections : sections[s].perm = perm =>
        IF Initialised(s) THEN pass = "rest" \/ s <= visited ELSE pass = "rest" /\ s <= visited
  BY DEF PlacingInvariant, PlacedBefore
<1>10. Section \notin PlacedSections
  BY <1>2, <1>3, <1>6, <1>9
<1>11. PlacedBefore'
  BY <1>1, <1>2, <1>3, <1>6, <1>8, <1>9 DEF PlacedBefore
<1>12. EmptyAtFirst'
  BY <1>1, <1>2, <1>8 DEF EmptyAtFirst
<1>13. ASSUME NoThree PROVE Contiguous' /\ SectionsMapped'
  <2>1. Contiguous /\ SectionsMapped
    BY <1>13 DEF PlacingInvariant
  <2>2. \A s, t \in PlacedSections : sections[s].perm = perm /\ sections[t].perm = perm => s = t
    BY <1>2, <1>8, <1>10, <1>13 DEF NoThree
  <2>3. /\ memAddr = Last.vaddr + Last.memsz
        /\ pass = "initialised" => fileOff = Last.offset + Last.filesz
    BY <1>1, <2>1, <2>2 DEF Contiguous
  <2>4. Contiguous'
    <3> SUFFICES ASSUME \A s, t \in PlacedSections' :
                          sections[s].perm = perm /\ sections[t].perm = perm => s = t
                 PROVE  /\ memAddr' = Last'.vaddr + Last'.memsz
                        /\ pass = "initialised" => fileOff' = Last'.offset + Last'.filesz
      BY <1>1 DEF Contiguous
    <3>1. \A s \in PlacedSections : sections[s].perm # perm
      BY <1>2, <1>8, <1>10
    <3>2. Last.memsz = 0 /\ Last.filesz = 0
      BY <1>1, <3>1 DEF PlacingInvariant, EmptyAtFirst
    <3>3. /\ Last'.memsz = Size /\ Last'.vaddr = Last.vaddr /\ Last'.offset = Last.offset
          /\ placeInitialised => Last'.filesz = Size
      BY <1>1, <1>2, <1>4, <3>2 DEF Last
    <3>4. memAddr' = memAddr + Size /\ (placeInitialised => fileOff' = fileOff + Size)
      BY <1>2, <1>5, <1>7, <3>2 DEF Advance, placeInitialised
    <3> QED BY <1>2, <1>4, <1>6, <1>7, <2>3, <3>2, <3>3, <3>4
  <2>5. SectionsMapped'
    <3> SUFFICES ASSUME NEW s \in PlacedSections'
                 PROVE  \E k \in DOMAIN segs :
                          /\ segs'[k].perm = sections[s].perm
                          /\ addrs'[s] >= segs'[k].vaddr
                          /\ addrs'[s] + sections[s].size <= segs'[k].vaddr + segs'[k].memsz
                          /\ Initialised(s) =>
                               offs'[s] + sections[s].size <= segs'[k].offset + segs'[k].filesz
      BY <1>1, <1>8 DEF SectionsMapped, InSegment, Covers
    <3>1. CASE s = Section
      <4> DEFINE k == Len(segs)
      <4>1. /\ k \in DOMAIN segs /\ segs'[k].perm = perm /\ segs'[k].vaddr = Last.vaddr
            /\ segs'[k].offset = Last.offset /\ segs'[k].memsz = Last.memsz + Size
            /\ placeInitialised => segs'[k].filesz = Last.filesz + Size
        BY <1>1, <1>4
      <4>2. addrs'[s] = memAddr /\ offs'[s] = fileOff /\ sections[s].size = Size
            /\ sections[s].perm = perm
        BY <1>2, <1>7, <3>1
      <4>3. addrs'[s] >= segs'[k].vaddr
        <5>1. memAddr >= Last.vaddr
          BY <1>4, <1>7, <2>3
        <5> QED BY <4>1, <4>2, <5>1
      <4>4. addrs'[s] + sections[s].size <= segs'[k].vaddr + segs'[k].memsz
        BY <1>2, <1>4, <1>7, <2>3, <4>1, <4>2, SMTT(30)
      <4>5. Initialised(s) => placeInitialised /\ pass = "initialised"
        BY <1>6, <3>1
      <4>6. Initialised(s) => offs'[s] + sections[s].size <= segs'[k].offset + segs'[k].filesz
        <5>1. \A a, b, c \in Nat : (a + b) + c = a + (b + c)
          OBVIOUS
        <5>2. Initialised(s) => fileOff = Last.offset + Last.filesz
          BY <2>3, <4>5
        <5>3. Initialised(s) => fileOff + Size = Last.offset + (Last.filesz + Size)
          BY <1>2, <1>4, <5>1, <5>2
        <5>4. fileOff + Size \in Nat
          BY <1>2, <1>7
        <5> QED BY <4>1, <4>2, <4>5, <5>3, <5>4
      <4> HIDE DEF k
      <4> QED BY <4>1, <4>2, <4>3, <4>4, <4>6
    <3>2. CASE s # Section
      <4>1. s \in PlacedSections /\ s \in DOMAIN sections
        BY <1>8, <3>2
      <4>2. PICK k \in DOMAIN segs : InSegment(s, k) /\ Covers(k, s)
        BY <2>1, <4>1 DEF SectionsMapped
      <4>3. /\ addrs'[s] = addrs[s] /\ offs'[s] = offs[s]
            /\ addrs[s] \in Nat /\ offs[s] \in Nat /\ sections[s].size \in Nat
        BY <1>7, <3>2, <4>1, SectionFields DEF ElfInvariant, ElfTypes
      <4>4. /\ segs[k].vaddr \in Nat /\ segs[k].offset \in Nat
            /\ segs[k].memsz \in Nat /\ segs[k].filesz \in Nat
            /\ segs'[k].memsz \in Nat /\ segs'[k].filesz \in Nat
        <5>1. ElfTypes'
          BY PlacingKeeps DEF ElfInvariant
        <5>2. \A x \in SegmentType : /\ x.vaddr \in Nat /\ x.offset \in Nat
                                     /\ x.memsz \in Nat /\ x.filesz \in Nat
          BY DEF SegmentType
        <5>3. segs[k] \in SegmentType
          BY segs \in Seq(SegmentType) DEF ElfInvariant, ElfTypes
        <5>4. segs'[k] \in SegmentType
          BY <1>1, <5>1, segs' \in Seq(SegmentType) DEF ElfTypes
        <5> QED BY <5>2, <5>3, <5>4
      <4>5. /\ segs[k].perm = sections[s].perm
            /\ addrs[s] >= segs[k].vaddr
            /\ addrs[s] + sections[s].size <= segs[k].vaddr + segs[k].memsz
            /\ Initialised(s) => offs[s] + sections[s].size <= segs[k].offset + segs[k].filesz
        BY <4>2 DEF InSegment, Covers
      <4>6. /\ segs'[k].perm = segs[k].perm /\ segs'[k].vaddr = segs[k].vaddr
            /\ segs'[k].offset = segs[k].offset
            /\ segs'[k].memsz >= segs[k].memsz /\ segs'[k].filesz >= segs[k].filesz
        BY <1>1
      <4>7. addrs'[s] + sections[s].size <= segs'[k].vaddr + segs'[k].memsz
        BY <4>3, <4>4, <4>5, <4>6
      <4>8. Initialised(s) => offs'[s] + sections[s].size <= segs'[k].offset + segs'[k].filesz
        BY <4>3, <4>4, <4>5, <4>6
      <4> QED BY <4>3, <4>5, <4>6, <4>7, <4>8
    <3> QED BY <3>1, <3>2
  <2> QED BY <2>4, <2>5
<1>14. EntryFollows'
  <2>1. EntryFollows
    BY DEF PlacingInvariant
  <2>2. ASSUME NEW l \in PlacedSections', IsMerged(sections, l) PROVE entry' = addrs'[l]
    <3>1. CASE l = Section
      BY <1>2, <1>5, <1>7, <2>2, <3>1 DEF EntryWith, IsMerged
    <3>2. CASE l # Section
      <4>1. l \in PlacedSections /\ l \in DOMAIN sections /\ addrs'[l] = addrs[l]
        BY <1>7, <1>8, <2>2, <3>2
      <4>2. entry = addrs[l] /\ addrs[l] # 0
        BY <2>1, <2>2, <4>1 DEF EntryFollows, PlacedSections
      <4>3. ASSUME sections[Section].entry PROVE FALSE
        <5>1. Section <= l /\ perm <= sections[l].perm /\ Initialised(l)
          BY <1>2, <2>2, <4>3 DEF IsMerged, Initialised
        <5>2. sections[l].perm = perm
          <6>1. sections[l].perm <= perm
            BY <1>3, <4>1 DEF ElfInvariant, PlacedInSegment
          <6> QED BY <1>3, <4>1, <5>1, <6>1
        <5>3. CASE placeInitialised
          BY <1>2, <1>3, <1>6, <1>9, <3>2, <4>1, <5>1, <5>2, <5>3
             DEF placeInitialised, placeRest, Composing
        <5>4. CASE placeRest
          BY <4>2, <4>3, <5>4 DEF placeRest, SecondEntry
        <5> QED BY <5>3, <5>4
      <4> QED BY <1>5, <4>1, <4>2, <4>3 DEF EntryWith
    <3> QED BY <3>1, <3>2
  <2>3. entry' # 0 => \E s \in DOMAIN sections : sections[s].entry
    BY <1>2, <1>5, <2>1 DEF EntryWith, EntryFollows
  <2>4. stage # "written"
    BY DEF placeInitialised, placeRest, Composing
  <2> QED BY <1>1, <1>8, <2>2, <2>3, <2>4 DEF EntryFollows
<1> QED BY <1>8, <1>11, <1>13, <1>14, <1>12 DEF PlacingInvariant

LEMMA PlacingNext ==
  ElfInvariant /\ PlacingInvariant /\ [ElfNext]_elfVars => PlacingInvariant'
<1> SUFFICES ASSUME ElfInvariant, PlacingInvariant, [ElfNext]_elfVars PROVE PlacingInvariant'
  OBVIOUS
<1>1. CASE placeInitialised \/ placeRest
  BY <1>1, SectionPlaced
<1>2. CASE ~ (placeInitialised \/ placeRest)
  <2>1. openSegment \/ passSection \/ nextPass \/ refuseRest \/ finish \/ UNCHANGED elfVars
    BY <1>2 DEF ElfNext
  <2>2. UNCHANGED <<sections, offs, addrs, entry>>
    BY <2>1 DEF openSegment, passSection, nextPass, refuseRest, finish, elfVars
  <2> QED BY <2>1, <2>2, NothingPlaced
<1> QED BY <1>1, <1>2

(* Every section is placed once and in turn: what the two theorems below   *)
(* rest on.                                                                *)
THEOREM PlacingHolds == ElfSpec => [](ElfInvariant /\ PlacingInvariant)
<1>1. ElfInvariant /\ PlacingInvariant /\ [ElfNext]_elfVars => (ElfInvariant /\ PlacingInvariant)'
  BY InvariantNext, PlacingNext
<1> QED BY InvariantInit, PlacingInit, <1>1, PTL DEF ElfSpec

(* With two sections of the same permissions at most, every section is     *)
(* inside what its segment maps, of memory and of the file.                *)
THEOREM PairsHold == ElfSpec => []PairsMapped
<1>1. ElfInvariant /\ PlacingInvariant => PairsMapped
  BY PairsAreNoThree DEF ElfInvariant, PlacingInvariant, PairsMapped
<1> QED BY <1>1, PlacingHolds, PTL

(* Execution begins at the merged code, in every output that               *)
(* execOutPrepareCode prepared: one with a merged section, or without any  *)
(* section that takes control.                                             *)
Prepared(out) ==
  \/ \E l \in DOMAIN out : IsMerged(out, l)
  \/ \A s \in DOMAIN out : ~ out[s].entry

THEOREM EntryPointHolds ==
  ASSUME \A out \in Outputs : Prepared(out)
  PROVE  ElfSpec => []EntryPointRight
<1>1. ElfInit => Prepared(sections)
  BY DEF ElfInit
<1>2. Prepared(sections) /\ [ElfNext]_elfVars => Prepared(sections)'
  BY DEF ElfNext, elfVars, openSegment, passSection, placeInitialised, placeRest, refuseRest,
         nextPass, finish
<1>3. ASSUME ElfInvariant, PlacingInvariant, Prepared(sections), stage = "written"
      PROVE  entry = addrs[Max({s \in DOMAIN sections : sections[s].entry})]
  <2> DEFINE E == {s \in DOMAIN sections : sections[s].entry}
  <2>1. perm = 8 /\ E # {}
    BY <1>3 DEF PlacingInvariant, EntryFollows
  <2>2. PICK l \in DOMAIN sections : IsMerged(sections, l)
    BY <1>3, <2>1 DEF Prepared
  <2>3. sections[l].perm \in 0 .. 7 /\ Len(sections) \in Nat /\ DOMAIN sections = 1 .. Len(sections)
    BY <1>3, SectionFields DEF ElfInvariant, ElfTypes, Permissions
  <2>4. l \in PlacedSections
    BY <1>3, <2>1, <2>2, <2>3 DEF ElfInvariant, PlacedInTurn, IsMerged, Initialised
  <2>5. entry = addrs[l]
    BY <1>3, <2>2, <2>4 DEF PlacingInvariant, EntryFollows
  <2>6. Max(E) = l
    <3>1. E \in SUBSET (0 .. Len(sections)) /\ l \in E /\ \A s \in E : s <= l
      BY <2>2, <2>3 DEF IsMerged
    <3> HIDE DEF E
    <3>2. Max(E) \in E /\ \A y \in E : Max(E) >= y
      BY <2>3, <3>1, MaxFacts
    <3>3. Max(E) \in Nat /\ l \in Nat /\ Max(E) <= l /\ Max(E) >= l
      BY <2>3, <3>1, <3>2
    <3> QED BY <3>3
  <2> QED BY <2>5, <2>6
<1>4. ElfInvariant /\ PlacingInvariant /\ Prepared(sections) => EntryPointRight
  BY <1>3 DEF EntryPointRight
<1> QED BY <1>1, <1>2, <1>4, PlacingHolds, PTL DEF ElfSpec
=============================================================================
