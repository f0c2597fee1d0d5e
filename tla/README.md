# A verification of compile_binary

compile_binary is the back end of a compiler.  It turns a syntax tree into a
stack-based intermediate language ("compiler out lang"), translates that
instruction by instruction into x86-64 machine code held in an `ExecOutput`,
resolves references, merges entry sections, and writes an ELF file (or runs the
code in place).  Every step is sequential; what makes it hard is bookkeeping:
several tables, filled in one pass over a nested program, have to agree with
each other and with what the generated code will do when it runs.

This directory holds TLA+ modules translated from the source, TLC
configurations that check them on small instances, and theorems that TLAPS
proves for all values of the constants.  Line numbers refer to `src/`.

## 1. The system

### Components

| component | source | state | operations | used by |
|---|---|---|---|---|
| intermediate language, emit functions | `compiler_out_lang/{compiler_out_lang,emmit,generic_instruction_defines}` | `CompilationOutput`: a growing byte buffer | `emit*`: append one instruction with its header (size, argc, retc, type) | back end; read by generator and dump |
| x86-64 generator | `toasm_x86_64/` | none of its own | `translateCompilerOutput_x86_64`: one `translate*` function per instruction type | tool; calls ExecOutput |
| ExecOutput | `compiler_out_lang/{exec_output,out_sym_table}` | `context_stk`, `curr_context`, `lvl`, `sects`, `syms`, `sym_pre_data`, `sym_pre_tbl`, `relt` | put data / a symbol, define a symbol, add / find a section, begin / end a block | generator |
| linking passes | `exec_output.cpp:217-235,394-458`, `relocation_table` | the same `ExecOutput` | `execOutApplyPreLbls`, `execOutPrepareCode`, `relocationEntryApply` | tool |
| ELF writer | `compiler_out_lang/createElfFile` | program headers, offsets and addresses of sections, entry point | `composeSegments`, `writeElfFile` | tool |
| JIT runner | `compiler_out_lang/jit_run` | mapped memory | `execOutputJitRun` | nobody (the call is commented out, `main_tree.cpp:66`) |
| compiler back end | `tree/compile_backend` | name tables, output, position, returned value; the C++ stack of its calls | one `compile*` function per node kind, recursive | tool |
| name tables | `tree/program_tables_v2` | stacks of variables and functions with level markers, label counter, next variable's address | add, look up, ascend and descend a level, fresh labels | back end |
| dump | `compiler_out_lang/compiler_out_dump` | none | print | tool, debug |
| compiled-output files | `compiler_out_lang/fileworks` | none | write, read | tool (`-c`) |
| command-line tools | `mains/` | options | run the passes in order | user |

The sources of `lib/` and `expr/` (containers, tree, logging) are not in the
repository; where the model needs them (`var_table`, `UStack`, `memadd`) they
are modelled from how the code uses them and marked external.

### How they interact

    tree -> [back end + name tables] -> CompilationOutput
         -> [generator -> ExecOutput: contexts, sections, symbols, tables]
         -> [ApplyPreLbls, PrepareCode] -> [ELF writer | JIT runner]

All interaction is by calls on shared structures; there are no threads, no
callbacks and no messages.  The back end decides where blocks, variables and
labels are; the generator decides what code an instruction needs and lets
`ExecOutput` account for it.  Five pairs have to agree:

* the account of the operand stack (`stk_size_curr`, from the argument counts
  of the headers) and the stack of the machine that runs the code (from the
  code tables);
* the operand fields written into sections and the entries of `sym_pre_tbl`
  and `relt` that will patch them;
* the stack of blocks and the levels of the symbol table;
* the back end's levels, variable addresses and labels, and what the generator
  makes of the instructions that mention them;
* the places of sections in the file and in memory.

### What is hard, and the property that answers it

* Blocks of five kinds nest without limit, some share the frame of the block
  around them and continue its account, others start a new one.
  *BlocksStack, KeepsBlocksApart, MachineStackTracksAccount.*
* A section can be switched to while code in the same section is still open,
  through any number of other blocks.  *OpenSectionsExclusive,
  SuspendedSectionsFrozen, LabelsInside.*
* A prototype declared outside is defined inside and keeps the outer level;
  names are shadowed; the table drops entries only from its end.  *ScopesNest,
  VisibleSymbolsKept.*
* What a name means changes between two references to it.
  *PrototypesNumbered, ReferencesAccounted, FieldsApart.*
* A reference is resolved in up to four places: by the translation, by the
  prototype pass, by the merging of entry sections and by a loader.  Each may
  turn it into work for the next; together they must do it once.
  *LinkedFieldsResolve, FreedBytesUntouched.*
* The back end recurses over the tree, keeps what it still has to do in locals
  of its callers, goes on behind errors, and its output has to satisfy the
  generator without either knowing the other's state.  *GeneratorAccepts,
  JumpsAgreeOnDepth, AccessesFindVariables, CompiledVarsStay, FlagsReachJumps.*
* Its names come from nested levels with shadowing; labels and addresses come
  from counters that blocks give back.  *NamesNest, LabelsUnique.*
* It has to come to an end on every tree.  *ProgramsEnd.*
* The chain of all passes has to keep the meaning of each reference.
  *CompiledFieldsResolve, CompiledPrototypesResolve.*
* The layout of a file is made in sixteen passes over the sections, of which
  some take room in the file and some in memory only.  *LayoutDisjoint,
  FilePlacesMatchMemory, PairsMapped, HeadersFit, EntryPointRight, CopiesInside.*
* Growth of buffers at their limits is not modelled (section 5).

Every hazard has its line in `PROJECT.json`.

## 2. The modules

| module | what it is |
|---|---|
| `CompilerOutLang` | the instructions and presets the emit functions can write: the input alphabet |
| `X86Codes` | lengths of the machine code the generator writes, and what it moves when it is read from its first byte on |
| `ExecOutput` | the core: generator and `ExecOutput` together, one action per kind of instruction, and the properties |
| `Linking` | the prototype pass and the merging of entry sections, behind `ExecOutput` |
| `Machine` | what a processor makes of the code `ExecOutput` writes: the machine stack next to the account |
| `NestedBlocks` | abstract specification: what the language promises about blocks |
| `Backend` | the back end and its name tables: from a syntax tree to a stream of instructions |
| `Compiler` | the pipeline of `main_tree.cpp`: `Backend`, then `ExecOutput` on what it emitted, then `Linking` |
| `ElfFile` | `composeSegments` and the plan of `writeElfFile` |
| `MCExecOutput`, `MCMachine`, `MCLinking`, `MCCompiler`, `MCElfFile` | instruction alphabets, syntax trees and section arrays for TLC |
| `BasicLemmas` | lemmas on sequences the proofs share |
| `ExecOutputProofs` | the inductive invariant of the blocks and what follows from it; that `ExecOutput` implements `NestedBlocks`; and the symbol table, the operand fields and the tables of references |
| `MachineProofs` | that the machine stack follows the account, where the code is read as it was written |
| `LinkingProofs` | that the linking passes keep types, patch no freed bytes, and give every field its meaning |
| `BackendProofs` | that the back end's names nest, whatever it compiles |
| `EmittedProofs` | what the back end emits: flags, labels, and, through the whole pipeline, the fields' meaning |
| `ResolveProofs` | that references through prototypes get their definitions in what the back end emits |
| `ElfFileProofs` | the layout of every output, of any number of sections of any size |

### State and actions of ExecOutput

| variable | code |
|---|---|
| `ctx` | `context_stk` with `curr_context` as its last element: type, section, `stk_size_beg`, `stk_size_curr` |
| `lvl`, `sects`, `syms`, `preTbl`, `relt` | the fields of the same names (`sym_pre_tbl` for `preTbl`); a section keeps its length in place of its bytes |
| `preData` | `sym_pre_data`, with the one cell behind its top that `execOutDefSym` writes |
| `ip`, `status` | how far `translateCompilerOutput_x86_64` got and how it ended |
| `defs`, `fields` | not in the program: what each prototype was defined as, and the operand fields written |

Each step takes one instruction of the stream.  `translateInstruction` is a
successful call: the argument check, then the `translate*` function with
everything it calls.  An instruction that does not go through ends the
translation in one of the ways the C++ code has:

* `reject`: a check returned false (`failed`);
* `abort`: an `assert` fired;
* `derail`: the code went through a null or out-of-range pointer, so nothing
  more is known of it (`undefined`);
* `misread`: `emitTableSectVar` wrote too small a size into the header and the
  next header will be read from the middle of this instruction (`misaligned`);
* `endOfStream`: the stream may end anywhere, with blocks open.

The caller destroys an output whose translation failed (`main_tree.cpp:62,75-78`),
so what an instruction wrote before it failed is left out.  The build is the
one without `DEBUG_MODE`, which writes a `nop` before each instruction.
`execoutAddSection` leaves `in_use` of a reallocated section to chance: the
model takes either value.  Several compilation outputs added to one
`ExecOutput`, which readme.md:77 allows, are one longer stream.

The name of a symbol is a string of a small set; numbers matter only as
lengths, distances and counts.  References out of a function body to variables of an
enclosing frame, and jumps into a block through an outer prototype, are legal
for the translation and stay so in the model.

`ExecOutput` is about what the generator records: its account, its tables and
the fields it will patch.  None of its properties, and none of those of
`Linking` and `Compiler`, says what a processor does with the bytes; that is
the subject of the next module.

### State and actions of Machine

| variable | what it stands for |
|---|---|
| `rsp` | slots between the base of its frame and the stack pointer, for each open context, when the code written so far has run |
| `open` | sections whose code so far ends in a zero byte |
| `astray` | sections whose code the processor no longer reads as it was written |

`MachineNext` takes the steps of `ExecOutput!translateInstruction` and says,
by the effect on contexts, what the code does to the stack pointer: `runPlain`,
`runBegin`, `runSect`, `runEnd`.  The code is run from front to back, and no
jump is followed.

`INSTR` takes `sizeof` of a string literal (`instr_bin_codes.h:8`), so every entry of
the code tables is one byte longer than its instruction, and that zero byte is
written and executed.  It is the opcode of `add r/m8, r8`, whose operand is made of the
bytes behind it.  Where these are exactly two bytes (`StaysInStep`: a pop and what
follows it, or the push of a small constant), they are lost and the processor goes on in step;
`InLostBytes` says what they would have moved.  Where the addition cuts into a
longer instruction the processor goes astray, and nothing is claimed of it any more.
It does so as well (`ReadsAsWritten`) at a constant of 2^31 or more, whose move to rax lacks
its REX.W prefix and leaves four of the eight bytes to be executed; at a memory
operand without bp, whose ModRM byte names rax and no SIB byte, which is how
every read and write through a pointer is written; and at jumps, whose opcodes end in
a zero byte in front of the displacement: the processor takes the displacement
from one byte before the field that is recorded and patched, and executes the field's last byte.
`enter 0, 1` has nesting level 1 and pushes a second slot (`EnterSlots`).

### State and actions of Linking

`LinkNext` first runs `ExecOutput!Next` to its end (`translate`), then the two
passes on what it left, one entry of `sym_pre_tbl` or `relt` at a time.

| variable | code |
|---|---|
| `phase`, `at` | the pass and its loop index |
| `applied` | what `execOutApplyPreLbls` returned; nobody looks at it (`main_tree.cpp:64`) |
| `content` | the numbers in the operand fields, by section and offset; the bytes around them are left out |
| `base`, `newSect` | `sect_reloc_offs` and `new_sect` of `execOutPrepareCode` |

`beginLinking` gives every field written by the translation its first number.
`applyPreLbl`, `applyFails` and `applyEnds` are the steps of
`execOutApplyPreLbls`; `mergeEntries`, `relocateEntry` and `endMerge` those of
`execOutPrepareCode`.  `applyDerails` and `mergeDerails` are the steps that go
through a null pointer or a section that is not there.  Two things are choices:

* The cell of the last prototype is never written if that prototype stays
  undefined, so it reads as anything (`CellReads`).
* `memadd` is external; it may report an overflow when it adds to a negative
  number.

Entries are relocated from the last to the first, as in the code.  Addresses
are those of the final layout: a loader gives each section an address and adds
what the entries ask for.

### State and actions of Backend

| variable | code |
|---|---|
| `todo` | the C++ call stack: a frame for each call still to be made, and one for the rest of a function behind a call it makes, with the locals it keeps (`instr_cnt` and argument counts as `cnt`, `cond`, the label number as `id`, the caller's `code_block_id` as `old`) |
| `emitted` | the `CompilationOutput`, one record for each instruction |
| `objVars`, `objFuncs` | the stacks of `ProgramNameTable`, markers among the variables |
| `pos` | `ProgramPosData`: `lbl_id`, `lvl`, `rbp_offset`, `code_block_id` |
| `ret` | what `compileProgram` returns: 1 once an error was reported |
| `compiling` | running, compiled, undefined (an entry of a name that was not found is read), or overflow |

Every `compile*` function is one action or, when it does something behind a
call, several: `compileCodeBlock`, `beginCodeBlock`, `endCodeBlock`;
`compileIf`, `branch`; `compileWhile`, `loop`; `compileFuncDef`, `funcHeader`.
An action takes the first frame, runs it to the next call and puts the calls it
makes in front.  A condition is handed back through a pointer into the frame of
the branch or loop that asked (`Told`), which is why `cond` may keep what an
outer caller put there.  `emitRest` writes what a function has left when only
instructions follow.  A function that reports an error returns 1, which its callers
combine with their own result, so the model keeps one `ret` for the whole program.
A recursion without end runs into `MaxCalls`, a bound of the model that stands
for the size of the C++ stack (`overflow`).  `expr/`, the type of the tree, is
modelled by the kinds of nodes the back end tells apart.

In three places the back end reads what is not there and the model ends in
`undefined`: an unknown name is reported and its entry used all the same; so is a
missing target of an assignment, whose text is read for the report; and so is a
missing expression that is asked for a value.  (The target NULL, which is to
drop a value, emits `INP` and so reads a number instead; the program goes on.)

What is only logged leaves `ret` as it was, and so do the values that are not
there: see `lapses` below.  `compileMiscOp` ends in `return false`, which is 0,
so the errors of the operand of a pointer that is read are forgotten
(`derefValue` puts `ret` back to what it was before the operand).

### Compiler

`PipeStep` is the loop of `main_tree.cpp`: `compileProgram` until it returns,
`translateEmitted` on one instruction after the other, then the passes of
`Linking`.  What the back end returned is not looked at, as in the code
(`main_tree.cpp:46`).  `translateEmitted` has all the ways in which an
instruction may end the translation; of these, the programs of the run use
`reject` and `abort`.

Two variables are not in the program.  `depths` notes the account (the values
and variables of the block the code is in) at each jump and at each label.
`lapses` notes where the back end takes something that makes no sense and does
not count it as an error:

| kind | what happened | for example |
|---|---|---|
| `value` | a value is asked of what leaves none: a statement, a minus with one operand, the keywords TEMP, NULL and BAD (`compile_backend.cpp:137-158`) | `a = TEMP` |
| `name` | a name is used outside of its function: a variable around the function, or a parameter, a variable or a function behind it | `def a; f() {a = 5}` |
| `registers` | a function has more parameters than registers (`genExecCode.cpp:56,72`) | seven parameters |
| `error` | an error that was reported is forgotten (`compile_backend.cpp:640`) | the value of `*g()`, no function `g` |

`Compiles == ret = 0 /\ lapses = {}` is the premise of `GeneratorAccepts`,
`JumpsAgreeOnDepth`, `AccessesFindVariables` and `CompiledVarsStay`: none of
them holds of every program with `ret = 0`, since nothing keeps what a lapse emitted from
the generator.  `CompiledPrototypesResolve` and
`CompiledFieldsResolve` need no more than `ret = 0`, and `NamesNest`, `LabelsUnique`
and `FlagsReachJumps` hold of every program.

### State and actions of ElfFile

| variable | code |
|---|---|
| `sections` | `out->sects`: permissions, kind, entry mark and size of each |
| `perm`, `pass`, `visited` | the loop over permissions, which of the two inner loops runs, and how far it is |
| `segs`, `segUsed` | the program headers behind the first, and `seg_used` |
| `offs`, `addrs`, `memAddr`, `fileOff`, `entry` | `sect_offs`, `sect_addr`, `mem_addr`, `file_offset`, `entrypoint` |
| `stage` | how the call of `writeElfFile` stands |

`openSegment`, `passSection`, `placeInitialised` are what the first inner loop
does with a section, `placeRest` and `refuseRest` the second, `nextPass` goes
to the next loop, `finish` is the rest of `writeElfFile`, any of whose writes
may fail.

### Order and composition

`ExecOutput` EXTENDS `CompilerOutLang` and `X86Codes`, `Linking` EXTENDS
`ExecOutput`, and `Compiler` EXTENDS `Backend` and `Linking`; `NB == INSTANCE
NestedBlocks WITH blocks <- Blocks` maps the contexts to abstract blocks
(kind, values owned), and `KeepsBlocksApart == NB!Spec` is checked as a
property and proved.  `ElfFile` stands alone: it reads of an output only what
its constant `Outputs` gives it.

## 3. The runs

A stream is `Prefix` followed by up to `MaxInstrs - Len(Prefix)` instructions,
each any of `Instructions`.  `MaxDepth` bounds the values a block owns.

| run | stream | what it shows |
|---|---|---|
| `blocks` | 3 + 5 of 33 instructions: blocks and frames with 0 or 1 arguments and results, constants, a variable, loads and stores, a call, a section, no generic instruction; depth 3; with what a processor makes of it | BlocksStack, MachineStackTracksAccount, and KeepsBlocksApart by refinement |
| `tables` | 3 + 5 of 17: two names as prototypes, labels, constants, references near and far; blocks, frames and two sections switched to from anywhere, another section of a known name | ScopesNest, PrototypesNumbered, FieldsApart, ReferencesAccounted, VisibleSymbolsKept, OpenSectionsExclusive, LabelsInside, SuspendedSectionsFrozen |
| `all_instructions` | 5 of 40: every kind and form, the failing ones too, from an empty output | TypeOK and three of the properties above over every action |
| `linking` | 2 + 5 of 13: a prototype, labels, a constant, calls, loads and pushed addresses in an entry section, two other sections (one without bytes) or a second entry section; then both passes | LinkTypeOK, LinkedFieldsResolve, FreedBytesUntouched |
| `programs` | 863 syntax trees, through the back end, the generator and both passes | NamesNest, LabelsUnique, FlagsReachJumps, GeneratorAccepts, JumpsAgreeOnDepth, AccessesFindVariables, CompiledVarsStay, CompiledPrototypesResolve, CompiledFieldsResolve, ProgramsEnd |
| `elf` | every array of up to three sections of seventeen kinds that `execOutPrepareCode` can leave, and one with all eight permissions | LayoutDisjoint, FilePlacesMatchMemory, PairsMapped, HeadersFit, EntryPointRight, CopiesInside |

`LinkedFieldsResolve` compares what each operand field holds, when a loader has
put every section at 0 or at 4096, with what its symbol was defined as.  It
asks this of outputs with one entry section whose prototype pass returned true:
several are a finding, and what an undefined label should become is said nowhere.

Why the bounds suffice: a violation of any of the stream properties needs at most two
blocks open, two names, two sections and one instruction acting in the inner
block, and the runs leave five free choices behind the set-up.  Values of 0
and 1 tell every ordering of counts and clean-up apart; the
size-dependent cases of six or seven registers are in
`all_instructions` and `programs`, and the theorems have no bound on
their streams (except for the 16 slots of `MachineStackHolds`).

The programs of `programs` are built from a definition of a function, a
definition of a variable and two free statements: every pair of simple
statements; every branch and loop over six conditions (comparisons, values, a
negated and a combined condition) and six bodies; pairs of nested branches and
loops behind a function with a body; uses of names behind their block; recursive
calls, functions that call each other and one defined in another; values handed on by a
chain of assignments; and every error the back end reports, alone and followed by more code.
`Senseless` are the programs that compile with `ret = 0` although they make no sense: each
way to ask for a value that is not there, where there is a variable to lose,
where there is nothing at all, and in the condition of a loop; names outside of
their functions; six and seven parameters, and a list of parameters that is none;
an unknown keyword; an error behind a pointer; and a call to a second
function, of which `memadd` may report an overflow.
So every action, early return and error path of `Backend` runs, next to what it
could disturb.  No program without endless recursion needs forty frames (`MaxCalls`)
or owns sixteen slots (`MaxDepth`).

The kinds of `elf` have sizes below, at and above a page, all four fills,
permissions alone and shared, and empty sections; three sections are enough for a segment
with something between two others, and for two segments.

Every property is broken by a named slip of the code (the `mutants` of
`PROJECT.json`; the slipped definitions stand beside the real ones in the
modules).

Deadlock is checked in every run: a translation, a pipeline or a writer that is
done stutters explicitly, and an instruction that is not translated ends the
translation in one of the ways listed above, in `Compiler` as in `ExecOutput`.
The two steps not offered are those past a named bound: an instruction by which a
block would own more than `MaxDepth` slots, which a stream may do without (it may
end instead) and no program of `programs` contains; and in `Compiler` `misread`, for
`TABLE SECT`, which the back end does not emit.

### Fairness

`PipeSpec` has `WF_pipeVars(PipeStep)`: the program is one thread that runs one
loop after the other and waits for nothing, so a step that can be taken is
taken.  No stronger fairness is used, and none for a choice: that an overflow is
reported or a cell reads as something is left open.  Under it, `ProgramsEnd` says that every program
whose branches and loops have bodies is linked if it compiles without a lapse, unless
`memadd` stops the generator (which a backward call of a small offset risks, so a program
with a call of a second function may stop there); that one with an error or a lapse
stops somewhere; or ends in undefined behaviour; or is one of the two
that call themselves for ever: a list of arguments (`compile_backend.cpp:324`)
and a list of statements asked for a value (`:677`) pass on the node they got.
It says nothing of what is linked where errors were reported.
Both are found by the run if `CompilesItself` is taken out of the property; they
are stated there, since no text of the repository promises otherwise.
The other specifications are loops over a finite stream or array without a
choice to starve, and have no fairness.

### Where the code departs from what is written about it

Each run takes one short program and finds one property violated.

| run | what happens |
|---|---|
| `zero_byte` | a sum is stored into a variable: the zero byte behind the addition (`instr_bin_codes.h:8`) takes the store's pop and the prefix of its move for its operand, so the sum stays on the machine stack, against the table's own comments |
| `set_to_nothing` | `def a; a = TEMP` compiles, and its STORE takes the slot of `a` for the value (`compile_backend.cpp:137`), against compiler_out_lang.h:92 |
| `two_entry_sections` | `execOutPrepareCode` overwrites an entry's section before it looks up that section's offset (`exec_output.cpp:442`), so the references of all entry sections but one are relocated in the wrong place, against readme.md:77 |
| `parameter` | a parameter is defined as 8 times its number and accessed relative to bp, where the saved bp is (`compile_backend.cpp:345`), against readme.md:71 |
| `empty_branches` | two branches without a body: the prototype of the second takes the cell in which the definition of the first was stored, and the prototype pass stops there, against readme.md:66 |
| `third_section` | the offsets advance by all that a segment holds instead of by the section placed (`createElfFile.cpp:73`), so the third section of a segment lies behind its end, against readme.md:91 |

More departures are part of the model without a run of their own:

* An operation may take a variable's slot for a value.  The back end emits no such code
  for a program without an error or a lapse (`CompiledVarsStay`); for `a = TEMP`, `a = NULL`,
  `a = BAD` and a statement in a value's place it does, with `ret = 0`.
* A minus with one operand passes the test for operands and is compiled like one with two: it takes a
  value nobody left.
* The names of parameters, and of what a body without a block defines, stay
  known behind the function; and a function sees the variables around it:
  `def a; f() {a = 5}` compiles with `ret = 0` to an access relative to the bp of
  f's frame, although readme.md:68 says "stack frames invalidate any variables
  defined before".  `AccessesFindVariables` holds of programs without this lapse.
* The clean-up of 128 to 255 bytes is written with an 8 bit immediate that the
  processor sign-extends (`genExecCode.cpp:245`), so at the end of a block with 16 to
  31 slots to drop the stack pointer moves the wrong way (`addRspMoveSlots`).
* `return false` at the end of `compileMiscOp` forgets errors
  (`compile_backend.cpp:640`), and 'Bad elem in func args' (`:349`) is only logged.
* The pop of an indirect conditional jump's argument is skipped when the jump
  is not taken.  The back end emits no such jump.
* The machine code: zero bytes behind generic instructions and inside of jumps,
  where the displacement is read one byte too early; `enter` with nesting level
  1; a move of a large constant without REX.W; memory operands without bp; and
  "xor rax, rax" (`genExecCode.cpp:58`), of which one byte of three is written, a harmless
  prefix.  See the section on `Machine`.
* LCONST of an open prototype pushes its number and records no reference, and a
  variable in a section gets a header eight bytes too short (`misread`).
  Nothing in the repository emits either.
* RETCB jumps to the label EOCB1, which no block defines
  (compiler_out_lang.h:87 says returnable blocks do), so it is refused unless a
  program defines that label itself.
* A condition that is no comparison is tested, but the caller's condition stays
  "never": such an `if` skips its body and such a `while` never loops.
* A call with two arguments is a list of two, and never compiled to an end.

## 4. What is proved

The proofs about `ExecOutput` are for every `Prefix`, every set `Instructions` and all bounds,
from one assumption: `StreamAssumption` says that the stream is made of
instructions the emit functions can write and that the bounds are naturals.
Those about `ElfFile` are for every set of outputs, from `OutputsAssumption`:
an output is a sequence of sections with permissions, a kind and a size.

`ExecOutputProofs` proves `Spec => []Inductive`, where

    Inductive == TypeOK /\ BlocksStack /\ WithinDepth /\ InsideSects
                 /\ OpenSectionsExclusive /\ ProtosNumbered /\ TargetsNumbered

`TypeOK` alone is not inductive: that `stk_size_curr` stays a natural number at
the end of a block needs `BlocksStack` (the block around it owns at least
what it did) and the argument check; `MaxDepth` bounds the instruction, not
the state, until `WithinDepth` is added.  `OpenSectionsExclusive` needs
`InsideSects`, since a block inherits the section of the block around it.
`PrototypesNumbered` splits into two halves kept apart, one of the symbols and
one of the references, because different actions disturb them.  The proof
first shows that a step has one of eight shapes (`Shapes`), so that the eleven
plain instructions are one case, and then has one lemma per part of the
invariant and one step per shape.  The lemmas are about any instruction the
emit functions can write (`CoutInstrs`) and any step on one (`Takes`), so that
they serve for a bounded stream, for the passes behind it and for what the back
end emits alike.

* `TypesHold`, `BlocksStackHolds`, `OpenSectionsHold`, `PrototypesNumberedHolds`:
  the checked invariants of these names.
* `BlocksRefine`: `Spec => KeepsBlocksApart`.  Initial states
  map to `NB!Init`; each shape maps to Work, Reserve, Open or Close, or leaves
  the blocks alone.

`ExecOutputProofs` also proves `Spec => []Tables` beside `Inductive`, where

    Tables == ScopesNest /\ LabelsInside /\ FieldsApart
              /\ ReferencesAccounted /\ PointsInside
              /\ EntriesOnce /\ CellsAgree

What an instruction does to the symbol table is one of four things, whatever
its kind (`SymbolEffects`): the table stays, an entry of the open level is
added, a prototype is filled in, or the entries from some place on are dropped.

* `ScopesHold`, `VisibleSymbolsHold`: entries stand in the order of their
  levels, so that dropping from the end drops those of the block and no others.
  A filled prototype keeps its level, which is what keeps that order when a
  label of an outer block is defined inside.
* `LabelsHold`, `FieldsHold`: sections only grow, and a new field lies in what
  the section grew by.
* `ReferencesHold`: a field is entered in `sym_pre_tbl` or `relt` in the step that
  writes it.  A prototype's number is not 0 (`ProtosNumbered`), so a field
  of an open prototype is never taken for one that is resolved already.
* `SuspendedSectionsHold`: only the innermost block's section is written to,
  and by `OpenSectionsExclusive` it is no other open block's.

The last three are there for the linking passes: labels, also those in the cells
of prototypes, name existing sections (`PointsInside`), no two entries of a table
are for the same field (`EntriesOnce`), and the cell of a prototype that was
defined holds what it was defined as (`CellsAgree`).

`MachineProofs` proves `MachineStackHolds`: under `NoSlips`, the machine stack
follows the account in every open block, one slot further in a function frame
and in the blocks that share it, as long as the processor reads the code as it
was written.  `NoSlips` is what the stream has to keep clear of: generic
instructions (behind the first one the zero byte decides), blocks of 16 slots or more
(whose clean-up moves the wrong way), a jump that is never taken with an argument (no code is
written to pop it), and a section's end that hands on results (they would be
pushed in the other section's code).  Code with jumps, large constants and
accesses without bp is excluded by the property itself (`astray = {}`).  So the
theorem is about the part of the bookkeeping that is the generator's own: operands,
variables, registers of calls and of blocks, frames and clean-up.  Every program the
back end makes has generic instructions (it ends in END), and about these
the project claims no agreement; `zero_byte` shows that there is none.  The
invariant is `Tracks`: how far the stack pointer is beyond the account of a context
is a function of its kind and of the context around it, so that the ends of
blocks, which clean up what the account says, lead back to the outer block's place.

`LinkingProofs` proves `LinkSpec => []LinkInductive` through both passes: while translating, `Inductive` and `Tables` hold; behind that,
every entry still to come names an existing section and cell, and every entry
section is among the merged ones.  `FreedBytesHold` follows for one entry
section: the first entry that lies in it takes its mark away, and behind that no
entry is found to point into it; an entry that still finds the mark lies in
another section, whose bytes are where they were.

* `LinkTypesHold`: `LinkTypeOK`, from `LinkTyped` beside `LinkInductive`.
* `LinkedFieldsHold`: `LinkedFieldsResolve`.  The invariant is `FieldsFollow`: in
  every phase, the numbers in the fields and the entries of `relt` account for
  what the fields stand for,

      Accounts(numbers, table, data, where) ==
        /\ DOMAIN numbers = {where[f] : f \in DOMAIN data}
        /\ \A f \in DOMAIN data : numbers[where[f]] = data[f].val - BehindField(f)
        /\ EntriesOf(table) = {the entry of f : f depends on where a section is loaded}
        /\ NoneTwice(table)

  where `Resolved` is what a field stands for so far (nothing, for a prototype
  the first pass has not come to) and `Where` the place of its number (in the new
  section, for the fields of the merged one).  The prototype pass resolves one
  field and adds an entry exactly if the field depends on where its label's
  section is loaded; the merging moves numbers and entries in step.  At the end
  the loader's sum over the entries at a place has one term or none, because no
  entry is listed twice: sums over finite sets are computed in `BasicLemmas` by
  the least set for which the computation would fail, since the library's
  induction is out of reach.

`ElfFileProofs` proves `ElfSpec => []ElfInvariant` and from it

* `LayoutHolds`, `FilePlacesHold`: no two sections share a byte in memory or in
  the file, and bytes are where the mapping of their segment puts them;
* `HeadersHold`: ten program headers suffice for any output;
* `CopiesHold`: every copy stays inside the buffer;
* `PairsHold`: where no three sections share permissions, each lies inside what
  its segment maps, of memory and of the file; it rests on `PlacingHolds`, that
  every section is placed once and in turn;
* `EntryPointHolds`: the entry point is the address of the merged section, for the
  outputs `execOutPrepareCode` leaves (`Prepared`: there is a merged section or no
  section is marked as an entry).

`LayoutDisjoint` alone is not inductive: that a new section meets no old one
needs that everything placed ends before the current offsets (`BehindPlaced`).
`FilePlacesMatchMemory` needs that file and memory advance in step while
sections with bytes are placed (`InStep`), which is why the code makes two
loops, and that no placed section has the permissions of a segment still to be
opened (`PlacedInSegment`).  `HeadersFit` counts a segment for each of the permissions done with
(`SegmentsCounted`), and `CopiesInside` needs that the loops leave no section
out (`PlacedInTurn`).  The second loop adds to the last header without a test;
`SegmentOpened` shows that the first one opened it.  The proof has one lemma
per action, with one step per part of the invariant.

`BackendProofs` proves `PipeSpec => []NamesNest` for any set `Programs`, finite or
not, from `TreesOf(Nodes)`: the parts of a node are nodes, and no name is the
one the code gives its markers ("!base!").  The invariant is

    BackInductive(Nodes) == KnownFrames(todo, Nodes) /\ pos.lvl = Cardinality(Ends(todo))
                            /\ VarsNest(...) /\ FuncsNest(...)

`NamesNest` does not say why a block that ends has a level to close.  That is a
fact about the stack of calls: as many levels are open as there are blocks whose
end is still to be compiled (`Ends`, the places of their frames counted from the
bottom, where pushing and popping above leaves them).  All actions but
`beginCodeBlock` and `endCodeBlock` keep `Ends` and do one of four things to the
tables (`Effect`); `VarsDropped` shows that the last entry `varTableDescendLvl`
keeps is the marker of the level below, because a marker is the last entry of
its level (`MarkersLast`), so that its address is the right one to go on with.

`EmittedProofs` proves three properties of what the back end emits for any set
`Programs`, from three hypotheses: `TreesOf(Nodes)` as above; `TextsOf(Nodes, Defs)`,
which says what stands in the leaves (numbers are integers, names are strings; a keyword may be
anything) and that the list in a definition of a variable consists of
names, since `compileVarDef` reads a name from whatever is no operator; and
`Texts`, three facts about strings that hold in TLA+ but that no rule of the provers gives: the
literals of the modules are strings, labels are, and a label tells its prefix and
its number.  `Texts` takes the place of an induction over the digits of a number.
The invariant is

    Emits(Defs) == /\ emitted \in Seq(CoutInstrs)
                   /\ FlagsReach(emitted)
                   /\ Stacked(todo, ...) /\ Distinct(todo, emitted, pos.lbl_id)
                   /\ a call that has its condition is behind a comparison

* `FlagsHold`: `FlagsReachJumps`.  `Stacked` is about the order of the calls: below the
  call that compiles a condition stands the branch or loop that asked for it,
  and above one that has been told its condition stands nothing, or what is
  still to emit the comparison.  So the comparison is the last instruction when the jump is emitted.
* `UniqueLabelsHold`: `LabelsUnique`.  A label's number is taken from the counter
  long before the label is defined; in between, calls below it on the stack owe
  it (`Owed`: the end of a block, of a branch, or what is left to emit).
  `Distinct` says that every label is defined once or owed by one call and not
  defined, and that none has a number the counter is still to give (`Past`).
* `CompiledFieldsHold`: `CompiledFieldsResolve`.  Since `emitted` consists of
  instructions with headers as the emit functions write them, the pipeline's
  steps behind the back end are steps of `LinkingProofs` (`PipePasses`), and its
  invariants hold of every compiled program, whatever its length.

The proof has one lemma per action of the back end; most actions emit only
instructions that neither define a label nor jump, and push calls that owe nothing
(`PlainEmitted`).

`ResolveProofs` proves `CompiledPrototypesHold`, that is `CompiledPrototypesResolve` for
any set `Programs`.  `PrototypesResolve` does not hold of every stream: the cell
of a prototype is the one behind the one pushed for it, and the next prototype
is noted there.  A definition that comes between the two is overwritten, so the
property is one of the order in which the back end emits, in two invariants.

* `Settles`, of the back end: between the references to a label and its
  definition stands a prototype (`Fenced`).  A label is referenced long before it is
  defined, so its references must be settled, with a prototype behind them
  (`Settled`), as long as a call owes it, or the next call is to begin the
  block whose end is declared first (`Forced`).  `branch` and `loop` are the only calls that
  jump forwards; both push `forcedCodeBlock` as the next call, and it
  declares the block's end before it compiles anything.  Labels in the tables of
  names and the one a loop jumps back to are defined already.
* `Resolving`, of the translation: a definition that was recorded is in the cell
  and is not the newest prototype's, and if a reference waits for the newest
  prototype then no prototype was translated behind it (`NewestWaits`).  A definition
  of the newest prototype while a reference waits for it would contradict
  `Fenced`, and a definition of an older one is in a cell that no later prototype
  takes.

It adds two hypotheses to those of `EmittedProofs`: `FilledBodies(Nodes)`, that every branch and
loop of the program has a body, and `MarkersTell`, that no label's text is "!", that of the
markers in the tables.  `FilledBodies` is not a convenience: the run `empty_branches` is the
program with two branches that shows the property violated without it.

Only model-checked: `GeneratorAccepts`, `JumpsAgreeOnDepth`,
`AccessesFindVariables` and `CompiledVarsStay` of `Compiler`, and all four for programs without
a lapse only.  Each relates the
state of the generator in the middle of the
stream to the calls of the back end that emitted it, which by then have
returned, and would need the shape of the whole emitted stream as an inductive
invariant of the back end.  Liveness (`ProgramsEnd`) is out of the prover's reach.

## 5. Not modelled

* The bytes of the machine code, beyond lengths, what they move and where a zero
  byte cuts into them (`Machine`); where a jump leads a processor; flags behind
  the zero byte of CMP and TST, which the addition it stands for destroys.
  `FlagsReachJumps`, `JumpsAgreeOnDepth`, `FieldsApart` and `CompiledFieldsResolve` are
  properties of the intermediate language and of the recorded fields, and do not
  see these bytes.
* The text of names and literals: no property is about it.
* The growth of `CompilationOutput`, of sections and of the relocation table.
* The width of a field in `relocationEntryApply`: numbers are unbounded, and its
  shift by -1 for fields of eight bytes is left to the plan.
* Failing allocation: the negative returns of the emit functions and of the
  back end.
* Of the ELF writer: the bytes of the headers, the table of names, and the
  relocations it adds to the copies (the sum is `LinkedFieldsResolve`'s, and the
  back end makes no section without bytes to relocate in).
* `varTableGetNewAddr`, which nothing calls, and the text of table entries.
* The JIT runner: its only call is commented out (`main_tree.cpp:66`).
* The dump (formatting), the files and the options of the command line (plain
  input and output).  `main_bin.cpp` is a stub.

## 6. Plan

Done: the core with its blocks and tables proved, the machine stack beside it, the linking
passes and the meaning of linked fields proved, the back end alone (names, labels
and flags proved) and composed with the rest (fields and prototypes proved), the layout of files proved.
Left, in this order:

1. A theorem about the balance of what the back end emits: the part of
   `GeneratorAccepts` that concerns counts of values and open blocks, from a
   running account of the emitted stream and of what the calls still owe it.
2. `ScopedNames`: an abstract specification of nested scopes that both symbol
   tables implement.
3. Capacities and widths at their limits: the growth of the relocation table
   and the overflow tests of `relocationEntryApply`.
