# A TLA+ model of the RISC-V assembler

`riscvass` reads one assembly file and writes one 32-bit ELF relocatable
object. It is a single-threaded batch program; what is hard in it is *order*:
labels are bound when their block ends and not where they stand, references to
labels not bound yet are recorded by number and by hash and patched in a second
pass, a string waits in a global until a later production stores it, and the
sizes in section headers have to follow every push. This project models that
state, from the values of tokens to the bytes on disk and back through the
repository's own dump tool, checks it with TLC on small files and proves the
central invariants for every file with TLAPS.

## 1. Inventory

| Component | Source | State | Operations | What makes it correct |
|---|---|---|---|---|
| Instruction encoding | `src/encoding.{h,cc}`, `src/opcodes.*` | none | `emit_{r,i,s,b,u,j}_type_instruction`, `operator uint32_t`, `deserialize` | a processor decodes the word to the mnemonic, registers and immediate of the source line |
| Opcode tables, range checks | `riscvass.y` 338-367, `src/utils.h` | none | table rules, `is_within_range_*` | no literal truncated in silence, none refused that fits |
| Grammar actions | `riscvass.y` | `currentSection`, `temp_value`, `$1` of the open statement | one action per production, `exit_with_message`, syntax error | directives, labels and instructions compose in any order |
| ELF32: labels, references | `src/elf.cc` 195-386 | `resolved_labels`, `unresolved_labels`, `label_to_addr`, `symbols`, `unresolved_instructions` | `init_label`, `update_label_visibility`, `resolve_label`, `add_to_unresolved_insns`, `_resolve_unresolved_instructions` | both address maps agree, every reference is tracked, the second pass changes only what it recorded |
| ELF32: sections, symbols | `src/elf.cc`, `section.h`, `text.cc`, `data.cc`, `symtab.cc` | `.text`, `.data`, `.symtab`, `section_to_idx`, `sh_size` of each header | `add_to_text`, `add_program_data`, `push`, `get_entry`, `update_entry` | sizes follow contents, `st_value` names its bytes, one symbol per label |
| String table | `src/strtab.cc` | bytes, `sh_size` | `add_string`, `get_string` | an offset handed out names its string for ever |
| Object layout and writing | `src/elf.cc` 434-508, `utils.h` `write<T>` | stream, `sh_offset`, `e_shoff`, `e_shstrndx` | `serialize`, `write_elf` | a linker that sees only the bytes finds every section, symbol name and string; a failed write is never taken for an object |
| Hasher | `elf.h` 32-43 | none | `hasher` (FNV-1a) | a label's hash depends on its name alone; collisions exist |
| Lexer | `riscvass.l` | line counter | one rule per token | a register name and a literal keep their value |
| Command line | `riscvass.y` 410-443, `utils.cc` | file names, files | `main`, `generate_dest_filename` | no file is touched but the output; a failure status means nothing was written |
| Object dump tool | `tools/dis.cc` | none | prints headers and `.text` | shows exactly the program that was assembled, and nothing for a damaged file |

The parser owns one global `ELF32` and calls it from its actions; the two
programs share only the file system. There are no threads, callbacks or
messages, and nothing is persisted but the object file: the hazards are
sequences of productions, stale or doubly kept state, numbers at the edge of a
field, a write that may fail and a reader that checks few of its reads. `PROJECT.json` lists
each at its line with the property that would catch it.

## 2. Modules

```
Words --- Encoding --- Codegen --- Assembler --- AssemblerProperties --- MCAssembler
  |                       |            |                |                    |
  |                       |        (INSTANCE)     (INSTANCE LabelSpec)     Hasher
  |                       |       StringTable     AssemblerProofs --- LabelProofs --- TextProofs
  |                       |            |                 |  +--- TableProofs
  |                       |            |  +------- StringTableProofs, MCStringTable
  |                       |        (INSTANCE)
  +-------- ElfFile <-----|------------+
  |            |          |
  |           Dis         |
  |            |          |
  |        Toolchain (EXTENDS Assembler, Dis) --- ToolchainProperties --- MCToolchain
  |                       |                           +--- ToolchainProofs (with LabelProofs, TableProofs)
  +------- Isa, Lexer --- CodegenCheck --- MCCodegen
           |                  +--- CodegenProofs (with EncodingProofs)
           +--- EncodingProofs (Codegen, Isa) --- AssemblerProofs
```

* **Words** - a `uint32_t` is the set of the positions of its 1 bits. `|`, shifts
  and masks are set operations, exact for all 2^32 values (TLC's integers stop
  at 2^31 - 1) and easy for the provers. `U32` converts an `int`.
* **Encoding** - bit-fields, `operator uint32_t`, `deserialize` and `emit_*`.
  `deserialize` keeps the fields the second pass reads.
* **Codegen** - opcode tables, `is_load`, range checks and the word each
  instruction rule emits. A parsed instruction is a record of its rule,
  mnemonic, register operands, literal and symbol.
* **Isa** - the RV32I formats as a processor reads them, from the manual that
  `encoding.h` names and not from the encoder. External.
* **Lexer** - the values of REG and IMM tokens. A literal is a sign and a set of
  bit positions of any size, so that `strtol`'s clamping and the cut from `long`
  to `int` are what they are in the code. `Registers` is what the REG rules match.
* **CodegenCheck** - one source line: lexed, then emitted or refused, then
  decoded by a processor and compared with the line as it was *written*.
* **StringTable** - `add_string` on the bytes of a table; `stored` is a history
  of the offsets handed out.
* **Hasher** - FNV-1a, with addition and multiplication on words. The runs take
  the hashes of their names from it; an `ASSUME` of MCAssembler compares one
  with its published value and states the collision the `assembler` run relies on.
* **LabelSpec** - the abstract specification of label resolution: by name,
  without hashes, numbers or instructions.
* **Assembler** - the grammar actions driving the ELF32 object (below).
* **ElfFile** - the section headers the constructor of `ELF32` sets up, and every
  byte of the object: `write<T>`, the `serialize` functions, `.shstrtab`, the
  offsets taken on the way and the ELF header written twice. A loop that writes
  entries of one size (instructions, symbols, headers, fields) is `Pack`, which
  gives each byte by its position, so that it can be reasoned about without an
  induction.
* **Dis** - what `tools/dis.cc` reads of a file and prints of it. One Boolean, the
  state of its stream, is carried from read to read.
* **Toolchain** - both programs and the file system: `main`, the assembler,
  `write_elf`, the dump tool (below).
* **ToolchainProperties** - what is claimed of them, mostly through a linker's
  eyes: from the bytes of the file alone.
* **AssemblerProperties** - what is claimed of it.
* **StringTableProofs, EncodingProofs, CodegenProofs, AssemblerProofs, LabelProofs,
  TextProofs, TableProofs, ToolchainProofs** - the theorems.
* **MC...** - names, hashes and instruction sets for the runs.

### Assembler: state and actions

The input is not a variable. Each step consumes one *item* (a label, a directive
or an instruction) chosen freely among those the grammar allows next, so a
behaviour is the assembler on one file and all behaviours together are all
files of up to `MaxItems` items. `pc` says where the parse stands:

| `pc` | meaning |
|---|---|
| `statement` | a new statement may start, or the file may end |
| `label` | `SYMBOL COLON` was read |
| `labelled` | a directive after a label was reduced; the statement's own action is next |
| `body` | inside a block of instructions |
| `resolve` | `_resolve_unresolved_instructions`, one entry per step, then `write_elf` |
| `done`, `exit`, `syntax_error` | the parse was accepted, the process ended by `exit_with_message`, or `yyparse` failed |

A bison action is one step with everything it calls. `SYMBOL COLON directive`
takes two, as in bison: the directive's own action, then the statement's, which
is forced (`labelled` enables nothing else). `EndBlock` is the reduction
`SYMBOL COLON instructions`, where the label is bound. `SyntaxError` is a token
that breaks a statement and may come wherever the parser expects one. The
reductions that end a statement, and the program, are the *default* ones of
their bison states: they happen on a wrong token as well as at the end of the
file. A wrong token after a complete statement therefore is an `EndOfFile` for
the model, and only after `WriteElf` does the parse fail (`pc' = "syntax_error"`).

`std::map`s are functions on the keys they hold; `Put` is `m[k] = v`, and a
lookup by `operator[]` that inserts (in `label_to_addr`, `section_to_idx`) does
so in the model. Three ghosts are kept: the name and the bytes behind a symbol
table entry (`name`, `val`), and `stored` of StringTable, which is computed from
`symtab`. Abstractions: `unresolved_labels` is its key set (its values are
always the hash of the key); `pc_insn_number` keeps -1 for 2^32 - 1; the section
headers are their `sh_size`, the only field that changes before serialization;
`symbols` keeps the two fields that are read or documented; messages are left
out. `offset`, `sym`, `temp_inst`, `op_status` are assigned before use in one
action, so they are not state. The width of a `j` offset is the constant
`JumpBits` (21 in the code) so that a run can reach the range check.

### Toolchain: state and actions

`argv`, `out_filename`, the exit `status` of riscvass, `fs` (paths to bytes) and
`dump`. `Usage`, `CannotOpen` and `SetFilenames` are the three ways `main`
starts; `Assemble` is any step of module Assembler before the object is written;
`write_elf` is its `WriteElf` with the bytes: the file cannot be opened and `fs`
stays as it is, or it is stored whole, or (a full disk) without its last `n`
bytes, `n \in Lost`. `Return` sets the exit status, which ignores what `yyparse`
returned. `RunDis` is one call of the dump tool on any file. A path is a sequence
of names, "." and "/", which is all `generate_dest_filename` looks at; an empty
argument is not modelled.

`dis.cc` includes `linux/defs.h`, which is not in the repository; its structures
are taken to be those of `src/defs.h`, and the host to be little-endian, as the
tool requires. It prints a few fields of the ELF header too, which is left out.

## 3. Runs

Deadlock is checked everywhere except in `strtab`, whose table simply stops at
its bound; the assembler's final states stutter explicitly (`Terminated`).

| Run | Shows | Bounds |
|---|---|---|
| `codegen` | `ArithmeticFaithful`, `MemoryFaithful`, `ControlFaithful`, `RangeCheckExact` | every register by both its names in `mv`, 5 elsewhere; 20 literals at the edges of their fields, 5 beyond an `int` and beyond a `long`; 14 branch offsets of both signs, four of them past what 13 signed bits hold, one a hash; every mnemonic |
| `strtab` | `StoredIntact`, `ReadsBack`, `IInv` | 14 bytes; strings that are prefixes and suffixes of each other, and the empty one |
| `assembler` | labels: `AddressByHash`, `ReferencesTracked`, `AddressesInText`, `BranchesWellPlaced`, `BranchesPatched`, `BindingsStable`, `PatchesConfined`; tables: `OneSymbolPerLabel`, `DataIntact`, `SizesAgree`, `SectionsKnown`, `StrtabSpec` | 6 items, 3 labels of which "zinke" and "altarage" really collide under FNV-1a, `JumpBits` = 3 so that a `j` goes out of range; 2 strings one of which starts with the other |
| `grammar` | `TypeOK`, `ResolvesByName` and `Termination` with one instruction of every rule | 5 items, 2 labels that do not collide, `JumpBits` = 3 |
| `toolchain` | `LinkerView`, `RegionsTile`, `DumpShowsProgram`, `TruncationShowsNothing`, `FailureWritesNothing`, `SourcesSurvive` | 4 items; 7 command lines, among them no argument, a missing source, three and four arguments, an output that is the source; 4 files, among them a longer object of an earlier call and a 64-bit one; 1, 200, 240, 300 or all bytes lost |

Six items are enough for two labelled blocks with a forward and a backward
reference, a redefinition and a `.globl`, which is every pair of operations on a
label, and for two labelled strings with a section change and a `.globl` between
them. The
registers and literals of `codegen` include both ends of every field, one bit
patterns and alternating ones.

`ControlFaithful` follows the offset of a `beq` from the call of
`emit_b_type_instruction` to the processor and says nothing of the label: the
rule passes on whatever `resolve_label` set it to, the number of a bound label or
the hash of another, and neither is a distance (`branch_back` and `branch_target`
below). `DataIntact` is likewise about the offset `Data::push` returned and not
about `st_shndx`, and `LinkerView` about the strings whose symbol is in `.data`;
`data_section` shows that some are not.

`StrtabSpec` is a refinement: with `data <- strtab`, `sh_size <- sh_size.strtab`
and `stored` read off the symbol table, every step of the assembler is an
`add_string` or a stutter.

`ResolvesByName` is another: `bound` is `resolved_labels`, `waiting` the labels
whose hashes the recorded instructions hold, and `answers` what the second pass
has looked up so far. The mapping goes back from a hash to *the* name with that
hash, so it is checked with names that do not collide; `assembler` has the ones
that do.

In `toolchain` four items are enough for a label with instructions and a string
with its symbol, so that `.text`, `.data`, `.symtab` and `.strtab` all grow and every
offset moves; what a longer file adds is covered by `assembler`. The lost
bytes cut the file inside its last section header, inside the first ones,
exactly in front of them, inside a section and down to nothing.

The properties about the bytes of a file ask for `Addressable`: the object is
smaller than 2^31 bytes. Its offsets are 32-bit fields that the code never
checks, so a larger one cannot describe itself; the bound is 2^31 and not 2^32
because that is where TLC's integers end. Every object of the run is far below it.
`RegionsTile` says that each region ends within the file and each byte of the
file is in exactly one region.

`Termination` assumes `WF_vars(Next)`: a process that can take a step eventually
does. Nothing stronger is needed, since nothing else competes with it, and a
file is finite, which `MaxItems` expresses.

### Where the code and its own comments disagree

Seven runs end in a violation, each of a statement made by a comment, a header
or a test file of the repository; `findings` in `PROJECT.json` quotes it.

| Run | The code |
|---|---|
| `manual` | encodes `sub` as `add` (funct7 always 0), gives `ori` and `andi` the wrong funct3, and encodes `ret` as `jalr x0, 1(x0)` |
| `jump_patch` | emits nothing for a `j` to a label not bound yet and patches the next instruction |
| `branch_target` | patches a forward `beq` with a distance that is not the target's |
| `branch_back` | gives a backward `beq` the number of its label's instruction for a displacement |
| `label_start` | binds a label to the last instruction of its block |
| `literal` | cuts a literal to 32 bits before its range check, so 2^32 + 1 passes as 1, and 2^64, clamped by `strtol` first, as -1 |
| `data_section` | gives a string that `label: .section .text` stores the index of `.text`, with its offset in `.data` |

`branch_back` leaves `.globl` out (`NoGloblSpec`), so that its label is bound by
its definition and not by a declaration before it; `jump_patch` looks only at
references recorded in `.section .text`, since elsewhere every number is 0.

Smaller disagreements met on the way, modelled as the code has them and given no
run of their own: a backward `j` holds twice its target's number, not a distance
(`riscvass.y` 307; `encoding.cc` 81 says "PC-relative"); `.globl` before a
definition fixes the label's address (`elf.cc` 198); `sltiu` is an R-format
opcode (`riscvass.y` 339), so it takes three registers and its word is the
manual's `sltu` (no property speaks of it); `sh_info` of `.symtab` stays 1 although every symbol
added is local (`elf.cc` 85 says "last STB_LOCAL index in the symtab + 1");
`section_to_idx` gives `.strtab` and `.shstrtab` each other's index (`elf.cc`
165); `emit_b_type_instruction` is declared `(imm, rs1, rs2)`
(`encoding.h` 141) and defined `(imm, rs2, rs1)`, which the symmetric `beq`
hides; `ELF32_ST_BIND` shifts right where `ELF32_ST_INFO` is meant (`elf.cc` 205),
so no symbol is ever global; `get_section_idx` returns the alphabetical rank of a section (`elf.cc` 189); a
bare `.text` does not change `currentSection` (`riscvass.y` 139-143).

The passing properties are stated so that they describe what the code does
beside these: `BranchesPatched`, for instance, is the distance the second pass
really encodes.

## 4. Proofs

Assumptions on constants, all evaluated by TLC in the runs: the characters of a
name are a C string without NUL (`CharsAssumption`); a hash is a 32-bit word
(`HashAssumption`, no injectivity); `.ascii` texts are non-empty byte strings,
since the quotes are kept (`ValuesAssumption`); an instruction that uses a symbol
has one, and a branch has a mnemonic of its rule (`InsnsAssumption`); `JumpBits`
and `MaxItems` are numbers (`BoundsAssumption`); a line's registers are ones the
lexer matches and an offset is a number (`LinesAssumption`); a command line
has a program name and no empty argument (`CommandLinesAssumption`); a failed write
loses at least a byte (`LostAssumption`).

**StringTableProofs.** `StoredIntact` is not inductive: `add_string` inserts in
front of the table's last byte, so a string whose terminator *is* that byte
would lose it. `IInv` adds `StoredInside` (every terminator lies before the last
byte) and `TableClosed` (the last byte is NUL). `AddStringBytes` says what the
bytes are after an addition, `AddStringKeeps` that whatever was held inside
stays held; the theorems are `TableCorrect` (`[]IInv`), `StoredStaysIntact`
and `ReadersFindStrings`: a scan for the next NUL returns
exactly the string, by uniqueness of the first NUL.

**EncodingProofs.** What shifts, masks and slices do to each bit (`ShlBits`,
`LowBits`, ...), then each `emit_*` function bit by bit (`RBits`, `IBits`, ...),
then what the decoder of Isa makes of it. `FormatsDecode` puts the five formats
together: for *every* operand, whatever its width, a processor reads it cut to
its field, and no field leaks into another. `SignExtended` says when nothing is
lost by the cut.

**CodegenProofs.** The four properties of the `codegen` run for every register
name, every literal and every branch offset. `RuleInv` ties the word to the rule
that emitted it and an exit to the failed check; it is inductive by itself and
holds the operands of the line, so that the rest is about operators:
`RegisterNumbers` (each REG rule gives the number of the ABI; a name stands at
one place of its table), `WordOfInt` (`ToInt` inverts two's complement, proved
byte by byte since the provers have no induction over bits), `NegateValue`
(`strtol`'s minus: below the lowest bit nothing, above it the complement; the
bytes of x and -x add up to 0, 256 or 255 and the carries meet), `LiteralValue`
(the lexer's value of a literal that fits an int is its value, and the range
check accepts exactly the ones 12 bits hold). Theorems: `ArithmeticIsFaithful`,
`MemoryIsFaithful`, `ControlIsFaithful`, `RangeCheckIsExact`.

**AssemblerProofs.** `TypeCorrect`: `TypeOK` is inductive by itself. It says more
than types: a label is at hand whenever an action will use one, every word ever
stored is a 32-bit word, and no symbol used as an immediate is ever resolved.
One lemma per kind of step (emit, drop, exit, record, bind, resolve).

**LabelProofs.** `LabelSteps` lists every way the label maps change: bind a new
label, record a reference to an unbound one, look one up in the second pass.
From it: `BindingsNeverChange`, `AddressByHashHolds` and
`ReferencesStayTracked`. None needs the hash to be injective; collisions only
weaken *which* label of equal hash the address belongs to, which is why
`AddressByHash` is stated with an existential.

`ResolutionByName` is the refinement of LabelSpec. It does assume that no two
names collide: the mapping goes from a hash to the name that has it. It needs
one more invariant, `SecondPass`: the pass starts when the parse is over and
answers references in order, the object is written after the last of them, and
the map by hash holds 0 for every hash that no bound label has (the lookup by
`operator[]` inserted it). Without the last part the answer to a reference that
was never bound could be anything.

**TextProofs.** `TextSteps` lists how `.text` and the list of references change
together: a word is pushed, a label is bound, a branch is recorded with the number it will get and
then pushed, a jump is recorded without a word, the second pass rewrites one.
`AddressesStayInText`, `PatchesStayConfined` and `BranchesStayPlaced` follow
from it and `TypeOK`; `BranchesWellPlaced` is inductive because the pass keeps
opcodes. `BranchesArePatched` needs `PassPatches`: a branch that one entry only
records is a `beq` as long as the pass has not reached it, and from then on has
the displacement of what the map by hash says. A branch that two entries record
(outside `.section .text` every number is 0) is patched twice, and excluded.
An offset beyond 13 bits is cut, since no range is checked; `BranchesPatched`
says what remains of it and that an offset in -4096..4095 is exact.

**TableProofs.** `TableSteps` lists every way the tables change: a word is
pushed, a symbol without a value is stored, a string is pushed and its symbol
stored, the second pass rewrites a word. From it: `HeadersAgree` (`SizesAgree`;
the second pass keeps the length of `.text`), `DataStaysIntact` (`DataIntact`;
bytes are only ever appended, so an offset in `.data` keeps its bytes), `SectionsStayKnown` and `ImplementsStringTable`,
the refinement `Spec => StrtabSpec`. The refinement needs one more invariant,
`NullSymbolKept`: were the symbol table ever empty, the first symbol pushed
would be taken for the null one and its string would not count as stored.
`IndicesStay`: `section_to_idx` keeps the five indices of the constructor
whatever `add_program_data` stores in it, and the symbol of a string gets one of
the six indices there are.
`SymbolsMatchLabels` is `OneSymbolPerLabel` by way of `EntryInv`, which says it
without a cardinality: a label has a symbol from the step that binds it on and
never a second, since both places that push one ask `label_exists` first.

**ToolchainProofs.** `ToolchainRunsAssembler` (`ToolSpec => Spec`): on the
assembler's variables the two programs do nothing the assembler does not, so
every theorem above holds of the whole. `ToolInv` is the order of things in
`main`: the output is named before the parse starts, the files are those at the
start until `write_elf` stores one, and nothing follows the exit status.
`FailuresWriteNothing` is a part of it; `SourcesDoSurvive` adds
`DestinationIsObject`, that `generate_dest_filename` ends every name in `.o`
(the position of the last "." is the maximum of a finite set, which the
well-founded order on the naturals provides).

The rest of the module is about the bytes of the object, for every program and
not only the short ones of the run:

1. *Fields.* `At(f, off, s)` says that the bytes `s` are at offset `off` of `f`.
   `OctetsOfNumber` gives the bytes of a number (a sum of digits, byte by byte),
   `ReadWord` and `ReadHalf` that reading a field returns what was written to
   it, for numbers below 2^31 and 2^16; `WordReadBack` the same for the 32 bits
   of an instruction.
2. *Layout.* `PackedParts` says where each entry of a `Pack` is; with it
   `StreamLayout` follows `serialize` from step to step: each section is at the sum
   of the sizes before it, each header says so (`HeaderFields`), and the second
   writing of the ELF header, over the first, disturbs nothing behind it
   (`HeaderRewritten`). The sizes of `.text` and `.data` come from their
   headers, so this is where `SizesAgree` is needed.
3. *Names.* `.shstrtab` is five uses of `add_string`, so the lemmas of
   StringTableProofs, instantiated, give `SectionNamesStored`; `.strtab` is a
   StringTable by `ImplementsStringTable`, so its `IInv` holds of it
   (`StringsStayIntact`). `NameFound`: a scan from such an offset returns the
   name.
4. *Readers.* `SectionsOfObject`, `SectionContents` and `SymbolRead` say what a
   linker finds, `SectionsPrinted` and `TextPrinted` what `dis.cc` does.
   For a file that lost its end, `CutDump`: either the ELF header cannot be read
   and nothing is printed, or the read of the section headers, which are last in
   the file, fails; then the stream stays failed, every later read leaves zeroes,
   all names are empty and no section is called `.text`.
5. *Steps.* `ObjectStored` is the inductive invariant: after `write_elf` the file
   under the output's name is `serialize` of the tables as they still are, whole
   or without its last bytes, and what the dump tool printed is `dis` of the files
   as they still are. It rests on `SecondPass` (no production follows
   `write_elf`) and `ToolInv` (the tool runs when riscvass has ended).

Together: `RegionsDoTile`, `LinkersFindSymbols`, `DumpIsFaithful` and
`TruncationIsNoticed`.

Only model-checked: `Termination`, since liveness under fairness is out of the
prover's reach. What `hasher` computes (a fold over the characters) is used only
by the runs; the proofs hold for any hash. `OversizedRefused` and the other
properties of the violation runs do not hold.

## 5. Not modelled

* Which characters form which token (flex). One oddity was met: `[\\n]` in
  `riscvass.l` 27 is the class of a backslash and the letter n, so a lone `n`
  vanishes from the input.
* Messages, line and column counters, what `dis.cc` prints around the numbers,
  and `print_content`, `print_instruction*`, which only print.
* Functions without a caller: `Data::push` of integers, `Data::get_entry`,
  `Section::insert`, `symbol_resolved`, `stype32_t`'s `deserialize`.
* Unused constants and the 64-bit structures of `defs.h`, and the opcodes of
  `opcodes.h` for which the grammar has no rule.
* Concurrent calls of the programs, and files changed by others meanwhile: the
  code handles neither.

## 6. Plan

1. *(done)* Encoding, Codegen, Isa; StringTable; Assembler; the first proofs.
2. *(done)* ElfFile, Dis, Toolchain; Hasher; Lexer; LabelSpec.
3. *(done)* Proofs: encodings, one instruction from its line to its decoding,
   the second pass, symbols, label resolution by name, the command line.
4. *(done)* Proofs: the bytes of the file, the object as a linker and as the dump
   tool read it, whole and cut short.
