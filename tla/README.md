# Slice-N-Splice: a verification project

Slice-N-Splice is a C++17 library for taking executables apart: RAII wrappers
for file descriptors and mappings, a loader that maps an ELF file and gives out
views of its tables, and the structs, enums and name tables of ELF and (in
outline) of other formats. `main()` is empty; there are no threads. What makes
the code hard is not concurrency inside the process but ownership across moves,
partial failure in constructors, arithmetic at boundaries, and a mapped file that
another process may change at any time.

Paths below are those of the repository (`src/include/fd_t.hh`, ...).

## 1. Inventory

| component | state | operations | interacts with | hard part |
|---|---|---|---|---|
| `fd_t` (`include/fd_t.hh`) | `fd`, `eof` | constructors (default, adopt a descriptor, open), move, swap, destructor; `read`, `write`, `seek`, `length`; reads and writes of arrays; `map` | kernel; gives its descriptor to `mmap_t` | ownership through moves; short and failing calls; the sticky `eof` |
| `mmap_t` (`include/mmap_t.hh`) | `fd`, `addr`, `len` | constructors, move, swap, destructor; checked `at`/`[]` | kernel; made by `fd_t::map`; views point into it | a failed `mmap`; the three members must move together |
| `elf_t` (`include/elf.hh:2130`) | path, `_file_fd`, `_file_map`, copy of the header, two spans and a pointer into the map, `_constructed` | loading constructor (`noexcept`), default constructor, implicit moves, accessors, `section_name` | `fd_t`, `mmap_t`, `span`, the structs | checks now, uses later; nothing locks the file; implicit moves |
| `span`, its iterator (`include/span.hh`) | pointer, length, index | checked index, clamped iterator arithmetic | `elf_t` | wrap-around at 0 and at the largest `size_t` |
| `utility` (`include/utility.hh`, `utility.cc`) | none | `enum_name`, `enum_value`, `extract_flags`, `extract_flag_pairs`, byte swaps, units | every table | aliases, masks of several bits, the zero entry |
| ELF enums and tables (`elf.hh:53`, `elf.cc:18`) | constant | `operator <<` | `utility` | tables must agree with enums |
| ELF structs (`elf.hh:1047`) | plain members | accessors; packing of info words | `elf_t` | shifts and masks; sizes |
| `elf_hash` (`elf.cc:5`) | none | hash of a name | - | carries into and out of the nibble that is folded |
| `zlib_t` (`include/zlib.hh`) | two streams, each with `_eos` | constructor, implicit copies and destructor; `transform` is a stub | zlib | one of two initialisations fails; streams are never ended |
| Mach-O, XCOFF | plain members, tables | accessors | `utility` | as above |
| a.out, COFF, ECOFF, PE, OS/360, command line, `main` | - | stubs | - | nothing yet |

What makes each correct:

* `fd_t`, `mmap_t`: every descriptor and page has one owner, is given back exactly
  once and by its owner's destructor, survives every move, and none leaks, also
  when `mmap` fails; a failed mapping takes no page beyond its length from address 0;
  the end-of-file flag is about the descriptor it travels with.
* `fd_t` I/O: a true read is whole and contiguous; the end is reported only at
  the end and is then final; an array that was written is not denied.
* loader: a well-formed file that does not shrink loads without a throw or a fault and
  gives exactly its tables; a refused one leaves a blank object; damage is
  survived except in the ways stated.
* `span`: a position stops at either end of its view, an access is answered exactly inside,
  and a range-for visits what it began with, in words that wrap.
* the structs lie on the fields of the file, and a packed word keeps its two fields.
* `elf_hash`: the bytes of a name go into a register of seven nibbles, and none is lost
  before the fold.
* `zlib_t`: `_eos` tells of the stream beside it.
* the searches and the flags: they agree with their tables for every argument.

## 2. Modules

| module | what it is |
|---|---|
| `Handles` | `fd_t` and `mmap_t` objects over the kernel's descriptor table and page map |
| `UniqueOwnership` | what they promise about descriptors; `Handles` implements it |
| `HandlesProofs` | theorems about `Handles` |
| `FdIo` | reads, writes and seeks of one `fd_t`, call by call |
| `FdIoProofs` | theorems about `FdIo` |
| `ElfLoad` | the loading constructor of `elf_t` step by step, edits of the file by another process, later accesses through the views; it implements `ElfObj` (of one object) and `Handles` (of its two members) |
| `ElfLoadProofs` | theorems about `ElfLoad` |
| `ElfObj` | `elf_t` objects: loading in one step, default construction, implicit moves, setters, destruction; it implements `UniqueOwnership` too |
| `ElfObjProofs` | theorems about `ElfObj` |
| `EnumTables` | the enumerations of the formats and their name tables, as data |
| `EnumNames` | `enum_name` and `enum_value`, entry by entry, over any tables |
| `EnumNamesProofs` | theorems about `EnumNames` |
| `Flags` | the bit operators of flag enumerations, `extract_flags`, `extract_flag_pairs`, over any tables |
| `FlagsProofs` | theorems about `Flags` |
| `Span` | `span`, its iterator and a range-for, in a `size_t` that wraps |
| `CheckedView` | what they promise, in numbers that do not wrap; `Span` implements it |
| `SpanProofs` | theorems about `Span` |
| `ElfHash` | `elf_hash`, one byte per step, in words of 32 bits |
| `NibbleRegister` | the hash as a shift register of nibbles; `ElfHash` implements it |
| `ElfInfo` | the info words of symbols, relocations and move records, made and made again |
| `ElfWordsProofs` | theorems about `ElfHash`, `ElfInfo` and `ElfLayout` |
| `ElfStructs` | the members of every struct of `elf.hh`, in both classes, and where a compiler puts them |
| `ElfLayout` | the structs laid out member by member beside the fields of the file |
| `Zlib` | the life of `zlib_t` objects and of what zlib keeps for them |
| `MCHandles`, `MCElfLoad`, `MCElfObj`, `MCEnumNames`, `MCFlags` | instances for TLC |
| `MCElfWords` | an instance of `ElfHash`, `ElfInfo` and `ElfLayout`: one client that is busy with one of the three |

How they compose: `Handles` and `ElfObj` implement `UniqueOwnership` (of descriptors, of files);
`ElfObj`'s `Load` is the constructor of `ElfLoad` in one step, its moves those of `Handles` on the members.
The first is shown, not only said: `ElfLoad` implements `ElfObj` (`ImplementsObjects`: there is an object once the constructor
is done, and what it keeps of the file is one of the outcomes of `Load`, and is so until the process ends). Its members
`_file_fd` and `_file_map` implement `Handles` as well (`ImplementsWrappers`: `Open` is `FdOpen` and `Mmap` is `FdMap`, the file being one page).
`MCElfLoad` supposes (`SizesAreLaidOut`, which TLC evaluates) that the sizes and offsets `ElfLoad`
is written with are those that `ElfStructs` lays out; `EnumNames` and `Flags` run over the
tables of `EnumTables`.

Operators whose comment begins with *Faulty* are not part of any specification:
each is a plausible bug, and putting it in the place of the operator after it makes TLC
find a property violated (`PROJECT.json`, `mutants`).

### Handles

State: `fd`, `eof`, `addr`, `len` are the members of that name, as functions of the
place an object lives in; `alive` are the places with a constructed object;
`open` and `mapped` are the kernel's; `foreign` are descriptors of the rest of
the program; `sawEnd` and `swept` are history. There is one action per constructor, for move
construction and assignment, `map()`, the read that hits the end, and the two
destructors, plus a client's own `open` and `close`. Descriptor numbers are reused,
`open` and `mmap` may fail, mapping lengths include 0. A place whose object was
destroyed has its members reset in the model, which nothing in the code can see.

Preconditions on clients: a wrapper is given only a descriptor that nothing
else owns, and nobody closes a wrapper's descriptor behind its back.

`~mmap_t` calls `munmap(addr, len)` in any case, so after a failed `mmap` it unmaps `[nullptr, len)`, of whatever length the
client asked for (`Munmap`; the kernel refuses a range that leaves the address space). Nothing in the code keeps that length
below what is mapped, and neither does the model: `PagesAssumption` only says that nothing is placed at address 0. `swept` is how far from
there failed mappings have been unmapped. What the model shows: such a destructor takes pages of the image and of other
mappings, if they lie that low. The properties about pages say how much, `OutOfReach` being the pages that stay theirs.

### FdIo

Other reads and writes are built on `read(void *, size_t, size_t &)` and
`write(const void *, size_t)`. The kernel answers with an error, with fewer bytes
than asked for, or in full; another process resizes the file between any two calls. The loops over an
array are one action per element. `length()` changes nothing and is part of
`map()` in `Handles` and `ElfLoad`. Contents are abstracted to the place in the file they
came from. What the code does that a caller may not expect, and the model shows: a
read of 0 bytes succeeds even when the system call fails; after a failed element
the later ones are still read, from shifted offsets; `write(T &)` is true for
an error and for a short write, so that after an array write only the offset tells whether the array is there (`OffsetTellsWhole`).

### ElfLoad

One action per call or statement of `elf_t(path)`: `Open`, `Fstat`, `Mmap`, the copy
of the header field by field in any order (`CopyHeader`: the memory is shared
and the copy of a struct is not atomic; that one field, an aligned word or half word, is read and written whole is an assumption on the machine), `Pheaders`, `Sheaders`, `Strtbl`. `Edit`
replaces the file's content in place between any two of them and afterwards. A version of the
file is its size, the header's fields and the sections' offsets. An access beyond the
mapping may fault or read a stray word; one on a page beyond the end of the file
faults; between the end of the file and the end of its page it reads 0. The struct sizes
are the real ones of both classes, tied to the structs in `MCElfLoad`. Ends: `done`, `terminate` (an exception
left the `noexcept` constructor), `fault`, and `null name`: `section_name` was called on an
object whose loader had skipped the table (`NullName`).

Not in the model: the magic number and the class are not checked by the
loader, so a version has neither; `readonly` is ignored by the code.

What the code does that the model shows: a file shorter than a header loads, with the
missing fields 0; `shstrndx` is compared with the file's length, so an index between the
number of sections and that length ends the program; a header edited during
the copy can combine any fields of several versions, so that an edit from one good file to
another can end the program too (a count of 3 sections copied before it, index 11 of 12 sections after).

### ElfObj

`elf_t` declares no move operations, so the implicit ones apply, member by member:
the path is moved, the descriptor and the mapping are moved by the operators that
`Handles` models (construction takes, assignment swaps), and the header, the two spans,
`_strtbl` and `_constructed` are copied. A moved-from object therefore keeps copies of views
into a mapping that is no longer its own. `Load` is the constructor of `ElfLoad` in one
step, ending refused or loaded. `disturbed` is history: the objects that were moved
from, or had a member replaced by a setter, since they were last constructed or
assigned to; the properties promise nothing of them but that they hold what they own once.
That `Load` has the right outcomes is `ImplementsObjects` of `ElfLoad`. In the run only `sheaders` is set, since the members with a setter are alike.
What `section_name` does on an object without a string table is in `ElfLoad`.

### EnumTables, EnumNames

`EnumTables` has every enumeration that has a table (`x_t`) and every table that is
defined (`x_s`), entry by entry. What the searches can tell apart of a name is whether it is
equal to another, so a name is the number of the first entry that has it. An array
declared longer than its list of initialisers has entries with value 0 and a null
name at its end (`Padding`): `elf32_dyn_tag_s`, `elf64_dyn_tag_s`, `xcoff_opthdr_flags_s`.
`mach_filetype_s` is declared in `macho.hh` and defined nowhere, so it is no table here.

`EnumNames` runs the two searches one entry per step: a client asks for the name
of a value, the operators `<<` do no more, and then for the value of that name. Meeting a null
name ends in `crash`: a `std::string` made of one, or a comparison with one.
What the code does that the model shows: of two values with one name the second is read
back as the first; reading `"UNKNOWN"` back from a padded table meets a null name.

### Flags

A word and a flag are sets of bits; the casts in the operators are the intersection
with the bits of the enumeration. A client takes a word (empty, every bit, or bits no flag
has), runs statements `|=`, `&=`, `&= ~`, `^=` with flags of the table or with an integer that is wider,
and calls one of the two extractions, which step through the table. `extract_flags`
keeps values only, written as entries without a name. `last` and `composed` are
history for the properties.

### Span

A `size_t` is a number up to `Max`, and sums and differences of them wrap. The state is a span, an
iterator that a client took from it, and the two iterators of a range-for, which C++ takes once, at its
begin. `Make` assigns to the span at any time, as `elf_t::pheaders(span)` does: an iterator has the pointer
and the length of the span it came from and does not notice. `Move` is `++`, `--`, `+=` and `-=` on the client's iterator; the
operators that return a new one (`+`, `-`, postfix) are the same on a copy, of which the client keeps either. A checked
access that throws answers `Throws`. `asked`, `answer` and `visited` are history.

`CheckedView` has the same requests in integers without a largest one; the refinement is that a wrapped sum
is noticed (`>= _index`) and that `_len - 1` of an empty span does no harm (`|| empty()`).

Not in the model: `back()`, `cbegin()` and `cend()`. Their bodies have the wrong types (a sum of an
element and a number bound to a reference; an iterator of `T` for one of `const T`), so that they do
not compile when instantiated for the structs, and nothing uses them. Dereferencing an iterator at
the end is left to the caller by the code; the range-for never does.

### ElfHash

The state is `hash` at the head of the loop, which is below 2^28 there, and how much was read. After the shift and the
addition a word of 32 bits does not fit in the numbers of TLC, so it is kept as its top nibble (`PushedOut`: what `g >> 28` is) and the
28 bits under it (`Under`). `NibbleRegister` says the same without words: seven nibbles that move up by one, a byte that is
added below with carries, and the nibble pushed out, which comes back by exclusive or. The order of the carry and the fold is
what they must agree in.

### ElfInfo

A word is made of two fields by `make_info`, and later made again with one field changed and the other read back, the way
a relocation is edited. `Format` has the shift, the mask and the width of each struct, as powers of a base `B` (16 in the code; all shifts and
masks are whole nibbles). `sym` and `type` are what the client means the word to hold.
What the code does that the model shows: `elf32_rela_t::type()` and `make_info` have a mask of 32 bits but a shift of 8
(`elf.hh:1504`, `:1507`), so `type()` has the symbol in its upper bits, and a type wider than 8 bits changes
the symbol: a new symbol made with the old `type()` has the old symbol added to it. `carry` is history: what came into the symbol that way.
`FieldsStand` says of a 32 bit relocation that its lower 8 bits stand and that its symbol is the one meant plus `carry`, and of the others that
both fields stand whatever is passed.

### ElfStructs, ElfLayout

`ElfStructs` lists the members of the structs in order, with size and alignment. `ElfLayout` places
them one per step, each at the next multiple of its alignment, beside the fields of the file's format, which is external to the
repository. Two places differ, and the properties name them: the section headers of
64 bit files (see the findings) and the addend of a 64 bit relocation, whose `sword_t` has 32 bits.
A move record has padding at its end in both.

### Zlib

`zlib_t` has two contexts, and the constructor initialises the `z_stream` of each. The class declares no
destructor and no copies, so both are implicit: a copy shares what zlib keeps for the stream, and a
destruction gives nothing back. The state has what zlib has allocated; an initialisation may fail.

## 3. Runs

| run | question | bounds, and why they are enough |
|---|---|---|
| `handles` | ownership, pages, flag, refinement | 2 `fd_t`, 2 `mmap_t`: every relation in the properties is between two objects; 3 descriptors: two owned and one to open or reuse; mappings of 0 to 2 pages in an address space of 4, the lowest of them the image's, so that a page each fits or one fails, and a failed one reaches the image and not what lies above. Symmetry among objects |
| `handles_live` | unwinding gives everything back | one `mmap_t`, 2 descriptors, no symmetry; lengths up to more than the address space has |
| `fd_io` | what answers mean; array calls return | elements of 2 bytes (so that one can come short), 2 elements, files of 0 to 4 bytes |
| `elf_load` | the loader as `elf32_t`; that it is the `Load` of `ElfObj` and uses its members as `Handles` does | 15 versions: well-formed ones of one and two pages and of few and many sections, one per guard of the constructor that it fails; 2 edits, between any two fields, so that a copy can be torn and the file can shrink later |
| `elf_obj` | views stay with their mapping; refinement | 3 objects, so that a swap through a temporary fits, 2 files, so that a wrong one can be told; symmetry among objects |
| `enum_names` | names out and in | all 40 tables with every value, and one value of no entry; nothing is bounded |
| `enum_mapping` | finding: names that are shared | the same |
| `flags` | extraction agrees with the word | all 15 tables of flags; 2 statements for those of up to 12 entries, which have all the masks of several bits, 1 for the others. The theorems have no bound |
| `elf_names_64` | finding: `elf64_t` and the section name table | the versions of `elf_load`. That the loader of an `elf64_t` neither throws nor faults on a well-formed file is proved, for both classes |
| `span` | positions and checks, refinement; a range-for while the span is replaced | `size_t` up to 3, so that sums wrap, also past the place they started from; every length and every step; two arrays, so that a wrong one can be told. All but the end of the loop is proved for every `size_t` |
| `elf_words` | the hash and the register; packed words; structs on fields | names of up to 8 bytes, one more than the register has nibbles, so that a nibble comes round; the bytes at the edges of a nibble and of a byte. Info words in base 2 in place of 16, so that words of 16 digits are numbers of 16 bits; types at and beyond each mask. Every struct in both classes. All is proved without bounds |
| `zlib_raii` | finding: streams that are not ended | one object |

The type invariant of every module that has theorems is one of them; the runs check it where the
state is rich enough for it to go wrong in a way of its own (`fd_io`, where it keeps the loops in their array).

Fairness, where there is any, is weak:

* `FairSpec` of `Handles`: the destructors. Leaving a scope runs them, by the language.
* `FairSpec` of `FdIo`: the steps of an array call that is running. Nothing else runs in its thread, and
  system calls on a regular file return. Only resizing by others interleaves.
* `FairSpec` of `Span`: the body and the end of a range-for that is running, for the same reason.
  A body that may replace the span is what interleaves.

`EnumNames` and `Flags` stop when the call has returned, so they are not checked for
deadlock either. `FdIo` has no deadlock; `ElfLoad` stops when the constructor has ended, no edits are
left and no access faults, so its runs do not check for deadlock. So does `elf_words` when a struct
has been laid out.

### Findings

`elf64_shdr_t` is declared as `elf_shdr_t<elf_types_32_t>` (`src/include/elf.hh:1306`).
As `elf64_t` the loader walks the 64 byte section headers in steps of 40 and reads
the offset where another field is; `elf_names_64` shows a well-formed file
whose `_strtbl` is not its section name string table.

The tables are called mappings between enums and strings (`src/elf.cc:18`). `enum_mapping`
shows a value that is printed and read back as another: `elf_syminfo_bound_s` names
`LowReserve` `"None"` (`src/elf.cc:467`). `elf_machine_s` names `ALPHA` and `FAKE_ALPHA` alike. While
writing the data down we also saw `RelA` with the value 6 of `SymTab`
(`src/include/elf.hh:682`, `:759`) and `Global` with the 0 of `Local` (`:951`), each of which prints under the
name of the other.

`zlib_raii`: the "RAII wrapper" (`src/include/zlib.hh:1`) has no destructor, and neither `inflateEnd` nor
`deflateEnd` is called anywhere.

Seen while modelling, and described by the properties as it is: what a failed mapping's destructor unmaps (`PagesAccounted`), the answers of
`write` (`OffsetTellsWhole`), a header torn between two good ones (`TerminateNeedsBadIndex`) and the mask of
32 bit relocations (`FieldsStand`). Kept out of the properties, which say so where it matters: the width of the 64 bit addend (above); `elf_nhdr_t::type()` returns the name of
itself (`src/include/elf.hh:1948`) and would not compile if it were called; `operator []` of the span's iterator counts from the beginning of the
span and not from where the iterator is (`src/include/span.hh:102`), unlike the STL's that is to replace it.

## 4. Theorems

All are proved by TLAPS for every value of the constants that the named assumptions
allow.

* `HandlesProofs!TypeCorrect`, then two inductive invariants over separate parts of the
  state. `DescInv` (descriptors): a place without an object holds nothing; owners are
  unique; a descriptor is open exactly if it is foreign or some object's; only owned
  descriptors have seen their end; the flag agrees. The first and the fourth are
  what the properties lack to be inductive: construction overwrites the place's `fd`, and
  adoption starts with a cleared flag. `PageInv` says page by page who maps what, as far as `swept` has not reached; its
  hard step is `MapDestroy` on a failed mapping, which takes what it takes from below its length and raises `swept` to it.
  From them: `UniqueOwnerCorrect`, `NothingLeaksCorrect`, `EofFollowsDescriptorCorrect`,
  `PagesAccountedCorrect`, `ClosesAreDestructionsCorrect`, `MappingsAreStableCorrect`.
* `HandlesProofs!ImplementsOwnershipCorrect`: the refinement. `HolderIs` turns the `CHOOSE`
  in the refinement mapping into "fd[x] = d"; each action is then an acquisition, a
  hand-over, an exchange, a release or a stutter.
* `FdIoProofs!TypeCorrect`, `WholeSoFarCorrect`, `OffsetTellsWholeCorrect`, `EofRaisedAtEndCorrect`, `EofIsFinalCorrect`: for any element size and array length.
* The steps of the liveness properties, without their fairness. `HandlesProofs!NoneLeftReleased` and `UnwindingShrinks`: where no object is left everything has
  been given back, and leaving scopes makes no object while each destructor takes one away. `FdIoProofs!LoopAdvances` and `SpanProofs!LoopAdvances`: what is left
  of a loop gets smaller with each of its turns, and nothing that interleaves makes it larger. With the fairness of section 3 these are the arguments for
  `UnwindingReleases`, `CallsReturn` and `LoopEnds`; the conclusion itself is TLC's.
* `ElfLoadProofs!TypeCorrect`, `RefusedIsBlankCorrect`, `TerminateNeedsBadIndexCorrect`, `WellFormedNeverFailsCorrect`, `NamesOfSectionsCorrect`,
  `ViewsAreTablesCorrect`: for any set of versions of the file with the fields of one (`VersionsAssumption`), any stray words, any
  number of edits and any page size of at least a header. The last two are about `elf32_t`, as `Class = 32` in their hypotheses says; of the last, the part about the program headers, `ProgramHeadersCorrect`, is about both, while those about the section headers and the string table are false of `elf64_t` (see the findings). Three invariants
  carry them. `Progress` says what is set at each step of the constructor; `Torn` that every field of the copied header, each for itself, is that of some version or 0, which is all that a header torn by edits leaves to rely
  on; `SteadyInv`, of a file that stays well formed and as long as it was, that the copied header is every version's and both
  tables lie inside the length that was read, from which no access of the constructor or of a client faults (`InsideIsSafe`, `EntriesSafe`).
* `ElfLoadProofs!ImplementsObjectsCorrect`: before it is done and after the process has ended there is no object (`Absent`); the step that ends the
  constructor is `Load` (`ObjectsLoad`), for which `Progress` says what a refused object lacks and `StrtblHasSections` that a string table
  was found through section headers; a fault is `Destroy`.
* `ElfLoadProofs!ImplementsWrappersCorrect`: `WrappersOpen` and `WrappersMap` are the two calls, each with its failure, and every other step is a stutter.
  What it needs beside `TypeOK` and `Progress` is `BeforeMap`: before `map()` the mapping has neither pages nor the descriptor.
* `SpanProofs!TypeCorrect`, `VisitsEachOnceCorrect`, `ImplementsCheckedViewCorrect`: for a `size_t` of any width and any arrays. `WrapShows`: a sum
  of two words wraps exactly if it comes out below one of them. `Saturates` then gives `+=` and `-=` as clamped sums of integers. `LoopInv`: what was visited is
  what lies before `at`, and `stop` is the end of the same view. `NullIsEmpty`, that only an empty span has
  no array, is what the refinement lacks: a reference into a null array would look like a throw.
* `ElfWordsProofs!TypeCorrect`, `FieldsStandCorrect` (`ElfInfo`): for any base, symbols and types. `Packed`: the
  word is `(sym + carry) % Slots * shift + type`. `Masked` takes a type of any width apart into what goes above the shift and what stays below, `Packs` adds the former
  to the symbol (`RemainderByProduct`, `RemainderOfSum`), and uniqueness of quotient and remainder reads both fields back (`ReadBack`).
* `ElfWordsProofs!HashTypeCorrect`, `ShortIsNumeralCorrect`, `LastByteTellsCorrect` (`ElfHash`): for names of any bytes and any length.
  Exclusive or with a fixed nibble is one to one (`XorInjective`), so the fold hides nothing, and so a turn is one to one in the byte (`TurnInjective`).
* `ElfWordsProofs!ImplementsRegisterCorrect` (`ElfHash`): for names of any bytes and any length. A word is the sum of its nibbles by their weights, in one way only
  (`NumberNibbles`, `NibblesNumber`). The addition of a byte is that of nibbles with carries because both are the digits of one sum (`Carries`, `CarriesExist`,
  `CarryEquations`, `AddedBelow`), and the exclusive or of two nibbles, a sum over the bits in which they differ, is the one number that the
  register's fold names by its bits (`XorBits`, `XorIsFold`). `TurnPushes` puts them in the order in which a turn of the loop has them.
* `ElfWordsProofs!LaidOverTheFileCorrect` (`ElfLayout`). `Starts` says where each field of the format begins, in the number of bytes of an address, and `StructFits` that every
  field lies on a multiple of its member's alignment, which divides the struct's largest (`Biggest`), and has the member's size. The inductive invariant `LayoutInv` is that the members placed so far lie on
  their fields; then no member needs padding (`AlignedStays`), and neither does the end (`AlignmentsDivide`), but for the addend of a 64 bit relocation, whose
  missing half is the padding.
* `ElfObjProofs!TypeCorrect`, `OneFileCorrect`, `HeldOnceCorrect`, `ValidIsHonestCorrect`,
  `MovesUnmapNothingCorrect`, `ImplementsOwnershipCorrect`. `HeldOnce` is strengthened with
  `DeadIsEmpty`: a place without an object holds nothing, or a construction could forget a file. A move assignment is a hand-over or an
  exchange of the abstract specification according to what both sides hold (`SwapStep`).
* `EnumNamesProofs!TypeCorrect`, `NameIsTheFirstCorrect`, `ReadBackCorrect`: for any tables. The loop
  invariant says that no entry passed so far matches. `UnsharedIsMapping`: in a table without shared names every value
  is read back as itself, so that shared names are all there is to the finding `enum_mapping`. `CrashNeedsPaddingCorrect` supposes
  `PaddingIsLast` of the tables, which TLC evaluates on those of the library (an `ASSUME` of
  `MCEnumNames`): the null names are at the end and their value has an entry before them.
* `FlagsProofs!TypeCorrect`, `FoundExactlyCorrect`, `ReassemblesCorrect`, `StatementsShowCorrect`: for enumerations of any
  width, any table that begins with the flag 0 and any number of statements. `LoopInv`: what was found
  is what is present in the entries looked at; `WordInv`: a composed word is the union of the flags
  present in it.

Only model-checked:

* that what is fair to happen happens, which is out of the prover's reach: `UnwindingReleases`, `CallsReturn`, `LoopEnds`; their steps are proved (above);
* what TLC finds violated, and `Zlib`, whose only property is such;
* that the tables of the library are of the kind the theorems of `EnumNames` and `Flags` suppose, and that the sizes of `ElfLoad` are those
  of `ElfStructs`: assumptions about data, which TLC evaluates.

## 5. Not modelled

* a.out, COFF, ECOFF, PE, OS/360, the command line, `main`: stubs without behaviour.
* `zlib_t::transform` and `zlib.cc`: it returns 0; the file is empty.
* The byte swaps (`utility.hh`) are one expression each and have no state; the vectors of the repository's test
  determine where every byte goes. The unit literals are one multiplication each.
* One-line accessors of the ELF, Mach-O and XCOFF structs, which read or assign a member. The headers of Mach-O and
  XCOFF are not loaded from a file by any code, so there is nothing yet to lay them over.
* Formatting and wording beyond which names are equal. The magic number and the class of a file, which the loader
  does not look at.
* The contents of files: a read is the place it came from, a version of an ELF file what the loader can tell of it.
