# A verification of openvm-sim

These modules model the interpreter of this repository, which runs RV32IM guests
that use OpenVM's custom opcodes: its memory, its processor, the dispatcher of the
custom opcodes and the arithmetic behind them, the host's input, hint and output
streams, and the ELF loader and command line around it. TLC checks them on small
instances, TLAPS proves the main results for every value of the constants.
`PROJECT.json` is the index: components, runs, mutants, hazards, theorems, and the
source lines each definition stands for.

    tlc -config MC_Base.cfg MC_Base       # one run; see "Runs"
    tlapm MachineProofs.tla               # one module of proofs; see "Proofs"

## The system

The interpreter is one thread. `Cpu::run` calls `Cpu::step` until a step fails or
terminates or the budget is used up. A step fetches a word, decodes it, and either
executes it itself or hands it to the `CustomOpHandler`, which reads and writes
the processor (registers, memory, pc) and the host's `IoState`. There is no
concurrency, nothing is persisted and no message is lost. What is hard is of
another kind: any instruction may follow any other, the host's streams are a
protocol between host and guest that no type enforces, results land in four
different places (memory, register, hint stream, output), arithmetic wraps, and an
error can leave a handler at any depth.

| component | state | operations | correct when |
|---|---|---|---|
| memory (`rv32im/src/memory.rs`) | sparse table of 4 KiB pages | reads and writes of 1, 2, 4 and n bytes, with an aligned fast path | it cannot be told from a flat array of bytes whose addresses wrap |
| decoder (`rv32im/src/decode.rs`) | none | fields, immediates | offsets are even, signs are kept |
| processor (`rv32im/src/cpu.rs`) | pc, x, steps, memory | `new`, `run`, `step` | pc stays even, the budget is exact, errors change nothing, every run returns, results are those of the ISA |
| dispatcher (`precompiles/src/lib.rs`) | an `IoState`, tables | `handle` and its two dispatches | each instruction changes what it should and nothing else, and leaves the right pc |
| host streams (`IoState`) | input queue, hint stream, output | `hint_input`, `read_hint_bytes`, `write_output`; hints replace or append | the guest reads whole entries in order, words are never torn, output is never lost |
| hashes, int256 | none | Keccak-f, XORIN, SHA-256, 11 operations, BEQ256 | results land whole, overlaps behave as the loop |
| modular, Fp2, curves, pairing | static tables | arithmetic to memory, equality to a register, hints to the stream | unknown entries are errors, hints are whole words |
| ELF loader (`elf/src/lib.rs`) | none kept | checks, the loop over program headers | a file is refused or every address holds the byte of the last segment that covers it |
| runner (`runner/src/main.rs`) | none kept | `run`, `info` | the output is printed whole, once, and only after success |
| tools | | converters | not modelled, see below |
| echo-guest, hash-guest | guest programs | | echo publishes the first four words of its input |

Interactions: the loader's segments become the initial memory (`Cpu::new`); `step`
calls `handle` with the processor borrowed; `handle` moves pc unless it finds it
moved; the hint stream is filled by HintInput (clear and push), HintNonQr and
HintSqrt (replace) and HintFinalExp (append), and drained by HINT_STOREW and
HINT_BUFFER.

## Modules

| module | models | state and actions |
|---|---|---|
| `Word` | Rust's u8, u16, u32, i32 | operators; `ByteBits` gives the width |
| `Decode` | decode.rs | an instruction is the record of its R-format fields; all immediates are computed from them |
| `Alu` | the values of exec_op, exec_op_imm, the conditions of exec_branch | operators |
| `Memory` | memory.rs | operators on a page table |
| `MemoryBus` | a client of `Memory` | `pages`, `ret` (what the last load returned); one action per method |
| `FlatMemory` | nothing: the abstract specification of `MemoryBus` | one byte per address |
| `IoState` | struct IoState | operators on a record |
| `GuestReader` | a guest that keeps to the I/O ABI, over `IoState` | phase, length read, bytes read; one action per instruction it issues |
| `StdinQueue` | nothing: the abstract specification of `GuestReader` | a queue of entries, a question and its answer |
| `Cpu` | cpu.rs | `pc`, `x`, `pages`, `steps`, `result` (what `run` has returned); one action per group of instructions |
| `PrecompileHandler` | the dispatcher, every handler, and `run` over both | adds `io`; the next-state relation of the whole interpreter |
| `EchoGuest` | echo-guest's main on that machine | a value for the constant `Decoded` and a segment |
| `Keccak` / `Fips202` | do_keccakf / the permutation by the standard's rules | the buffer, the lanes, the round |
| `Int256` / `Uint256` | the 256-bit operations on bytes / integers modulo 2^256 | cells of numbers, the instruction executed last |
| `ModArith` | mod_inv, extended_gcd, subtraction of BigUints | operators |
| `Modular`, `Fp2` / `FieldCells` | do_mod_op, handle_complex / a field | cells, the IsEq register, the last instruction, how the run ended |
| `SqrtHint` | find_non_qr_openvm, mod_sqrt_openvm, HintSqrt | the loop's variables; one action per round |
| `Curve` / `CyclicGroup` | ecc.rs / a cyclic group of odd order | cells of points |
| `PairingInput`, `Bn254Hint`, `Bls12381Hint` | the residue witnesses, in the exponents of a cyclic group | f, c, u and the variables of the cube-root search |
| `Loader` | load_rv32_elf and the copies of `Cpu::new` | headers parsed, segments, segments copied; one action per header and segment |
| `Runner` | main.rs around the machine with the echo guest | arguments, stage, lines printed, exit status |
| `MC_Arithmetic` | one guest state for the clients of `Alu`, `Int256`, `Modular`, `Fp2` and `Curve` | `chip` says whose instructions a behaviour issues; the moduli, the curve and the size of the wide numbers are constants, `a` and `b` the registers of the client of `Alu` |
| `MC_Algorithms` | `SqrtHint`, the pairing hints and `Keccak`, one to a behaviour | `routine` says which handler runs; the moduli, the groups and the literals are constants |
| other `MC_*` | | instances for TLC |
| `NumberLemmas`, `MachineLemmas` | | lemmas on integers; on words, streams and memory |
| `MemoryProofs`, `GuestProofs`, `MachineProofs`, `LoaderProofs`, `ArithmeticProofs`, `AlgorithmProofs` | | theorems |

How the code's shape is kept:

* **Width.** A byte has `ByteBits` bits, a word four bytes, and there is one
  address per word value, so every wrap of the program is a wrap of the model.
  With one-bit bytes a word has four bits and memory sixteen addresses. Decoded
  immediates keep the encoding's widths and are then taken modulo the word, as
  `as u32` would.
* **Program.** `Decoded[w]` is the set of instructions the word w may stand for:
  one in the program, all of a list in the `MC_*` modules. A behaviour of the
  latter picks an instruction at each step, so a run covers every program of at
  most `MaxSteps` of them (and more: also those that read one word twice and get
  different instructions).
* **Result.** `result.kind` is "running" until `run` returns; then it is "ok", with
  the exit code, one of the five variants of `CpuError`, or "panic", with pc.
* **Two levels of the custom opcodes.** In `PrecompileHandler`, what Keccak-f, SHA-256, the 256-bit, modular, Fp2, curve and
  pairing operations compute is any value of the right number of bytes, and an
  operation that rejects or panics on some operands may do so on any. Everything
  else about them is exact: dispatch, operand addresses that matter, where the
  result goes, what else changes. The build is the default one, all features on.
  The values, and which operands reject or panic, are in the modules of the
  arithmetic, each a client that holds numbers in cells and issues instructions on
  them: small enough to go through all operands, where a machine of small bytes
  could not hold them.
* **Numbers and abstract values.** An abstract specification (`Uint256`, `FieldCells`,
  `CyclicGroup`) says for each instruction, named with its operands, what it
  leaves in the cell; a result right for another instruction is an error. A cell
  of `FieldCells` stands for the class modulo p of its number, and `canonical` for
  the cells whose number is reduced.
* **Exponents.** The pairing hints only multiply, invert and raise to powers in the
  multiplicative group of Fq12, which is cyclic, so an element is its logarithm:
  the product is a sum modulo the group's order. `Bn254Hint` has an order 27 S, a
  prime R, and literals in the relations to each other that those of the source
  are (`Bn254Assumption` states them; each was computed from the source's literals).
  Likewise `Bls12381Hint`. An R-th root, a cube root, a part of order 27 exist or
  not exactly as they do there.
* **Byte loops** that copy a sequence in or out are the operators `write_slice` and
  `read_vec` in closed form. The closed form covers sequences longer than the
  address space (HINT_BUFFER can ask for 4 · 2^32 bytes): the last write to an
  address stays.
* **pc.** `Handled` is the end of `PrecompileHandler::handle`: the next pc is pc + 4
  if the handler left pc where it was.

## Runs

| run | asks | size |
|---|---|---|
| `memory` | does the paged memory refine the flat array, for every width, aligned and unaligned, across pages and across the top? | 1-bit bytes, 4 pages of 4 bytes, 2 addresses, all bytes and halves, 3 words, 2 slices: 8 081 states, all reachable ones |
| `guest_reader` | does the ABI deliver whole entries and exact answers? | 4 entries (empty, padded by 1 and 3, all zeros), 2 answers: 129 states |
| `base` | do types, parity, budget, error atomicity and termination hold for the base set? | 32 instructions, 5 steps: 133 200 states |
| `custom` | do the streams keep their promises under any order of the custom instructions, does XORIN xor, does what fails change nothing? | 42 instructions, 4 queues, 3 steps, all values of every result: 302 171 states |
| `echo` | does the fixture echo? | 2-bit bytes, 7 queues: 309 states, complete |
| `arithmetic` | are the results those that define them, and do the instructions implement integers modulo 2^256, the field, its extension, the group? | below; all sequences: 144 236 states |
| `algorithms` | are the hints true and the witnesses convincing exactly when they should, do the searches end, is Keccak-f FIPS 202's? | below: 109 592 states |
| `loader` | which image does a file give, and does loading end? | 5 bytes, up to 2 headers out of 37, a file for each check: 8 433 states |
| `runner` | what is printed, and does the process end? | 2-bit bytes, every command line, 3 inputs, a guest that ends well and one that fails after revealing: 1 311 states |
| `beq256_in_place` | (violation) is BEQ256 the branch its comment says? | as `base` |
| `hints_append` | (violation) do the modular hints append? | as `custom` |
| `large_shifts` | (violation) does a 256-bit shift by 256 or more give 0? | as `arithmetic` |

The two large runs put several components into one state space. A behaviour of
`arithmetic` or `algorithms` belongs to one of them from its first state on, so the
state spaces add up and do not multiply; the property of each component is about
the behaviours with its `chip` or `routine`. They share the variables that are
the same state of the program (the guest's buffers, the instruction issued last,
the outcome). The refinements are stated step by step: a first state of such a
behaviour is one of the abstract specification, and a step one of its steps.


Why the bounds are enough to meet the cases:

* In `memory`, one address is aligned and the other makes every multi-byte access
  unaligned, page-crossing and (at 13 of 16) wrapping; the slices span two
  pages and, wrapping, three. Two of the three words would read differently in
  another byte order. All page tables that these can produce are reached.
* In `guest_reader` a byte is one bit, so the all-zero entry looks exactly like
  padding and like an underflow, and the answer `<<0,0,1,0>>` like a length.
* `base` needs five steps to load a value, compute an address, store through it and
  branch on what it wrote, with one left to meet the budget. JALR is taken with
  odd and even sums and with rd = rs1.
* `custom` needs three: fill, take, fill again; queues have zero, one and two
  entries and paddings of zero to three. The instructions whose result is any value
  (2^3 to 2^8 of them each) stand at address 0 only: a jump from 4, where the program
  starts, leads there and leaves its return address in x5 or x6; one of them is run,
  and one more of the others after it.
* `arithmetic`, chip by chip:
  * *alu*: every pair of 4-bit words, with 0, the smallest and the largest among them.
  * *int256*: four bytes of four bits have two in the middle, so carries and borrows
    pass through; the bytes 0, 8 and 15 are equal, of either sign and extreme; amounts
    of shifts are all sixteen, whole bytes among them, and (for `large_shifts`) some
    above. One instruction, 81 × 34
    operands, 11 operations, any cell overwritten.
  * *modular*: p = 13 and all numbers below 32, so that a subtrahend can exceed p + a,
    and p and 2 p are divisors. Chains of any length.
  * *fp2*: p = 3, coordinates up to five times p, so b1 can be above p and a difference
    of products far below zero. Chains of any length.
  * *curve*: a group of order 11 over F_7, every pair of its points, equal and opposite
    ones among them; numbers from 7 to 9 are not reduced. The order is odd, as for all
    four curves of the table, and the search of HintNonQr gets past its first candidate.
* `algorithms`, routine by routine:
  * *HintSqrt*: 6 primes, 3, 1 and 5 modulo 8; 97 - 1 has 2^5, so that Round is taken up
    to four times and m falls by more than one; x is every number below p + 20: zero,
    residues, non-residues and numbers above p.
  * *HintFinalExp*: groups of order 378 = 27 · 14, R = 7, and 6210 = 5 · 27 · 2 · 23,
    R = 5, lists of up to 2 points. f has every combination of parts, of order R, 27
    and the rest. A Miller value may be zero.
  * *KECCAKF*: the program's own size, 1600 bits and 24 rounds. All zeros and all ones
    meet every constant, a single one every rotation by itself, the dense buffer the
    nonlinear step.
* `loader`: two headers overlap in either order, touch, wrap at the top (vaddr 14 of
  16), have a size in the file of zero, equal to, below and above the one in memory,
  and leave the file.

Deadlock is checked in `memory`, which never stops. In the others the
system does: the run returns, the guest has failed, the hint is given, the
bound on instructions is reached.

**Fairness.** `PrecompileHandler!Spec` has weak fairness of `Next`: `run` is a loop
in one thread, nothing else can hold it up. `Halts` follows from it and from the
budget; it assumes that one instruction takes a finite time, which the code makes
true except as discussed under "Not modelled". `GuestReader!FairSpec` has weak
fairness of the steps by which a guest goes on with a read it has begun (the
interpreter will execute its next instruction), and none for beginning one.
`Loader` and `Runner` have weak fairness of `Next`, `MC_Algorithms` of the steps of
the two handlers whose loops have no fixed length: each is
a loop of the one thread, with nothing to wait for but, in `Runner`, files that can be read.
The arithmetic clients have none, a guest need not issue another instruction.

**Mutants.** For each property of a passing run there is an operator that changes
one definition as a bug would: addresses that do not wrap, a page inserted anew, a
padding forgotten, a stream not cleared, `<=` for `<` in the budget. TLC finds the
property violated with each of them.

## What the runs found

1. **BEQ256 to itself** (`beq256_in_place`, `precompiles/src/lib.rs:184`). `handle`
   compares pc before and after to learn whether the handler set it. A taken BEQ256
   with offset 0 leaves pc as it was, so it continues at pc + 4, where the comment
   of `handle_beq256` and the BEQ of the base set branch to themselves.
2. **Hints replace** (`hints_append`, `precompiles/src/modular.rs:163`). The
   repository's README says HintNonQr and HintSqrt append to the hint stream
   without clearing (78-79); the code replaces it. The README itself says so at
   202-203, and so does the comment of the function (`modular.rs:160`).
3. **Large shifts** (`large_shifts`, `precompiles/src/int256.rs:101`). The comment of
   `shift_amount` says shifts by 256 and more are defined to return 0, and `shl` and
   `shr_logical` begin with a guard for them. The amount is byte 0 of the operand, so
   the guards are dead, and 256 shifts by nothing. `ImplementsUint256` leaves these
   shifts out (`ShiftsOut`).

Smaller disagreements of comments with the code, which no run is spent on. The
modules follow the code:

* `modular.rs:9` says IsEq writes a byte at [rd]; the code (`modular.rs:212`), its
  comment at 208 and the repository's README (44, 198-201) say the register, and so
  does `ImplementsField`.
* `modular.rs:7` promises a result for all operands; SubMod (`modular.rs:190`) panics for
  b > p + a. `arithmetic` shows that besides it only Fp2's subtraction and division
  (by b1 > p) can, and that no sequence that starts from reduced numbers gets there.
* `bn254_hint.rs:87` says m_inv is an inverse modulo p^12 - 1; it is one modulo
  (p^12 - 1) / r. `algorithms` shows why that does no harm.
* `cpu.rs:56` and `elf/lib.rs:36` say the BSS is zero; where it lies over the file bytes
  of an earlier segment, these remain. `ImageOfFile` leaves such addresses out; the
  lemma `LastHeader` says what they hold. Linkers write no such file.
* `main.rs:32` says `--input -` stands for an empty input; it reads the standard input.
  For "-", `EchoPrinted` says only that what the guest revealed is printed.

`guest_reader` shows when the second does no harm: a guest that asks only between
entries and reads answers whole finds the stream empty then (`DrainedWhenIdle`), so
replacing and appending come to the same.

## Proofs

Assumptions are those of the modules, one per module and named. A byte has
ByteSize = 2^ByteBits values, a page has a multiple of four bytes and the address
space is a whole number of pages (`PageAssumption`); segments and slices are made
of bytes at addresses, slices shorter than the address space, stored words are words
(`ClientAssumption`); every decoded instruction has its fields in range
(`ProgramAssumption`); the modulus and pairing tables hold whole words
(`ConfigAssumption`); files are headers with fields in range, over bytes
(`FilesAssumption`). Those of the arithmetic are facts about the literals of
the source: a number of 32 bytes has as many bits as a byte has values, so that the low
byte of an operand counts all its bits (`Uint256Assumption`); a modulus is prime (`ModulusAssumption`, `PrimesAssumption`, which also
has it odd), that of an extension or of a curve is 3 modulo 4, a curve has no point of
order two (`CurveAssumption`; the groups of the four curves of the table have odd
order), and the literals of the pairing hints are related as they were computed to
be (`Bn254Assumption`, `Bls12381Assumption`; `PairingAssumption` has the order R of
the points prime). No assumption mentions a particular size, so the theorems cover the
program's 8-bit bytes, 4096-byte pages, tables and 254-, 256- and 381-bit moduli as
well as the instances TLC explores.

The proofs need induction over data: along an exponent, a recursion, the bits of a
word. The library's theorems on induction take an operator and cannot be used
with the provers at hand. `NumberLemmas` has `Induction` for a *set* of naturals
instead, from which follows `CourseOfValues`: a function whose value depends on
smaller arguments only exists. What a recursive function of the model computes is
then shown for any function that obeys the same equation.

| theorem | property |
|---|---|
| `MemoryTypeCorrect`, `MemoryIsFlat` | `TypeOK` and `ImplementsFlatMemory` of `MemoryBus` |
| `StreamDrained` | `DrainedWhenIdle` |
| `ReadsServed` | `NoUnderflow` |
| `ReaderIsQueue` | `ImplementsStdinQueue` |
| `MachineTypeCorrect` | `TypeOK` of `PrecompileHandler` |
| `StaysEven` | `PcEven`, with `Image` irrelevant and Entry even |
| `BudgetKept` | `StepBudget` |
| `HintsStayAligned` | `HintAligned`, from the whole-word tables |
| `MachineStopsInPlace` | `StopsInPlace` |
| `QueueInOrder` | `StreamsInOrder`, with `RoundTrip` for the length's bytes |
| `OutputGrows` | `OutputOnlyRevealed` |
| `XorinXorsSource` | `XorinXors` |
| `EchoIsPrinted` | `EchoPrinted`, where `EchoLoaded` |
| `LoadsImage` | `ImageOfFile` |
| `HighWater` | `HighWaterAbove` |
| `ProductIsExact`, `DivisionFits`, `ShiftsAreScaling` | `ExactProduct`, `DivisionIdentity`, `ShiftsScale` |
| `WideIsArithmetic` | `ImplementsUint256`, which leaves out `ShiftsOut` |
| `ModularIsField`, `ComplexIsField` | `ImplementsField`, `ImplementsComplexField` |
| `NonResidueIsTrue`, `DecompressionFinds` | `HintIsNonResidue`, `DecompressesPoint` |
| `RoundsRelated`, `RootIsTrue` | `LoopRelation`, `HintTrue` |
| `Bn254WitnessIsTrue`, `Bls12381WitnessIsTrue` | `Bn254WitnessIffOne`, `Bls12381WitnessIffOne` |

**`MemoryProofs`.** `MemoryTypeCorrect` needs no strengthening. `MemoryIsFlat` is the
refinement. It rests on `MachineLemmas`: `WriteByte` says what one byte write does to
every read; a half and an unaligned word are composed of it (`WriteHalf`,
`WriteWordBytewise`); the aligned fast path changes the same four addresses because an
aligned word lies in one page (`AlignedInPage`, the place where PageSize % 4 = 0 and
WordSize % PageSize = 0 matter); and `WriteSliceWrites` does the same for the
closed form of the slice.

**`GuestProofs`.** The properties of the reader are not inductive: that a read is served
in full says nothing of the next one unless it is known what the stream holds. The
strengthening is `ReaderInv`: `QueueInv` (the queue is the list of entries without the
ones taken) and `StreamInv` (nothing is buffered, asked or left in the stream between
entries; behind a HintInput the stream is the frame of the entry in hand; then the length
read is the entry's, and what was read and what is left make up its padded bytes; in
an answer they make up the answer). One lemma per action keeps it; they rest on
`FramedTyped` (what a frame is), `ReadSplits` and `ReadMoves` (a read that the stream
can serve only moves bytes) and `WholeWords` (the words the guest asks for are the
padded ones). `ReaderInvariant` is the invariant, `StreamDrained` and `ReadsServed`
follow from it, and `ReaderIsQueue` is the refinement of `StdinQueue`: only
`EndOfEntry` shortens the abstract queue, by just the entry that was read
(`EntryRead`, `UnreadInOrder`), and a question is answered with its own answer
(`AnswerRead`). They hold for every list of entries shorter than a word can say and
every set of answers made of whole words (`ReaderAssumption`), for `Spec` and so for
`FairSpec`.

**`MachineProofs`.** The inductive invariant is `TypeOK`: values in range are what
every other argument rests on, since an address out of range would be in no page.
On it stands one lemma, `StepShape`: from a state that satisfies `TypeOK`, a step either
*stops* (`Stops`: it sets `result` and nothing else, an error carrying pc) or *goes*
(`Goes`: one step is counted, within budget, an even pc stays even, and the host's
state makes one of five changes: none, popped, took a multiple of four bytes,
got a multiple of four bytes, revealed four). `BaseStepShape`, `Custom0Shape`,
`ModularShape`, `ComplexShape`, `CurveShape` and `PairingShape` establish it
instruction by instruction. The theorems are then short. `XorinXorsSource` is
about one instruction: as long as the destination does not start inside the source behind
its first byte, the loop has not yet written the source byte it reads (`NotYetWritten`,
with wrapping addresses), so each byte is what `XorinXors` says (`XoredBytes`).

The end of the module follows one program all the way, the echo guest in the process of
`Runner`. `EchoPrinted` speaks of the end only; the inductive invariant `RunnerInv`
says what is loaded, read and printed at each stage, and while the guest runs,
`Echoing`: for some n and k, `EchoAt(n, k)`. That is the loop invariant of every
instruction n, k being the words moved so far: the program is still in memory,
the registers hold the addresses, the bytes of the echo that are not in buf yet come
next in the hint stream (`ComesNext`), those moved are in buf (`BufferHas`) and
then in the output. `EchoFetches` says that n is the instruction executed, `AddiSets` to
`UnimpEnds` what an instruction of this program does, `Step01` to `Step23` that
each one leads from its invariant to the next one's, `ProgramKept` that stores to the
stack leave the program alone. `FrameComesNext` is where an input shorter than 16
bytes gets its zeros: the padding first, then `read_hint_bytes`, which fills
up. `LinesMakeText` puts the printed chunks together again, for every `Chunk`. TLC
checked the conjuncts of `RunnerInv`, but for `TypeOK`, on the instance of the run
`runner` before they were proved. `EchoLoaded` is the
premise that the machine holds this program, which may be one that fails at any of
its instructions, with 20 bytes of stack above it, at an address that the one
instruction standing for `la` can load; `MC_Runner` has TLC evaluate it. The theorem
holds for every input, byte size, page size, step budget and length of a line, so
also for a guest that runs out of its budget.

**`LoaderProofs`.** `LoaderInv` follows the two loops. `HeadersInv`: the segments are the
LOAD headers looked at, in the order of the table, each sound, with the bytes of the
file (a function `origin` says whose they are). `MemoryInv`: each address holds what
the last of the copied segments that reaches it put there, or zero. When all is copied
this is `LastHeader`, from which `ImageOfFile` follows (`LoadsImage`); `HighWater` needs the headers only.

**`ArithmeticProofs`**, the instructions that compute.

* *Products and quotients.* The product of the operands in either reading is
  congruent to that of the words (`Congruent`), so all have one lower half, and its
  quotient by WordSize fits a signed word (`ProductBound`), so the upper half is
  not wrapped (`SignedHalves`). For `DivisionFits`, `Truncation` is what division
  towards zero gives, the remainder fits a signed word because it is smaller than the
  divisor (`SignedUnsigned`), and reducing quotient and product to words on the way does
  no harm (`InnerReduction`); the quotient that does not fit and the zero divisor are
  cases of their own (`OverflowParts`, `UnsignedParts`).
* *Shifts.* The model shifts bits, the property multiplies and divides. Both sides
  have the same binary digits (`DigitOfMultiple`, `DigitOfQuotient`, `DigitsAbove` for
  the copies of the sign), and a word is the only one with its digits
  (`WordOfDigits`).
* *Wide numbers.* `WideIsArithmetic` is the refinement of `Uint256` by the loops of
  `Int256`. A number is the sum of its bytes at their places, and the only one with
  these digits (`ValueOfBytes`, `ValueOfDigits`), so it suffices to say what byte i of
  each result is. Addition and the columns of the product are one argument: what a
  carry holds before column i is the quotient of the sum of the columns below by
  ByteSize^i (`AddedDigits`, `MultipliedDigits`, with `SumOfPlaces` for the double sum).
  A borrow is owed below byte i exactly when the lower bytes of b exceed those of a
  (`SubtractedDigits`). The bits of a number are those of its bytes (`BitsOfBytes`),
  which gives and, or and xor, which `Uint256` has on bits; a shift by n moves
  bit j to j + n, and that is bit (j + n) mod 8 of the byte the loops look at,
  the filling with the sign included (`RightByte`, `LeftByte`, `AboveBits`). A comparison
  is decided by the topmost byte that differs (`LessWide`, `LessSignedWide`).
* *The field.* `extended_gcd` obeys its equation and ends with a combination of the two
  numbers that divides both (`Bezout`, by strong induction), so for a prime modulus
  mod_inv inverts all but the multiples of p (`EuclidInverts`), and a product
  vanishes only with a factor. Everything else of `ModularIsField` is congruence,
  and that a subtrahend above p + a underflows. `ComplexIsField` needs besides that
  the norm c0² + c1² of a divisor vanishes only for multiples of p: -1 is the
  square of no number when p is 3 modulo 4.
* *The curve.* `DecompressionFinds` has two halves: the power (p+1)/4 of a square is one
  of its roots, from Fermat's theorem; and of the two roots one has the parity
  asked for, because p is odd and no root is zero (a root of zero would be a point
  of order two). `NonResidueIsTrue` is Euler's criterion, one direction, and that the
  search ends, at p - 1 at the latest.
  `CurveInv` says that what was given as non-residue has the power -1.

**`AlgorithmProofs`**, the hints.

* *HintSqrt.* `HintTrue` is not inductive. `RootInv` says besides: the second
  attempt is made only for an x with x^((p-1)/2) = -1, in the loop the variables are
  those of a `Round`, and the answer is a root of the argument. `Round` is
  `LoopRelation` in powers, together with the range of m. `RoundKeeps` is one
  round: the least i that the inner loop finds exists and is below m, since t has an
  order that divides 2^(m-1), and c^(2^(m-i-1)) takes t down. `RoundsRelated` is
  `LoopRelation` itself. For `RootIsTrue`, a number with the power -1 has no root, and
  its product with a non-residue has the power 1, so the second attempt succeeds and
  `expect` does not panic. Below it are Fermat's theorem (the cycles of x -> b x cut
  1 .. p-1 into parts of one size, the order of b, which therefore divides p - 1),
  Euler's criterion, that 2 is a non-residue when p is 5 modulo 8, and that modpow, which
  squares and multiplies, computes powers (`SquareMultiply`). TLC checked `Round`
  as an invariant before it was proved.
* *HintFinalExp.* In logarithms c^lambda = f u is an equation modulo the order of the
  group. `Bn254Inv` says which roots have been taken at each stage: f u is a cube when
  the search starts, and the number x3 belongs to the guess x.
  `PowerOfRoots` is the argument: c is the R-th, M-th and cube root of f u in the parts
  of the group where these exist, so c^lambda misses f u at most in the part of order R;
  and there u is one, lambda is zero, and f is one exactly when the product of the
  pairings is. For BLS12-381 `Bls12381Inv` keeps the equations of s and c;
  `RootOfRest` shows that s takes out of f what lies in the parts of order 27 and
  poly_factor, where lambda has no inverse, if f has no part of order R.
  These need that R is prime and divides the order once, and the relations of the
  literals.

Only model-checked:

* liveness (`Halts`, `ReadsEnd`, `Decides`, `Exits`, `RootAnswered`,
  `Bn254Ends`, and `EchoesInput`, whose `<>[]` is one), which TLAPS does not prove
  under fairness;
* `ImplementsGroup`: that the formulas of the chord and the tangent are associative on
  every curve is an algebraic identity far beyond Z3's arithmetic, and the curve of the run
  is given by a table of its points;
* `ImplementsKeccak` and `KnownAnswer`: 24 rounds on 1600 bits by evaluation.

## Not modelled

* **The Miller loop, SHA-256 compression, the parsing of ELF headers**: crates outside
  the repository. The models take any result they can give.
* **The arithmetic on the machine.** Results are computed in modules of their own, not
  by the machine of `PrecompileHandler`, whose small memory cannot hold the operands.
  What joins the two is that a handler reads its operands before it writes, which
  both levels have.
* **Later rounds of Tonelli-Shanks in ecc.rs.** All moduli of the curve table are 3
  modulo 4, and then the first round returns. The loop of modular.rs, which the
  table of moduli does reach, is modelled.
* **Conversions** of BigUint and Fq12 to bytes and back, but for Keccak's lanes.
* **The sampling of find_non_qr_openvm**: any non-residue may come out of it.
* **u32 overflow of i * 64** in the pairing handlers, for lists of 2^26 points.
* **Logging**, PrintStr included, and **host memory**: HINT_BUFFER and REVEAL can ask
  for gigabytes, and the models always have them.
* **echo-guest**: the call of main, the TERMINATE behind it that is never reached,
  and the panic handler, whose exit code the interpreter would drop (TERMINATE
  returns register x0, not the immediate).
* **hash-guest** was written for another encoding of the hashes (see the component in
  `PROJECT.json`): on this interpreter it overruns its buffer with Keccak-f's 200
  bytes and publishes no digests, so there is no behaviour to hold it to.
* **tools** are converters that share no state with the interpreter.

## Plan

Done: the memory, its refinement and its proofs; the processor; the dispatcher with
every instruction; the streams and the reader; the echo fixture; the machine's
invariants and action properties proved; the reader's invariants and its refinement;
the loader, with its inductive invariant and image proved; the command line; the
arithmetic of hashes, integers, fields, curves and pairing hints, and of these the
ALU, the wide integers, both fields, decompression, both roots and both pairing
witnesses proved; the echo guest, from the command line to the terminal, proved.

Nothing is left but what "Only model-checked" and "Not modelled" name.
