# TLA+ models of the win32 atomic shim (`support/win32/atomic_win32.h`)

This directory holds TLA+ models of the only concurrent part of this repository. That part is the
lock-free atomic shim, which implements libc++'s `__c11_atomic_*` primitives with MSVC interlocked
intrinsics. The rest of `src/` is type aliases and sequential conformance tests. Of the tests, one
support fixture is modelled: the seed sequence `circular_sseq` that the random-engine tests seed
from. The others are listed under "Not modelled".

## 1. Inventory

### Components

| Component | Source | State | Operations |
|---|---|---|---|
| Boxed cell `__msvc_atomic_t<_Tp>`, macro `_Atomic` | atomic_win32.h:26-39 | `__a_value` | constructed, then accessed only through the layer below |
| Width-dispatch table `__x86_ops<_Size>` | :41-187 | none | `__exchange`, `__cmp_exchange`, `__add`, `__and`, `__or`, `__xor`, each one intrinsic of width 8·`_Size` |
| `__MemoryBarrier` | :20-24 | a private `volatile long` | locked exchange, which acts as a full fence |
| Generic layer `__c11_atomic_*` | :190-424 | the cell | `init`, `thread_fence`, `signal_fence`, `store`, `load`, `exchange`, `compare_exchange_strong/weak`, `fetch_add/sub/and/or/xor` |
| `stdint_win32.h`, `float_win32.h` | include/support/win32 | none | typedefs; one forwarding function |
| Seed-sequence fixture `circular_sseq` | test/support/circular_sseq.h | `_b`, `_size`, `index` | three constructors, `generate`, `param`, `size` |
| Other conformance tests | src/test/** | test-local | sequential assertions on algorithms and containers that are implemented outside this repository |

### How the parts interact

A caller calls a `__c11_atomic_*` entry point with a cell, operands and a `memory_order`. The entry
point emits one of three things:

- compiler barriers (`_ReadWriteBarrier`) and plain reads or writes of `__a_value`;
- a call to `__x86_ops<sizeof(_Tp)>`, which is one locked instruction;
- `__MemoryBarrier`.

It then turns the intrinsic's result into its own return value. For compare-exchange, that includes
writing the observed value back to `*expected`.

Many threads call these entry points concurrently. Two things reorder their accesses:

- the compiler, which moves accesses across each other unless a barrier or intrinsic is between
  them;
- the x86 processor (TSO: a FIFO store buffer per core; locked instructions drain it).

### What is hard

- **Memory ordering.** Each order must be mapped to the right barrier in the right place. Examples:
  a release store needs its barrier before the write, an acquire load needs its barrier after the
  read, and a seq_cst store must go through a locked instruction. A wrong choice only shows up in a
  rare interleaving with store buffering or compiler reordering.
- **Return-value contracts.** The intrinsics return either the old value or the result. The entry
  points must translate that into the C11 contract.
- **Wraparound.** Arithmetic wraps at the operand width, including `fetch_sub`'s negated delta.

### Properties that make it correct

- Programs using only seq_cst calls are sequentially consistent. They implement `AtomicSpec`.
- Release/acquire stores and loads, and release/acquire fences, give message passing.
- A seq_cst fence forbids store buffering.
- Concurrent read-modify-write calls lose no update.
- Each entry point returns what the C11 contract says.

## 2. Modules

| Module | Models | Contents |
|---|---|---|
| `X86Ops` | `__x86_ops` | Each intrinsic is an operator on a `Bits`-bit word. It returns `[ret, new]`: the value returned and the value stored. `ResultReturning` names the read-modify-write intrinsics that return the post-operation value. |
| `C11Atomic` | `__c11_atomic_*` | Each entry point is an operator giving the sequence of machine steps it emits, in source order (`Barrier`, `PlainRead`, `PlainWrite`, `Locked`, `MemoryBarrier`). Each step carries how it yields the return value. `CasResult` is the `*__expected` write-back. |
| `TSOMachine` | threads running the shim on x86 | See the variables and actions below. |
| `CallTSO` | what the barrier mapping promises (abstract) | Each call executes at once, in program order, as the x86 instruction it stands for. A store that is not seq_cst goes through a per-thread FIFO buffer. Read-modify-write calls, seq_cst stores and seq_cst thread fences wait for an empty buffer. Return values come from `AtomicSpec!Contract`. |
| `AtomicSpec` | the C11 contract (abstract) | Each call takes effect atomically on one memory, in program order, with the C11 return values (fetch ops return the prior value). |
| `CasLoop` | a caller's `compare_exchange_weak` retry loop | `x`, and for each thread `exp`, `pc` and `count`. `LoadExpected` is the relaxed load. `TryCas` is one loop iteration through `CompareExchangeWeak`, `X86Op` and `CasResult`. The loop itself is client code (spec §7), so each step is modelled as atomic on `x`: no plain writes, and the locked instruction is a barrier. |
| `MCLitmus` | model-checking harness | Litmus programs, the outcomes they forbid, and the refinement mappings to `AtomicSpec` and `CallTSO`. |
| `CircularSseq` | `circular_sseq` | `store`/`arr`/`alive` are where `_b` points and whether that array is alive. `size`, `index`. `gen` and `first` are history: the words handed out and the construction cursor. `pdest` is `param`'s destination. One action per constructor, plus `Generate` and `Param`. `EndDecl` is the end of the declaration `circular_sseq sseq{3, 5, 7};`, where the braced list's array dies. `Clobber` is test1's own frame reusing that array's stack slots for the engines it declares next. |
| `WordContract` | one read-modify-write call at full width | The cell `val` starts with any word. `Execute` runs any entry point with any operand through `Compile`, `X86Op` and `CasResult`. `pre`, `call` and `out` keep the input and the returned value for comparison with `AtomicSpec!Contract`. |
| `MCCircularSseq` | the seeding tests | The list `{3, 5, 7}` and the number of words each engine's `seed(q)` requests: 624 (mt19937, mt19937_64), 24 (ranlux), 4 (minstd_rand0, the test's lcg). |

`TSOMachine` in detail:

- **Variables:**
  - `mem`: cell values, i.e. `__a_value`;
  - `sbuf`: each thread's store buffer;
  - `done`: the steps each thread has issued;
  - `res`: the value each call returned.
- **Init** gives every cell its starting value. A cell that a program initialises with an `init`
  call starts with an arbitrary value (2): a default-constructed `__msvc_atomic_t` leaves
  `__a_value` indeterminate.
- **Actions:** one per kind of step, plus `Drain`.
  - `IssueBarrier`, `IssueRead` and `IssueWrite` are plain steps. A plain write goes into the store
    buffer with a byte mask: the whole word for an assignment, one byte for a step of
    `__c11_atomic_init`'s byte-copy loop (a byte is modelled by one bit of the word). A read sees
    memory with the thread's own buffered writes to the cell merged in (`Merge`).
  - `IssueLocked` requires an empty store buffer, then applies `X86Op` to `mem` in one step.
  - `IssueMemoryBarrier` also requires an empty store buffer.
  - `Drain` moves the oldest buffered write of a thread to memory.
- **Compiler reordering.** A step may issue ahead of earlier unissued steps unless they conflict.
  Barriers and locked instructions conflict with everything. Two accesses conflict when they touch
  the same cell. This is how the placement of `_ReadWriteBarrier` in the code matters to the model.

Both overloads of each entry point (`volatile _Atomic(_Tp)*` and `_Atomic(_Tp)*`) have identical
bodies. The model does not distinguish them, and lets the compiler reorder as for non-volatile
accesses (the general case).

## 3. Runs

The atomic runs use `MCLitmus`, except `cas_loop` (module `CasLoop`); the `sseq_*` runs use
`MCCircularSseq`. Threads and cells are model values.
Symmetry is not used in the litmus runs, because each thread runs a different program. `CHECK_DEADLOCK FALSE` is set in the atomic runs: a litmus program is
finite, so it really stops once every thread has finished and the buffers are drained. The same
holds for `cas_loop`, whose threads stop after their increments. The `sseq_*` runs check deadlock:
`param` stays enabled on a constructed fixture.

| Run | cfg | Program | Properties | Shows |
|---|---|---|---|---|
| store_buffering | MC_store_buffering.cfg | T1/T2: seq_cst store, then seq_cst load of the other cell. T3/T4: relaxed store, `thread_fence(seq_cst)`, relaxed load. | `SBSeqCst`, `SBFence` | The outcome "both loads read 0" is unreachable. |
| seq_cst_refinement | MC_seq_cst.cfg | Two threads of seq_cst store, load, exchange, CAS strong/weak (one can fail), fetch_or/and/xor, thread and signal fences (`Bits = 2`). | `SeqCstRefinesAtomicSpec` | The machine implements `AtomicSpec`. The mapping is `amem <- mem`, `apc <- number of calls whose effect step has issued`, `ares <- res`. |
| message_passing | MC_message_passing.cfg | T1/T2: `__c11_atomic_init` by the byte-copy loop, release flag store / acquire flag load, relaxed data load. T3/T4: `init` by assignment, then relaxed accesses around release/acquire thread fences (`Bits = 2`, so the copy has two bytes; the cells start at 2). | `MPAcqRel`, `MPFence` | A reader that sees the flag reads the whole initialised value, never a torn mix. |
| word_contract | MC_word_contract.cfg | `WordContract` at `Bits = 8` (`__x86_ops<1>`): every cell value, every read-modify-write entry point, every operand; for a compare-exchange an expected value that matches and one that does not (655,616 states). | `CallsMeetContract` | Every entry point stores the C11 result at full width. Every entry point except fetch_add/fetch_sub returns the C11 value (their return values are the fetch_add finding). |
| counter | MC_counter.cfg | Two threads of fetch_add/fetch_sub with mixed orders on one cell (`Bits = 2`, so the sum wraps). | `CounterNoLostUpdate` | The final value is the initial value plus the net delta, mod 2^Bits. |
| mixed_order_refinement | MC_mixed_order.cfg | T3 acquire-loads Y then X, as an observer of the writers' order (33,237 states, about 2 minutes). T1/T2: release store then acquire/seq_cst load of the other cell (store buffering shape), then relaxed `fetch_or`, acquire `cas_strong`, `thread_fence(acq_rel)`, acq_rel/release/seq_cst stores and consume/acquire loads. | `MixedRefinesCallTSO` | Without relaxed loads and stores, the compiled calls implement `CallTSO`. The mapping: a non-seq_cst store enters the abstract buffer at its first step, the barrier before the write. `tbuf` is the store buffer followed by those stores whose write has not issued yet. `tpc` counts calls past that point. |
| cas_loop | MC_cas_loop.cfg | `CasLoop`: three threads × two increments, `Bits = 2` (the value wraps), `InitX = 1`. | `IncrementsAccounted`, `AllLoopsTerminate` | In every state, `x` equals the initial value plus the successful compare-exchanges. Every loop terminates under weak fairness. |
| fetch_add_prior (violation) | MC_fetch_add_prior.cfg | `fetch_add(cell(10), 5)`, the example of spec §8 (`Bits = 4`). | `FetchAddReturnsPrior` | The call returns 15, not 10. |
| sseq_stream | MC_sseq_stream.cfg | Any constructor, then up to 3 `generate` calls of 1–3 words, `param`, and stack reuse of the dead list. | `TypeOK`, `StreamContinues` | The cursor stays in bounds and `generate` hands out one cyclic stream, neither skipping nor repeating. |
| sseq_reseed (violation) | MC_sseq_reseed.cfg | `circular_sseq{3, 5, 7}`, two seedings of 4 words each. | `TwoSeedingsAgree` | The second seeding starts one word later: what the commented-out `assert(e1 == e2)` of the knuth_b test would report. |
| sseq_dangling (violation) | MC_sseq_dangling.cfg | The same with 624 words (mt19937), and stack reuse. | `TwoSeedingsAgree` | The seedings differ once the dead array's slots are reused. |
| sseq_param (violation) | MC_sseq_param.cfg | Any constructor, then `param`. | `ParamReproducesState` | `param` writes every value to the first word. |

Each property of a passing run has a mutant in PROJECT.json, and TLC finds the property violated
under that mutant:

| Property | Mutant |
|---|---|
| `SBSeqCst` | a seq_cst store done as barrier + plain store |
| `SBFence` | a seq_cst fence reduced to a compiler barrier |
| `SeqCstRefinesAtomicSpec` | CAS failure not writing back `*expected` |
| `MPAcqRel` | the load's barrier placed before the read (the byte-copy loop without `from++` is also caught) |
| `CallsMeetContract` | fetch_sub without negating the delta |
| `MPFence` | an acquire/release fence without `_ReadWriteBarrier` |
| `CounterNoLostUpdate` | fetch_sub without negating the delta |
| `IncrementsAccounted` | CAS result computed after the write-back, so it always reports success |
| `AllLoopsTerminate` | CAS failure not writing back `*expected`: the loop spins forever |
| `MixedRefinesCallTSO` | a release store without its `_ReadWriteBarrier` |
| `TypeOK` (CircularSseq) | `generate` without `% _size` on the cursor |
| `StreamContinues` | `generate` advancing the cursor before reading |

**Bounds.**

- Two threads per litmus pair is the smallest number that shows each reordering.
- One or two bits per word is enough to tell 0 from the written values, to make the counter wrap and
  to give the byte copy two bytes. `word_contract` checks the arithmetic at the real 8-bit width over
  every input. The wider specialisations have the same code. At 8 bits, fetch_add/fetch_sub on a
  1-byte `_Tp` would not compile (the int-promoted delta conflicts with `__add`'s `_Tp`); the run
  checks their arithmetic, which is the same at the widths where they do compile.
- `circular_sseq`: the request counts 4, 24 and 624 are the ones the tests' engines use. Two calls are
  what the tests make. 1–3 words with 3 calls make the cursor wrap from each constructor.
- The four widths of `__x86_ops` have the same code. The model uses one small width, because TLC's
  integers cannot hold 2^64.

**Fairness.** Each thread is weakly fair on issuing its next ready step, and each store buffer is
weakly fair on draining. The code justifies this: no entry point blocks or spins (spec §5). The
hardware justifies the draining: x86 store buffers drain eventually. Two runs use fairness: the
refinement runs, through the liveness parts of `AtomicSpec` and `CallTSO` (the abstract buffer
drains because the pending write issues and the store buffer drains), and `cas_loop`. In `cas_loop`, weak
fairness of each thread is enough: a failed CAS means another thread's increment succeeded, and
there are finitely many increments. Symmetry is not used in `cas_loop` because it checks liveness.

## 4. Findings

- **fetch_add / fetch_sub return the new value** (atomic_win32.h:361, :377). Both return the result
  of `_InterlockedAdd`, which is the value after the addition. The C11 contract requires the prior
  value. Run `fetch_add_prior` shows `fetch_add(cell(10), 5)` returning 15. The spec (§9) flags this
  as an open question.
- **Return contract of and/or/xor.** The spec (§4.1) says `_InterlockedAnd/Or/Xor` return the
  result. Microsoft documents them as returning the original value, which would make
  `fetch_and/or/xor` correct. The model makes this a constant, `ResultReturning`, and the runs use
  `{"add"}`. With the spec's reading, `fetch_and/or/xor` have the same defect as fetch_add, and
  `seq_cst_refinement` would fail on them.
- **`circular_sseq` seeding depends on the word count** (circular_sseq.h:22). `generate` keeps its
  cursor, so `e2(sseq); e1.seed(sseq); assert(e1 == e2)` holds only when the engine asks for a
  multiple of 3 words. That is true for mt19937 (624) and ranlux (24). For knuth_b (4 words) the assert
  is commented out. (The lcg test's commented-out assert compares `e1(sseq)` with `e2(4)`, a
  different question that the cursor does not explain.) Run `sseq_reseed` shows the difference. The Seed Sequence
  requirements allow `generate` to depend on earlier calls, so the tests' assumption is theirs, not
  the standard's.
- **`circular_sseq` keeps a dangling pointer** (circular_sseq.h:13). The `initializer_list`
  constructor stores `v.begin()`. The array behind `{3, 5, 7}` dies with the parameter `v`, at the
  end of the declaration, so every `generate` reads dead memory. Run `sseq_dangling` shows the
  seedings diverging once test1's own frame reuses the slots for the engines declared after it.
- **`circular_sseq::param` never advances `out`** (circular_sseq.h:32). All values land in the first
  destination word. Run `sseq_param` shows it.
- **Pointer payloads (not a TLC matter).** For a pointer payload, `__c11_atomic_fetch_add` passes a
  `ptrdiff_t` delta to `__add(volatile _Tp*, _Tp)`. The deduction of `_Tp` then conflicts, so
  `__skip_amt<_Tp*>` is never usable, and this is a compile-time failure rather than a runtime one.

## 5. Not modelled

- `static_assert`s and width/array rejections: these are compile time.
- `stdint_win32.h` and `float_win32.h`: no behaviour.
- The conformance tests other than the `circular_sseq` fixture: they are sequential checks of code
  that is not in this repository, and the spec puts them out of scope. The engines' `seed(q)` is
  represented only by how many words it requests.
- Relaxed loads and stores under `CallTSO`: the compiler may reorder them across each other, which
  C11 allows, so those programs are not TSO at call level. The litmus runs check them against the
  C11 outcomes they must keep.
- `__c11_atomic_init` racing with another access to the same cell: the spec forbids it, as C11
  does, so no run lets a reader load the cell before it has seen the publishing flag. A reader that
  does load it early reads a racing value, and the properties do not judge that read.
- `stdint_win32.h` and `float_win32.h` hold only typedefs and a one-line forwarding to the CRT's
  `_copysignl`. Nothing in them has state or control to model. With them and the licence header
  and include guard of `atomic_win32.h`, they are the only implementation lines the map does not
  cover.

## 6. Plan

Done: `X86Ops`, `C11Atomic` (all entry points, both `init` overloads included), `TSOMachine`,
`AtomicSpec`, `CallTSO`, `MCLitmus`, `CasLoop`, `WordContract`, `CircularSseq` and
`MCCircularSseq`, with the runs above.

Next:

1. **The spec's reading of `_InterlockedAnd/Or/Xor`.** Decide with the maintainers which contract
   holds. If the spec's reading holds, set `ResultReturning` to all four and record
   fetch_and/or/xor alongside the fetch_add finding.
2. **Larger litmus shapes.** Try IRIW (two writers, two readers) against `CallTSO`. Three threads
   already take about two minutes, so this needs a smaller program per thread.
