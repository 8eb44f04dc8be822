------------------------------ MODULE C11Atomic ------------------------------
(***************************************************************************)
(* The generic atomic operation layer of include/support/win32/           *)
(* atomic_win32.h: the __c11_atomic_* entry points.                        *)
(*                                                                         *)
(* An entry point is modelled by the sequence of machine steps it emits,   *)
(* in program order:                                                       *)
(*   Barrier          _ReadWriteBarrier(), a compiler reordering barrier;  *)
(*   PlainRead(c)     a plain read of __a->__a_value;                      *)
(*   PlainWrite(c,v)  a plain assignment to __a->__a_value;                *)
(*   Locked(...)      a call of __x86_ops<sizeof(_Tp)>, a locked           *)
(*                    instruction (and, as every _Interlocked intrinsic,   *)
(*                    a compiler barrier);                                 *)
(*   MemoryBarrier    __msvc_atomic::__MemoryBarrier().                    *)
(* A step that produces the entry point's return value says how: "value"  *)
(* (the value read or returned by the intrinsic), "cas" (translated by     *)
(* CasResult) or "none" (discarded).  The module TSOMachine executes the   *)
(* steps.  The overloads for volatile and non-volatile _Atomic(_Tp)* have  *)
(* identical bodies and are modelled once.                                 *)
(***************************************************************************)
EXTENDS Integers, Sequences, X86Ops

Orders == {"relaxed", "consume", "acquire", "release", "acq_rel", "seq_cst"}

Barrier == [kind |-> "cb"]
PlainRead(c) == [kind |-> "read", cell |-> c, yield |-> "value"]
PlainWrite(c, v) == [kind |-> "write", cell |-> c, arg |-> v, mask |-> Mod - 1]
Locked(c, rmw, v, e, yield) ==
  [kind |-> "locked", cell |-> c, rmw |-> rmw, arg |-> v, exp |-> e,
   yield |-> yield]

\* __MemoryBarrier: _InterlockedExchange on a local volatile long.  The
\* location is private, so only its effect as a locked instruction remains.
MemoryBarrier == [kind |-> "mfence"]

\* No instruction at all: what a fence compiles to without its barrier.
NoBarrier == [kind |-> "nop"]

(***************************************************************************)
(* Initialisation.  A byte of the payload is modelled by one bit of the    *)
(* word: a _Tp of sizeof(_Tp) bytes has Bits of them.                      *)
(***************************************************************************)
\* A plain write of byte j (bit j) of cell c, taking that byte from v.
ByteWrite(c, j, v) ==
  [kind |-> "write", cell |-> c, arg |-> v & (2 ^ j), mask |-> 2 ^ j]

\* __c11_atomic_init when __a->__a_value = __val is well-formed (through a
\* volatile view, or on a non-volatile cell): one plain assignment.
AtomicInit(c, v) == <<PlainWrite(c, v)>>

AtomicInitBytesNoFromAdvance(c, v) ==
  [j \in 1 .. Bits |-> ByteWrite(c, j - 1, IF v % 2 = 1 THEN 2 ^ (j - 1) ELSE 0)]

\* __c11_atomic_init otherwise: while (to != end) *to++ = *from++; one
\* volatile byte write per byte, lowest address first.
AtomicInitBytes(c, v) == [j \in 1 .. Bits |-> ByteWrite(c, j - 1, v)]

(***************************************************************************)
(* Fences.                                                                 *)
(***************************************************************************)
ThreadFenceNoFullBarrier(order) == <<Barrier>>

ThreadFenceNoCompilerBarrier(order) ==
  IF order = "seq_cst" THEN <<MemoryBarrier>> ELSE <<NoBarrier>>

\* __c11_atomic_thread_fence: a full barrier for seq_cst only.
ThreadFence(order) ==
  IF order = "seq_cst" THEN <<MemoryBarrier>> ELSE <<Barrier>>

\* __c11_atomic_signal_fence: the order is ignored.
SignalFence(order) == <<Barrier>>

(***************************************************************************)
(* Store and load.                                                         *)
(***************************************************************************)
StoreSeqCstPlain(c, v, order) ==
  IF order # "relaxed" THEN <<Barrier, PlainWrite(c, v)>>
                       ELSE <<PlainWrite(c, v)>>

StoreNoReleaseBarrier(c, v, order) ==
  IF order = "seq_cst" THEN <<Locked(c, "xchg", v, 0, "none")>>
                       ELSE <<PlainWrite(c, v)>>

\* __c11_atomic_store: seq_cst goes through __exchange and discards the
\* previous value; any other non-relaxed order puts a barrier before the
\* assignment.
Store(c, v, order) ==
  CASE order = "seq_cst"  -> <<Locked(c, "xchg", v, 0, "none")>>
    [] order # "relaxed" -> <<Barrier, PlainWrite(c, v)>>
    [] OTHER             -> <<PlainWrite(c, v)>>

LoadBarrierFirst(c, order) ==
  (IF order # "relaxed" THEN <<Barrier>> ELSE <<>>) \o <<PlainRead(c)>>

\* __c11_atomic_load: a barrier before the read for seq_cst, and one after
\* it for every order but relaxed.
Load(c, order) ==
  (IF order = "seq_cst" THEN <<Barrier>> ELSE <<>>)
  \o <<PlainRead(c)>>
  \o (IF order # "relaxed" THEN <<Barrier>> ELSE <<>>)

(***************************************************************************)
(* Read-modify-write entry points.  The order parameters are ignored.      *)
(***************************************************************************)
\* __c11_atomic_exchange
Exchange(c, v) == <<Locked(c, "xchg", v, 0, "value")>>

CasResultWriteBackFirst(exp, old) == [ok |-> TRUE, expected |-> old]

CasResultKeepExpected(exp, old) == [ok |-> old = exp, expected |-> exp]

\* The tail of __c11_atomic_compare_exchange_*: __exp = *__expected was
\* read once before the intrinsic; on a mismatch the observed value is
\* written back to *__expected.
CasResult(exp, old) ==
  IF old = exp THEN [ok |-> TRUE, expected |-> exp]
               ELSE [ok |-> FALSE, expected |-> old]

\* __c11_atomic_compare_exchange_strong
CompareExchangeStrong(c, exp, v) == <<Locked(c, "cmpxchg", v, exp, "cas")>>

\* __c11_atomic_compare_exchange_weak: the same body as the strong form.
CompareExchangeWeak(c, exp, v) == <<Locked(c, "cmpxchg", v, exp, "cas")>>

\* __skip_amt<_Tp>::value for an integral _Tp.
SkipAmt == 1

\* __c11_atomic_fetch_add: __add(&__a_value, __delta * __skip_amt).
FetchAdd(c, d) == <<Locked(c, "add", ToWord(d * SkipAmt), 0, "value")>>

FetchSubNoNegate(c, d) == <<Locked(c, "add", ToWord(d * SkipAmt), 0, "value")>>

\* __c11_atomic_fetch_sub: __add(&__a_value, __delta * -__skip_amt).
FetchSub(c, d) == <<Locked(c, "add", ToWord(d * (-SkipAmt)), 0, "value")>>

\* __c11_atomic_fetch_and / _or / _xor
FetchAnd(c, p) == <<Locked(c, "and", p, 0, "value")>>
FetchOr(c, p)  == <<Locked(c, "or", p, 0, "value")>>
FetchXor(c, p) == <<Locked(c, "xor", p, 0, "value")>>

(***************************************************************************)
(* A call of an entry point, as it appears in a thread's program:          *)
(* [op, cell, arg, exp, order].  Compile gives the steps it emits.         *)
(***************************************************************************)
OpNames == {"init", "init_bytes", "load", "store", "exchange", "cas_strong", "cas_weak",
            "fetch_add", "fetch_sub", "fetch_and", "fetch_or", "fetch_xor",
            "thread_fence", "signal_fence"}

Compile(p) ==
  CASE p.op = "init"         -> AtomicInit(p.cell, p.arg)
    [] p.op = "init_bytes"   -> AtomicInitBytes(p.cell, p.arg)
    [] p.op = "load"         -> Load(p.cell, p.order)
    [] p.op = "store"        -> Store(p.cell, p.arg, p.order)
    [] p.op = "exchange"     -> Exchange(p.cell, p.arg)
    [] p.op = "cas_strong"   -> CompareExchangeStrong(p.cell, p.exp, p.arg)
    [] p.op = "cas_weak"     -> CompareExchangeWeak(p.cell, p.exp, p.arg)
    [] p.op = "fetch_add"    -> FetchAdd(p.cell, p.arg)
    [] p.op = "fetch_sub"    -> FetchSub(p.cell, p.arg)
    [] p.op = "fetch_and"    -> FetchAnd(p.cell, p.arg)
    [] p.op = "fetch_or"     -> FetchOr(p.cell, p.arg)
    [] p.op = "fetch_xor"    -> FetchXor(p.cell, p.arg)
    [] p.op = "thread_fence" -> ThreadFence(p.order)
    [] p.op = "signal_fence" -> SignalFence(p.order)
=============================================================================
