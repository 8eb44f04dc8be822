------------------------------- MODULE X86Ops -------------------------------
(***************************************************************************)
(* The width-dispatch table __msvc_atomic::__x86_ops<_Size> of            *)
(* include/support/win32/atomic_win32.h.                                   *)
(*                                                                         *)
(* Each specialisation binds six operations to one interlocked intrinsic   *)
(* of width 8 * _Size bits.  The casts (__ptr_t)/(__val_t) on the way in   *)
(* and (_Tp) on the way out are between types of equal size, so they keep *)
(* the bit pattern: a value is modelled by its bit pattern, a natural in   *)
(* Word.  The model word has Bits bits; the four specialisations differ    *)
(* only in the width, and arithmetic is modulo 2^width in each of them.    *)
(*                                                                         *)
(* An intrinsic is modelled by what it does to the memory word m: it       *)
(* returns the record [ret |-> value returned, new |-> value stored].      *)
(***************************************************************************)
EXTENDS Naturals, Bitwise

CONSTANTS
  Bits,             \* width of the modelled word, in bits
  ResultReturning   \* the read-modify-write intrinsics among
                    \* {"add", "and", "or", "xor"} that return the value
                    \* after the operation rather than the one before it

ASSUME Bits \in 1..8
ASSUME ResultReturning \subseteq {"add", "and", "or", "xor"}

Mod  == 2 ^ Bits
Word == 0 .. (Mod - 1)

\* Conversion of an int computed by the caller (e.g. __delta * -1) to the
\* unsigned operand type: two's complement wrap to the word.
ToWord(i) == i % Mod

\* _InterlockedExchange*: stores v, returns the previous contents.
InterlockedExchange(m, v) == [ret |-> m, new |-> v]

\* _InterlockedCompareExchange*(p, v, e): stores v iff *p = e, returns the
\* previous contents in both cases.
InterlockedCompareExchange(m, v, e) ==
  [ret |-> m, new |-> IF m = e THEN v ELSE m]

\* A read-modify-write intrinsic that stores new; what it returns depends
\* on the intrinsic's contract (ResultReturning).
InterlockedRmw(name, m, new) ==
  [ret |-> IF name \in ResultReturning THEN new ELSE m, new |-> new]

InterlockedAdd(m, d) == InterlockedRmw("add", m, (m + d) % Mod)
InterlockedAnd(m, p) == InterlockedRmw("and", m, m & p)
InterlockedOr(m, p)  == InterlockedRmw("or", m, m | p)
InterlockedXor(m, p) == InterlockedRmw("xor", m, m ^^ p)

\* The lookup __x86_ops<sizeof(_Tp)>::__op: one intrinsic per operation.
X86Op(rmw, m, v, e) ==
  CASE rmw = "xchg"    -> InterlockedExchange(m, v)
    [] rmw = "cmpxchg" -> InterlockedCompareExchange(m, v, e)
    [] rmw = "add"     -> InterlockedAdd(m, v)
    [] rmw = "and"     -> InterlockedAnd(m, v)
    [] rmw = "or"      -> InterlockedOr(m, v)
    [] rmw = "xor"     -> InterlockedXor(m, v)

RmwOps == {"xchg", "cmpxchg", "add", "and", "or", "xor"}
=============================================================================
