----------------------------- MODULE AtomicSpec -----------------------------
(***************************************************************************)
(* What the generic atomic layer promises its callers, the contract of the *)
(* portable atomic abstraction it replaces (spec sections 4.2 and 8): each *)
(* call of a thread takes effect atomically on a single memory, in program *)
(* order, and returns                                                      *)
(*   load: the value; exchange and every fetch_*: the value before the     *)
(*   call; compare_exchange: success iff the cell held the expected value, *)
(*   with the observed value written back to *expected on failure;         *)
(*   store and fences: nothing.                                            *)
(* For a program of seq_cst calls this is sequential consistency.          *)
(***************************************************************************)
EXTENDS Integers, Sequences
LOCAL INSTANCE Bitwise

CONSTANTS Threads, Cells, Prog, InitVal, NoResult, Bits

VARIABLES amem, apc, ares

avars == <<amem, apc, ares>>

AMod == 2 ^ Bits

FenceOps == {"thread_fence", "signal_fence"}

\* [ret, new] of call p on a cell holding m, by the C11 contract.
Contract(p, m) ==
  CASE p.op = "load"      -> [ret |-> m, new |-> m]
    [] p.op = "store"     -> [ret |-> NoResult, new |-> p.arg]
    [] p.op = "exchange"  -> [ret |-> m, new |-> p.arg]
    [] p.op \in {"cas_strong", "cas_weak"} ->
         IF m = p.exp THEN [ret |-> [ok |-> TRUE, expected |-> p.exp], new |-> p.arg]
                      ELSE [ret |-> [ok |-> FALSE, expected |-> m], new |-> m]
    [] p.op = "fetch_add" -> [ret |-> m, new |-> (m + p.arg) % AMod]
    [] p.op = "fetch_sub" -> [ret |-> m, new |-> (m - p.arg) % AMod]
    [] p.op = "fetch_and" -> [ret |-> m, new |-> m & p.arg]
    [] p.op = "fetch_or"  -> [ret |-> m, new |-> m | p.arg]
    [] p.op = "fetch_xor" -> [ret |-> m, new |-> m ^^ p.arg]


AInit ==
  /\ amem = InitVal
  /\ apc  = [t \in Threads |-> 0]
  /\ ares = [t \in Threads |-> [i \in DOMAIN Prog[t] |-> NoResult]]

\* Thread t's next call takes effect.
Call(t) ==
  LET i == apc[t] + 1
      p == Prog[t][i]
  IN
  /\ i \in DOMAIN Prog[t]
  /\ apc' = [apc EXCEPT ![t] = i]
  /\ IF p.op \in FenceOps
       THEN UNCHANGED <<amem, ares>>
       ELSE LET r == Contract(p, amem[p.cell]) IN
            /\ amem' = [amem EXCEPT ![p.cell] = r.new]
            /\ ares' = [ares EXCEPT ![t][i] = r.ret]

ANext == \E t \in Threads : Call(t)

ASpec == AInit /\ [][ANext]_avars /\ \A t \in Threads : WF_avars(Call(t))
=============================================================================
