------------------------------ MODULE MCLitmus ------------------------------
(***************************************************************************)
(* Litmus programs for TSOMachine: two threads calling the generic atomic  *)
(* layer, and the outcomes the C11 memory model forbids for them.  Each    *)
(* .cfg picks one program as Prog.                                         *)
(***************************************************************************)
EXTENDS TSOMachine

CONSTANTS T1, T2, T3, T4, X, Y, Z, W

\* A call of entry point op on cell c.
C(op, c, arg, exp, order) ==
  [op |-> op, cell |-> c, arg |-> arg, exp |-> exp, order |-> order]

LoadOf(c, o)      == C("load", c, 0, 0, o)
StoreOf(c, v, o)  == C("store", c, v, 0, o)
FenceOf(o)        == C("thread_fence", X, 0, 0, o)

InitZero == [c \in Cells |-> 0]

(***************************************************************************)
(* Store buffering: each thread stores to one cell and loads the other.    *)
(***************************************************************************)
ProgSBSeqCst ==
  [t \in Threads |->
     IF t = T1 THEN << StoreOf(X, 1, "seq_cst"), LoadOf(Y, "seq_cst") >>
               ELSE << StoreOf(Y, 1, "seq_cst"), LoadOf(X, "seq_cst") >>]

\* The seq_cst pair T1/T2 on X, Y beside the fenced pair T3/T4 on Z, W.
ProgSB ==
  [t \in Threads |->
     CASE t = T1 -> << StoreOf(X, 1, "seq_cst"), LoadOf(Y, "seq_cst") >>
       [] t = T2 -> << StoreOf(Y, 1, "seq_cst"), LoadOf(X, "seq_cst") >>
       [] t = T3 -> << StoreOf(Z, 1, "relaxed"), FenceOf("seq_cst"), LoadOf(W, "relaxed") >>
       [] t = T4 -> << StoreOf(W, 1, "relaxed"), FenceOf("seq_cst"), LoadOf(Z, "relaxed") >>]

\* The store buffering calls followed by read-modify-write calls and
\* fences, all seq_cst; T2's compare_exchange_weak fails when T1's
\* exchange comes first.
ProgSeqCst ==
  [t \in Threads |->
     IF t = T1 THEN << StoreOf(X, 1, "seq_cst"), LoadOf(Y, "seq_cst"),
                       C("cas_strong", Y, 2, 1, "seq_cst"),
                       C("exchange", X, 3, 0, "seq_cst"),
                       C("signal_fence", X, 0, 0, "seq_cst"),
                       C("fetch_xor", Y, 3, 0, "seq_cst") >>
               ELSE << StoreOf(Y, 1, "seq_cst"), LoadOf(X, "seq_cst"),
                       FenceOf("seq_cst"),
                       C("fetch_or", Y, 2, 0, "seq_cst"),
                       C("cas_weak", X, 0, 1, "seq_cst"),
                       C("fetch_and", X, 1, 0, "seq_cst") >>]

\* With seq_cst stores and loads both loads cannot miss both stores: the
\* seq_cst store of __c11_atomic_store must not sit in a store buffer
\* while the following seq_cst load of __c11_atomic_load reads memory.
SBSeqCst == ~(res[T1][2] = 0 /\ res[T2][2] = 0)

\* The counter program: two threads add and subtract on X; the final value
\* is the initial one plus the net delta, modulo the word.
ProgCounter ==
  [t \in Threads |->
     IF t = T1 THEN << C("fetch_add", X, 1, 0, "relaxed"), C("fetch_sub", X, 2, 0, "seq_cst"),
                       C("fetch_add", X, 1, 0, "acq_rel") >>
               ELSE << C("fetch_add", X, 3, 0, "seq_cst"), C("fetch_sub", X, 1, 0, "relaxed"),
                       LoadOf(X, "acquire") >>]

\* With relaxed stores and loads separated by
\* __c11_atomic_thread_fence(seq_cst), both loads cannot miss both stores.
SBFence == ~(res[T3][3] = 0 /\ res[T4][3] = 0)

(***************************************************************************)
(* Message passing: a writer initialises a cell with __c11_atomic_init and *)
(* then sets a flag; a reader loads the flag then the cell.  The cells     *)
(* start at 2, standing for whatever a default-constructed                 *)
(* __msvc_atomic_t holds.                                                  *)
(***************************************************************************)
\* T1/T2 on X (data) and Y (flag): the byte-copy overload of init, then a
\* release store / an acquire load.  T3/T4 on Z (data) and W (flag): the
\* assignment overload, then relaxed accesses around release/acquire
\* thread fences.
ProgMP ==
  [t \in Threads |->
     CASE t = T1 -> << C("init_bytes", X, 1, 0, "relaxed"), StoreOf(Y, 1, "release") >>
       [] t = T2 -> << LoadOf(Y, "acquire"), LoadOf(X, "relaxed") >>
       [] t = T3 -> << C("init", Z, 1, 0, "relaxed"), FenceOf("release"), StoreOf(W, 1, "relaxed") >>
       [] t = T4 -> << LoadOf(W, "relaxed"), FenceOf("acquire"), LoadOf(Z, "relaxed") >>]

InitTwo == [c \in Cells |-> IF c \in {X, Z} THEN 2 ELSE 0]

\* A release store by __c11_atomic_store read by an acquire
\* __c11_atomic_load: the reader that sees the flag reads the whole value
\* __c11_atomic_init wrote, never a mix of the bytes the copy loop has
\* written and those it has not.  (A reader that sees 0 would not read
\* the cell: its load is not judged.)
MPAcqRel ==
  res[T2][1] = 1 /\ res[T2][2] # NoResult => res[T2][2] = 1

\* The same with relaxed accesses and release/acquire
\* __c11_atomic_thread_fence calls between them.
MPFence ==
  res[T4][1] = 1 /\ res[T4][3] # NoResult => res[T4][3] = 1

Delta(p) ==
  CASE p.op = "fetch_add" -> p.arg
    [] p.op = "fetch_sub" -> -p.arg
    [] OTHER              -> 0

NetDelta ==
  LET calls == UNION {{<<t, i>> : i \in DOMAIN Prog[t]} : t \in Threads}
  IN  FoldSet(LAMBDA ti, acc : acc + Delta(Prog[ti[1]][ti[2]]), 0, calls)

\* No update is lost and fetch_sub's negated delta wraps correctly: once
\* every call has taken effect, X holds its initial value plus the sum of
\* the fetch_add deltas minus the fetch_sub deltas, modulo 2^Bits.
CounterNoLostUpdate ==
  AllFinished => mem[X] = (InitVal[X] + NetDelta) % Mod

\* The example of the spec: fetch_add(cell(10), 5) on a single thread.
ProgFetchAdd ==
  [t \in Threads |-> << C("fetch_add", X, 5, 0, "seq_cst"), LoadOf(X, "seq_cst") >>]

InitTen == [c \in Cells |-> 10]

\* __c11_atomic_fetch_add returns the value the cell held before the
\* call, as the C11 fetch_add contract (and std::atomic::fetch_add built
\* on it) requires.
FetchAddReturnsPrior ==
  res[T1][1] \in {NoResult, InitVal[X]}

(***************************************************************************)
(* Refinement: a program of seq_cst calls behaves as AtomicSpec, each call *)
(* atomic on one memory in program order with the C11 return values.      *)
(***************************************************************************)
Abs == INSTANCE AtomicSpec
         WITH amem <- mem,
              apc  <- [t \in Threads |-> EffectsDone(t)],
              ares <- res

\* The calls of every thread take effect one at a time on mem, in program
\* order, and return what the C11 contract says (AtomicSpec).
SeqCstRefinesAtomicSpec == Abs!ASpec
(***************************************************************************)
(* Refinement of CallTSO: a program whose loads and stores are not relaxed *)
(* (read-modify-write calls and fences may be) behaves as x86-TSO at the   *)
(* granularity of calls.  A store that is not seq_cst enters the abstract  *)
(* buffer at its first step, the _ReadWriteBarrier before the write: from  *)
(* then on no later step can overtake it except a read of another cell,    *)
(* which TSO allows.  Every other call takes effect at its Effect step.    *)
(***************************************************************************)
\* T1 and T2 store to one cell and load the other (the store buffering
\* shape), while T3 reads both cells as an observer; T1 and T2 then mix read-modify-write calls, fences and stores of every
\* order that is not relaxed.
ProgMixed ==
  [t \in Threads |->
     IF t = T3 THEN << LoadOf(Y, "acquire"), LoadOf(X, "acquire") >> ELSE
     IF t = T1 THEN << StoreOf(X, 1, "release"), LoadOf(Y, "acquire"),
                       C("fetch_or", Y, 2, 0, "relaxed"),
                       StoreOf(X, 2, "acq_rel"), StoreOf(Y, 3, "release"),
                       LoadOf(X, "consume") >>
               ELSE << StoreOf(Y, 1, "release"), LoadOf(X, "seq_cst"),
                       FenceOf("acq_rel"),
                       C("cas_strong", X, 3, 2, "acquire"),
                       StoreOf(X, 1, "seq_cst") >>]

\* The step at which call i of thread t takes effect in CallTSO.
TSOEffects ==
  [t \in Threads |->
     [i \in DOMAIN Prog[t] |->
        IF Prog[t][i].op = "store" /\ Prog[t][i].order # "seq_cst"
          THEN Min({k \in DOMAIN Code(t) : Code(t)[k].op = i})
          ELSE Effect(t, i)]]

TSOCallsDone(t) ==
  Cardinality({i \in DOMAIN Prog[t] : TSOEffects[t][i] \in done[t]})

\* Stores that have entered the abstract buffer but whose plain write has
\* not issued yet, oldest first.
PendingStores(t) ==
  LET is == SetToSortSeq({i \in DOMAIN Prog[t] :
                            TSOEffects[t][i] \in done[t] /\ Effect(t, i) \notin done[t]}, <)
  IN  [k \in DOMAIN is |-> [cell |-> Prog[t][is[k]].cell, val |-> Prog[t][is[k]].arg]]

TSO == INSTANCE CallTSO
         WITH tmem <- mem,
              tbuf <- [t \in Threads |->
                        [k \in DOMAIN sbuf[t] |-> [cell |-> sbuf[t][k].cell, val |-> sbuf[t][k].val]]
                        \o PendingStores(t)],
              tpc  <- [t \in Threads |-> TSOCallsDone(t)],
              tres <- res

\* The compiled calls of every thread, with the compiler free to reorder
\* across the barriers __c11_atomic_load/_store/_thread_fence emit, behave
\* as if each call executed at once in program order on x86-TSO, and
\* return what the C11 contract says.
MixedRefinesCallTSO == TSO!TSpec
=============================================================================
