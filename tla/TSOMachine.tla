----------------------------- MODULE TSOMachine -----------------------------
(***************************************************************************)
(* Threads calling the entry points of C11Atomic on shared _Atomic cells,  *)
(* run by the compiler and the x86 processor the shim targets.             *)
(*                                                                         *)
(* Each thread t has a program Prog[t], a sequence of calls.  Code(t) is   *)
(* the sequence of machine steps those calls emit (C11Atomic!Compile).     *)
(*   - The compiler may move a step ahead of an earlier one unless the two *)
(*     conflict: a barrier, a locked instruction or __MemoryBarrier        *)
(*     conflicts with every step, and two accesses conflict when they      *)
(*     touch the same cell.  done[t] is the set of steps already issued.   *)
(*   - The processor is x86-TSO: a plain write enters the thread's FIFO    *)
(*     store buffer sbuf[t] and reaches mem later (Drain); a plain read    *)
(*     sees the thread's newest buffered write to the cell, else mem; a    *)
(*     locked instruction waits for the buffer to be empty and then reads  *)
(*     and writes mem in one step.                                         *)
(* res[t][i] is the value call i of thread t returned.                     *)
(***************************************************************************)
EXTENDS Integers, Sequences, SequencesExt, FiniteSets, C11Atomic

CONSTANTS
  Threads,    \* thread ids
  Cells,      \* the _Atomic(_Tp) cells
  Prog,       \* Prog[t]: the calls thread t makes, in program order
  InitVal,    \* InitVal[c]: the value __c11_atomic_init gave cell c
  NoResult    \* res of a call that has not returned or returns void

ASSUME InitVal \in [Cells -> Word]
ASSUME \A t \in Threads : \A i \in DOMAIN Prog[t] :
         Prog[t][i].op \in OpNames /\ Prog[t][i].order \in Orders

VARIABLES mem, sbuf, done, res

vars == <<mem, sbuf, done, res>>

\* The steps call i of thread t emits, each tagged with i.
Tagged(t, i) ==
  LET s == Compile(Prog[t][i]) IN [j \in DOMAIN s |-> [op |-> i] @@ s[j]]

\* Constant-level, so that TLC computes it once.
Codes == [t \in Threads |-> FlattenSeq([i \in DOMAIN Prog[t] |-> Tagged(t, i)])]

Code(t) == Codes[t]

\* Steps the compiler never moves another step across.
OrderingKinds == {"cb", "locked", "mfence"}
AccessKinds   == {"read", "write"}

Conflicts(a, b) ==
  \/ a.kind \in OrderingKinds
  \/ b.kind \in OrderingKinds
  \/ a.kind \in AccessKinds /\ b.kind \in AccessKinds /\ a.cell = b.cell

\* Step k of thread t may issue: every earlier step that has not issued
\* could be reordered after it.
Ready(t, k) ==
  /\ k \notin done[t]
  /\ \A j \in 1 .. (k - 1) : j \in done[t] \/ ~Conflicts(Code(t)[j], Code(t)[k])

\* The step of call i that performs its access (or, for a fence, the
\* fence itself): the step where the call takes effect.
EffectOf(t, i) ==
  LET ks  == {k \in DOMAIN Code(t) : Code(t)[k].op = i}
      acc == {k \in ks : Code(t)[k].kind \notin {"cb", "nop"}}
  IN  IF acc # {} THEN Min(acc) ELSE Min(ks)

Effects == [t \in Threads |-> [i \in DOMAIN Prog[t] |-> EffectOf(t, i)]]

Effect(t, i) == Effects[t][i]

\* The word m after a buffered write e of the bytes e.mask.
Merge(m, e) == (m & ((Mod - 1) ^^ e.mask)) | e.val

\* What a plain read of cell c by thread t returns under TSO: memory with
\* the thread's own buffered writes to c applied, oldest first.
Visible(t, c) ==
  FoldLeft(Merge, mem[c], SelectSeq(sbuf[t], LAMBDA e : e.cell = c))

\* The return value of a step, given what the machine produced.
ResultOf(s, ret) ==
  CASE s.yield = "value" -> ret
    [] s.yield = "cas"   -> CasResult(s.exp, ret)
    [] s.yield = "none"  -> NoResult

Record(t, s, v) == res' = [res EXCEPT ![t][s.op] = v]

Init ==
  /\ mem  = InitVal
  /\ sbuf = [t \in Threads |-> <<>>]
  /\ done = [t \in Threads |-> {}]
  /\ res  = [t \in Threads |-> [i \in DOMAIN Prog[t] |-> NoResult]]

(***************************************************************************)
(* One action per kind of step.                                            *)
(***************************************************************************)
\* _ReadWriteBarrier(), or no instruction: only constrains the compiler.
IssueBarrier(t, k) ==
  /\ Code(t)[k].kind \in {"cb", "nop"}
  /\ done' = [done EXCEPT ![t] = @ \cup {k}]
  /\ UNCHANGED <<mem, sbuf, res>>

\* _Tp __ret = __a->__a_value;
IssueRead(t, k) ==
  LET s == Code(t)[k] IN
  /\ s.kind = "read"
  /\ done' = [done EXCEPT ![t] = @ \cup {k}]
  /\ Record(t, s, ResultOf(s, Visible(t, s.cell)))
  /\ UNCHANGED <<mem, sbuf>>

\* __a->__a_value = __val; or *to = *from; of one byte
IssueWrite(t, k) ==
  LET s == Code(t)[k] IN
  /\ s.kind = "write"
  /\ sbuf' = [sbuf EXCEPT ![t] = Append(@, [cell |-> s.cell, val |-> s.arg, mask |-> s.mask])]
  /\ done' = [done EXCEPT ![t] = @ \cup {k}]
  /\ UNCHANGED <<mem, res>>

\* __x86_ops<sizeof(_Tp)>::__op(&__a->__a_value, ...)
IssueLocked(t, k) ==
  LET s == Code(t)[k]
      r == X86Op(s.rmw, mem[s.cell], s.arg, s.exp)
  IN
  /\ s.kind = "locked"
  /\ sbuf[t] = <<>>
  /\ mem' = [mem EXCEPT ![s.cell] = r.new]
  /\ done' = [done EXCEPT ![t] = @ \cup {k}]
  /\ Record(t, s, ResultOf(s, r.ret))
  /\ UNCHANGED sbuf

\* __MemoryBarrier(): a locked exchange on a private location.
IssueMemoryBarrier(t, k) ==
  /\ Code(t)[k].kind = "mfence"
  /\ sbuf[t] = <<>>
  /\ done' = [done EXCEPT ![t] = @ \cup {k}]
  /\ UNCHANGED <<mem, sbuf, res>>

Issue(t, k) ==
  /\ Ready(t, k)
  /\ \/ IssueBarrier(t, k)
     \/ IssueRead(t, k)
     \/ IssueWrite(t, k)
     \/ IssueLocked(t, k)
     \/ IssueMemoryBarrier(t, k)

\* The oldest buffered write of thread t reaches memory.
Drain(t) ==
  /\ sbuf[t] # <<>>
  /\ mem' = [mem EXCEPT ![Head(sbuf[t]).cell] = Merge(@, Head(sbuf[t]))]
  /\ sbuf' = [sbuf EXCEPT ![t] = Tail(@)]
  /\ UNCHANGED <<done, res>>

Next ==
  \E t \in Threads :
    \/ \E k \in DOMAIN Code(t) : Issue(t, k)
    \/ Drain(t)

\* A thread that can issue a step eventually does (the OS keeps running
\* it: no entry point blocks), and a store buffer eventually drains.
Fairness ==
  \A t \in Threads :
    /\ WF_vars(\E k \in DOMAIN Code(t) : Issue(t, k))
    /\ WF_vars(Drain(t))

Spec == Init /\ [][Next]_vars /\ Fairness

(***************************************************************************)
(* Views used by properties and by the refinement mapping.                 *)
(***************************************************************************)
Finished(t) == done[t] = DOMAIN Code(t) /\ sbuf[t] = <<>>
AllFinished == \A t \in Threads : Finished(t)

\* Number of calls of thread t that have taken effect.
EffectsDone(t) ==
  Cardinality({i \in DOMAIN Prog[t] : Effect(t, i) \in done[t]})

CasOps == {"cas_strong", "cas_weak"}

ResultType(p) ==
  {NoResult} \cup (IF p.op \in CasOps THEN [ok : BOOLEAN, expected : Word] ELSE Word)

\* The __a_value of every _Atomic(_Tp) cell.
CellValues == [Cells -> Word]

TypeOK ==
  /\ mem \in CellValues
  /\ \A t \in Threads :
       /\ sbuf[t] \in Seq([cell : Cells, val : Word, mask : Word])
       /\ done[t] \subseteq DOMAIN Code(t)
       /\ DOMAIN res[t] = DOMAIN Prog[t]
       /\ \A i \in DOMAIN Prog[t] : res[t][i] \in ResultType(Prog[t][i])
=============================================================================
