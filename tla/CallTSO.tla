------------------------------ MODULE CallTSO ------------------------------
(***************************************************************************)
(* What the barrier mapping of the generic atomic layer promises when no   *)
(* load or store is relaxed (spec section 4.2: acquire, release, acq_rel   *)
(* and consume get a compiler barrier, seq_cst a locked instruction): the  *)
(* calls of a thread execute one at a time, in program order, as the x86  *)
(* instructions they stand for, on a machine with a FIFO store buffer per  *)
(* thread (x86-TSO at the granularity of calls).                           *)
(*   - a store that is not seq_cst enters the thread's buffer tbuf[t];     *)
(*   - a load reads the thread's newest buffered store to the cell, else   *)
(*     memory;                                                             *)
(*   - a seq_cst store, every read-modify-write call and a seq_cst thread  *)
(*     fence wait for an empty buffer and then act on memory atomically;   *)
(*   - any other fence does nothing;                                       *)
(*   - the oldest buffered store reaches memory at some later time.        *)
(* Return values are those of the C11 contract (AtomicSpec!Contract).      *)
(***************************************************************************)
EXTENDS Integers, Sequences, SequencesExt

CONSTANTS Threads, Cells, Prog, InitVal, NoResult, Bits

VARIABLES tmem, tbuf, tpc, tres

tvars == <<tmem, tbuf, tpc, tres>>

LOCAL A == INSTANCE AtomicSpec WITH amem <- tmem, apc <- tpc, ares <- tres

\* Calls that go through the store buffer, and fences that act on nothing.
BufferedCall(p) == p.op = "store" /\ p.order # "seq_cst"
NoOpFence(p)    == p.op \in A!FenceOps /\ ~(p.op = "thread_fence" /\ p.order = "seq_cst")

\* The value a load of cell c by thread t reads.
TSOVisible(t, c) ==
  LET w == SelectLastInSeq(tbuf[t], LAMBDA e : e.cell = c)
  IN  IF w = 0 THEN tmem[c] ELSE tbuf[t][w].val

TInit ==
  /\ tmem = InitVal
  /\ tbuf = [t \in Threads |-> <<>>]
  /\ tpc  = [t \in Threads |-> 0]
  /\ tres = [t \in Threads |-> [i \in DOMAIN Prog[t] |-> NoResult]]

\* Thread t's next call executes.
TCall(t) ==
  LET i == tpc[t] + 1
      p == Prog[t][i]
  IN
  /\ i \in DOMAIN Prog[t]
  /\ tpc' = [tpc EXCEPT ![t] = i]
  /\ \/ /\ BufferedCall(p)
        /\ tbuf' = [tbuf EXCEPT ![t] = Append(@, [cell |-> p.cell, val |-> p.arg])]
        /\ UNCHANGED <<tmem, tres>>
     \/ /\ p.op = "load"
        /\ tres' = [tres EXCEPT ![t][i] = TSOVisible(t, p.cell)]
        /\ UNCHANGED <<tmem, tbuf>>
     \/ /\ NoOpFence(p)
        /\ UNCHANGED <<tmem, tbuf, tres>>
     \/ /\ p.op = "thread_fence" /\ p.order = "seq_cst"
        /\ tbuf[t] = <<>>
        /\ UNCHANGED <<tmem, tbuf, tres>>
     \/ /\ p.op \notin {"load", "thread_fence", "signal_fence"}
        /\ ~BufferedCall(p)
        /\ tbuf[t] = <<>>
        /\ LET r == A!Contract(p, tmem[p.cell]) IN
           /\ tmem' = [tmem EXCEPT ![p.cell] = r.new]
           /\ tres' = [tres EXCEPT ![t][i] = r.ret]
        /\ UNCHANGED tbuf

\* The oldest buffered store of thread t reaches memory.
TDrain(t) ==
  /\ tbuf[t] # <<>>
  /\ tmem' = [tmem EXCEPT ![Head(tbuf[t]).cell] = Head(tbuf[t]).val]
  /\ tbuf' = [tbuf EXCEPT ![t] = Tail(@)]
  /\ UNCHANGED <<tpc, tres>>

TNext == \E t \in Threads : TCall(t) \/ TDrain(t)

TSpec ==
  /\ TInit /\ [][TNext]_tvars
  /\ \A t \in Threads : WF_tvars(TCall(t)) /\ WF_tvars(TDrain(t))
=============================================================================
