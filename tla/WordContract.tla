---------------------------- MODULE WordContract ----------------------------
(***************************************************************************)
(* One read-modify-write call of the generic layer on one cell, at a full *)
(* word width: the cell starts with any value, the call is any entry point *)
(* with any operand, and it runs as the shim compiles it (Compile, X86Op,  *)
(* CasResult).  The result is compared with the C11 contract of            *)
(* AtomicSpec.  With Bits = 8 this is __x86_ops<1> on every input.         *)
(***************************************************************************)
EXTENDS Integers, Sequences, C11Atomic

VARIABLES val, pre, call, out

wvars == <<val, pre, call, out>>

None == [op |-> "none"]

C11 == INSTANCE AtomicSpec
         WITH Threads <- {}, Cells <- {"cell"}, Prog <- <<>>,
              InitVal <- [c \in {"cell"} |-> 0], NoResult <- "none",
              amem <- <<>>, apc <- <<>>, ares <- <<>>

\* The read-modify-write calls on a cell holding m: every operand; for a
\* compare-exchange an expected value that matches and one that does not.
Calls(m) ==
  LET Call(op, a, e) == [op |-> op, cell |-> "cell", arg |-> a, exp |-> e, order |-> "seq_cst"]
  IN  {Call(op, a, 0) : op \in {"exchange", "fetch_add", "fetch_sub", "fetch_and",
                                "fetch_or", "fetch_xor"}, a \in Word}
      \cup {Call(op, a, e) : op \in {"cas_strong", "cas_weak"}, a \in Word,
                             e \in {m, (m + 1) % Mod}}

Init ==
  /\ val \in Word
  /\ pre = val
  /\ call = None
  /\ out = "none"

\* The call executes: its single locked step on the cell, and the value
\* the entry point returns.
Execute ==
  /\ call = None
  /\ \E p \in Calls(val) :
       LET s == Compile(p)[1]
           r == X86Op(s.rmw, val, s.arg, s.exp)
       IN  /\ val' = r.new
           /\ call' = p
           /\ out' = IF s.yield = "cas" THEN CasResult(s.exp, r.ret) ELSE r.ret
  /\ UNCHANGED pre

Spec == Init /\ [][Execute]_wvars

\* Every entry point leaves in the cell what the C11 contract says, at the
\* full word width and for every operand (fetch_sub's delta * -1 converted
\* to the operand type included), and returns what the contract says:
\* exchange and fetch_and/or/xor the prior value, compare-exchange the
\* outcome and the written-back *expected.  fetch_add and fetch_sub are
\* held to their stored value only: their return value is the finding of
\* the fetch_add_prior run.
CallsMeetContract ==
  call # None =>
    LET want == C11!Contract(call, pre) IN
    /\ val = want.new
    /\ call.op \notin {"fetch_add", "fetch_sub"} => out = want.ret
=============================================================================
