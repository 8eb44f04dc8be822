------------------------------- MODULE CasLoop -------------------------------
(***************************************************************************)
(* The retry loop a caller builds on __c11_atomic_compare_exchange_weak    *)
(* (spec section 7: the core has no retries, a caller wanting             *)
(* retry-until-success loops implements them):                            *)
(*                                                                         *)
(*   exp = __c11_atomic_load(&x, relaxed);                                 *)
(*   while (!__c11_atomic_compare_exchange_weak(&x, &exp, exp + 1, ...)) ; *)
(*                                                                         *)
(* repeated Increments times by every thread.  The loop relies on the      *)
(* entry point writing the observed value back into exp on failure.       *)
(* The load and the compare-exchange touch only x and the thread makes no *)
(* plain write, so its store buffer stays empty and the locked            *)
(* instruction is a compiler barrier: each step is atomic on x.           *)
(***************************************************************************)
EXTENDS Naturals, Functions, C11Atomic

CONSTANTS
  Threads,      \* the looping threads
  Increments,   \* how many increments each thread performs
  InitX         \* the value __c11_atomic_init gave x

ASSUME Increments \in Nat \ {0} /\ InitX \in Word

VARIABLES x, exp, pc, count

cvars == <<x, exp, pc, count>>

Init ==
  /\ x = InitX
  /\ exp = [t \in Threads |-> 0]
  /\ pc = [t \in Threads |-> "load"]
  /\ count = [t \in Threads |-> 0]

\* exp = __c11_atomic_load(&x, memory_order_relaxed)
LoadExpected(t) ==
  /\ pc[t] = "load"
  /\ exp' = [exp EXCEPT ![t] = x]
  /\ pc' = [pc EXCEPT ![t] = "cas"]
  /\ UNCHANGED <<x, count>>

\* One iteration of the while loop: the compare-exchange as the shim
\* compiles it, with *expected updated by CasResult; on success the
\* increment is counted and the thread starts its next one or stops.
TryCas(t) ==
  LET s  == CompareExchangeWeak("x", exp[t], (exp[t] + 1) % Mod)[1]
      r  == X86Op(s.rmw, x, s.arg, s.exp)
      cr == CasResult(s.exp, r.ret)
  IN
  /\ pc[t] = "cas"
  /\ x' = r.new
  /\ exp' = [exp EXCEPT ![t] = cr.expected]
  /\ IF cr.ok
       THEN /\ count' = [count EXCEPT ![t] = @ + 1]
            /\ pc' = [pc EXCEPT ![t] = IF count[t] + 1 < Increments THEN "load" ELSE "done"]
       ELSE UNCHANGED <<count, pc>>

Next == \E t \in Threads : LoadExpected(t) \/ TryCas(t)

\* A running thread keeps being scheduled; no entry point blocks.
Spec == Init /\ [][Next]_cvars /\ \A t \in Threads : WF_cvars(LoadExpected(t) \/ TryCas(t))

TypeOK ==
  /\ x \in Word
  /\ exp \in [Threads -> Word]
  /\ pc \in [Threads -> {"load", "cas", "done"}]
  /\ count \in [Threads -> 0 .. Increments]

Total == SumFunction(count)

\* Every counted increment is in x and no other change is: in every state
\* x is its initial value plus the successful compare-exchanges of all
\* threads, modulo the word; a compare-exchange reported as successful
\* really stored, and one that stored was reported.
IncrementsAccounted == x = (InitX + Total) % Mod

\* Every thread's retry loop terminates: a failed compare-exchange hands
\* the thread the current value, so it fails again only if another
\* thread's increment succeeded in between.
AllLoopsTerminate == <>(\A t \in Threads : pc[t] = "done")
=============================================================================
