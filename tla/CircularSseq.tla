---------------------------- MODULE CircularSseq ----------------------------
(***************************************************************************)
(* The seed-sequence fixture of the random-engine conformance tests,       *)
(* test/support/circular_sseq.h.  The object holds a pointer _b to an      *)
(* array of _size unsigned values and a cursor index; generate hands out  *)
(* the array cyclically from the cursor and advances it, param copies the  *)
(* array from the cursor.                                                  *)
(*                                                                         *)
(* _b points either to the static list vals = {1,2,3,4} or, after the      *)
(* initializer_list constructor, to the array behind the caller's braced   *)
(* list.  That array lives as long as the constructor's parameter: at the  *)
(* end of the declaration circular_sseq sseq{3, 5, 7}; it is dead and its *)
(* stack slots may be reused by the same frame's later locals (Clobber).  *)
(* Reading it is undefined; the model lets the read see whatever the slot *)
(* holds.                                                                  *)
(***************************************************************************)
EXTENDS Naturals, Sequences, SequencesExt

CONSTANTS
  Lists,      \* the braced lists passed to circular_sseq(initializer_list)
  Requests,   \* the word counts an engine's seed(q) asks generate for
  Junk,       \* values a reused stack slot may hold
  MaxCalls    \* bound on the number of generate calls

\* static const std::initializer_list<unsigned int> vals
DefaultVals == <<1, 2, 3, 4>>

ASSUME \A l \in Lists : l \in Seq(Nat) /\ l # <<>>
ASSUME Requests \subseteq Nat /\ Junk \subseteq Nat /\ MaxCalls \in Nat

VARIABLES
  phase,    \* "none", "decl" (inside the declaration statement), "ready"
  store,    \* the array _b points to: "static" or "list"
  arr,      \* contents of the braced list's array
  alive,    \* whether that array is still alive
  size,     \* _size
  index,    \* index
  first,    \* index right after construction (history)
  gen,      \* the outputs of the generate calls so far (history)
  pdest     \* the destination of the last param call

svars == <<phase, store, arr, alive, size, index, first, gen, pdest>>

Storage == IF store = "static" THEN DefaultVals ELSE arr

\* _b[j]
Elem(j) == Storage[j + 1]

Init ==
  /\ phase = "none" /\ store = "static" /\ arr = <<>> /\ alive = FALSE
  /\ size = 0 /\ index = 0 /\ first = 0 /\ gen = <<>> /\ pdest = <<>>

Construct(st, a, sz, idx, ph) ==
  /\ phase = "none"
  /\ phase' = ph /\ store' = st /\ arr' = a /\ alive' = (st = "list")
  /\ size' = sz /\ index' = idx /\ first' = idx
  /\ UNCHANGED <<gen, pdest>>

\* circular_sseq(): _b = vals.begin(), _size = 4, index = 0.
DefaultCtor == Construct("static", <<>>, Len(DefaultVals), 0, "ready")

\* circular_sseq(std::initializer_list<unsigned> v): _b = v.begin().
ListCtor(l) == Construct("list", l, Len(l), 0, "decl")

\* circular_sseq(InputIter, InputIter): index = 1, the rest defaulted.
IterCtor == Construct("static", <<>>, Len(DefaultVals), 1, "ready")

\* End of the declaration: the initializer_list parameter and its array die.
EndDecl ==
  /\ phase = "decl"
  /\ phase' = "ready" /\ alive' = FALSE
  /\ UNCHANGED <<store, arr, size, index, first, gen, pdest>>

\* The enclosing frame (test1's engines, declared next) reuses a slot of
\* the dead array.
Clobber ==
  /\ phase = "ready" /\ store = "list" /\ ~alive
  /\ \E k \in DOMAIN arr, v \in Junk : arr' = [arr EXCEPT ![k] = v]
  /\ UNCHANGED <<phase, store, alive, size, index, first, gen, pdest>>

GenerateNoWrap(n) ==
  /\ phase = "ready" /\ Len(gen) < MaxCalls
  /\ gen' = Append(gen, [k \in 1 .. n |-> Elem((index + k - 1) % size)])
  /\ index' = index + n
  /\ UNCHANGED <<phase, store, arr, alive, size, first, pdest>>

GenerateIncrementFirst(n) ==
  /\ phase = "ready" /\ Len(gen) < MaxCalls
  /\ gen' = Append(gen, [k \in 1 .. n |-> Elem((index + k) % size)])
  /\ index' = (index + n) % size
  /\ UNCHANGED <<phase, store, arr, alive, size, first, pdest>>

\* generate(b, e): *b = _b[index]; index = (index + 1) % _size; for each
\* of the n = e - b destination words.
Generate(n) ==
  /\ phase = "ready" /\ Len(gen) < MaxCalls
  /\ gen' = Append(gen, [k \in 1 .. n |-> Elem((index + k - 1) % size)])
  /\ index' = (index + n) % size
  /\ UNCHANGED <<phase, store, arr, alive, size, first, pdest>>

\* param(out): *out = _b[(index + i) % _size] for i = 0 .. _size - 1; out
\* is never advanced, so every value lands in the first destination word
\* of a zero-filled destination of _size words.
Param ==
  /\ phase = "ready"
  /\ pdest' = [k \in 1 .. size |-> IF k = 1 THEN Elem((index + size - 1) % size) ELSE 0]
  /\ UNCHANGED <<phase, store, arr, alive, size, index, first, gen>>

Next ==
  \/ DefaultCtor \/ IterCtor \/ \E l \in Lists : ListCtor(l)
  \/ EndDecl \/ Clobber \/ Param
  \/ \E n \in Requests : Generate(n)

Spec == Init /\ [][Next]_svars

(***************************************************************************)
(* Properties.                                                             *)
(***************************************************************************)
Stream == FlattenSeq(gen)

\* The words a fresh object would hand out from cursor i.
Rotation(i, n) == [k \in 1 .. n |-> Elem((i + k - 1) % size)]

\* The cursor stays an index of the array: every later _b[index] is in
\* bounds.
TypeOK ==
  /\ phase \in {"none", "decl", "ready"}
  /\ store \in {"static", "list"}
  /\ phase # "none" => index \in 0 .. (size - 1)
  /\ Len(gen) <= MaxCalls

\* generate hands out one cyclic stream across calls, neither skipping nor
\* repeating a word: the cursor is the construction cursor plus every word
\* handed out, and, over the static list, the words are the list read
\* cyclically from the construction cursor.
StreamContinues ==
  /\ phase = "ready" => index = (first + Len(Stream)) % size
  /\ store = "static" /\ phase = "ready" => Stream = Rotation(first, Len(Stream))

\* What the random-engine tests assert with e2(sseq); e1.seed(sseq);
\* assert(e1 == e2): two seedings of the same engine from the fixture
\* receive the same words.
TwoSeedingsAgree ==
  Len(gen) = 2 /\ Len(gen[1]) = Len(gen[2]) => gen[1] = gen[2]

\* The Seed Sequence requirement on param: it copies out values that
\* reproduce the object's state, i.e. the list read from the cursor.
ParamReproducesState ==
  [][pdest' # pdest => pdest' = Rotation(index, size)]_svars
=============================================================================
