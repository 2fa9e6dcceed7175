---------------------------- MODULE Loops_proofs ----------------------------
(***************************************************************************)
(* Loops of the code are functions from the number of turns taken, defined *)
(* by recursion on it.  The two lemmas here stand for induction on it.     *)
(***************************************************************************)
EXTENDS Integers, TLAPS, WellFoundedInduction

(***************************************************************************)
(* A set of naturals that no step up to n leaves has them all: a least one *)
(* that it lacks would come after one that it has.                         *)
(***************************************************************************)
LEMMA UpTo ==
  ASSUME NEW n \in Nat, NEW G, 0 \in G, \A i \in 1 .. n : i - 1 \in G => i \in G
  PROVE  0 .. n \subseteq G
<1> DEFINE R == {ss \in Nat \X Nat : ss[1] < ss[2]}
           Bad == {i \in 0 .. n : i \notin G}
<1> SUFFICES ASSUME Bad # {} PROVE FALSE
  OBVIOUS
<1>1. IsWellFoundedOn(R, Nat)
  BY NatLessThanWellFounded DEF OpToRel
<1>2. PICK x \in Bad : \A y \in Bad : <<y, x>> \notin R
  <2>1. Bad \subseteq Nat
    OBVIOUS
  <2> HIDE DEF R, Bad
  <2> QED BY <1>1, <2>1, WFMin
<1>3. x \in 1 .. n /\ x - 1 \in 0 .. n
  OBVIOUS
<1>4. x - 1 \in G
  <2> SUFFICES ASSUME x - 1 \in Bad PROVE FALSE
    BY <1>3
  <2> DEFINE ss == <<x - 1, x>>
  <2>1. ss \in Nat \X Nat /\ ss[1] = x - 1 /\ ss[2] = x
    BY <1>3
  <2>2. ss \in R
    <3> HIDE DEF ss
    <3> QED BY <2>1, <1>3
  <2> QED BY <2>2, <1>2
<1> QED BY <1>3, <1>4

\* A loop over a set S of states: what each of n turns makes of them.
Steps(S, n) == [1 .. n -> [S -> S]]

IsLoop(f, S, s0, n, step) ==
  /\ f \in [0 .. n -> S]
  /\ f[0] = s0 /\ \A i \in 1 .. n : f[i] = step[i][f[i - 1]]

\* A function defined by a loop exists, and has its values in S.
LEMMA LoopsEnd ==
  ASSUME NEW S, NEW s0 \in S, NEW n \in Nat, NEW step \in Steps(S, n)
  PROVE  \E f : IsLoop(f, S, s0, n, step)
<1> USE DEF Steps
<1> DEFINE Runs(f, k) == f[0] = s0 /\ \A i \in 1 .. k : f[i] = step[i][f[i - 1]]
           G == {k \in 0 .. n : \E f \in [0 .. k -> S] : Runs(f, k)}
<1>1. 0 \in G
  <2> DEFINE f == [i \in 0 .. 0 |-> s0]
  <2>1. f \in [0 .. 0 -> S] /\ Runs(f, 0)
    OBVIOUS
  <2> HIDE DEF f
  <2> QED BY <2>1
<1>2. ASSUME NEW k \in 1 .. n, k - 1 \in G PROVE k \in G
  <2>1. PICK f \in [0 .. k - 1 -> S] : Runs(f, k - 1)
    BY <1>2
  <2>2. step[k][f[k - 1]] \in S
    OBVIOUS
  <2> DEFINE g == [i \in 0 .. k |-> IF i = k THEN step[k][f[k - 1]] ELSE f[i]]
  <2>3. g \in [0 .. k -> S]
    BY <2>2
  <2>4. ASSUME NEW i \in 1 .. k PROVE g[i] = step[i][g[i - 1]]
    <3>1. CASE i = k
      BY <3>1
    <3>2. CASE i # k
      <4>1. i \in 1 .. k - 1 /\ i - 1 \in 0 .. k /\ i - 1 # k
        BY <3>2
      <4> QED BY <4>1, <3>2, <2>1
    <3> QED BY <3>1, <3>2
  <2>5. g[0] = s0
    BY <2>1
  <2>6. Runs(g, k)
    BY <2>4, <2>5
  <2> HIDE DEF g, Runs
  <2> QED BY <2>3, <2>6
<1>3. n \in G
  <2>1. \A i \in 1 .. n : i - 1 \in G => i \in G
    BY <1>2
  <2> HIDE DEF G
  <2>2. 0 .. n \subseteq G
    BY <1>1, <2>1, UpTo
  <2> QED BY <2>2
<1> QED BY <1>3 DEF IsLoop
=============================================================================
