--------------------------- MODULE FoldInduction ---------------------------
(***************************************************************************)
(* Induction along a loop.  A loop over a sequence (the transactions of a  *)
(* block, the blocks of a branch, a work queue) is written as FoldLeft; an *)
(* invariant of the loop holds of its result.  The body and the invariant  *)
(* are parameters of the module, given a value by INSTANCE: a prover       *)
(* cannot instantiate an operator, a substitution can.                     *)
(***************************************************************************)
EXTENDS Sequences, WellFoundedInduction

CONSTANTS
    Op(_, _, _),        \* Op(e, s, x): the state after the body has treated x in the state s
    Good(_, _, _)       \* Good(e, k, s): the invariant after k elements; e does not change

Max(S) == CHOOSE x \in S : \A y \in S : x >= y

(***************************************************************************)
(* The state in which the loop ends: FoldLeft of Op written out, so that   *)
(* an instance of this module does not bring the community modules along.  *)
(***************************************************************************)
Loop(e, base, seq) ==
    LET iter[s \in SUBSET (DOMAIN seq)] ==
          IF s = {} THEN base
          ELSE Op(e, iter[s \ {Max(s)}], seq[Max(s)])
    IN  iter[DOMAIN seq]

(***************************************************************************)
(* A set that holds 0 and, with each number, the next one holds them all:  *)
(* otherwise there were a least number that it does not hold.              *)
(***************************************************************************)
LEMMA SetInduction ==
    ASSUME NEW S, 0 \in S, \A n \in Nat : n \in S => n + 1 \in S
    PROVE  Nat \subseteq S
<1> DEFINE R == {p \in Nat \X Nat : p[1] < p[2]}
           M == Nat \ S
<1>1. R = OpToRel(<, Nat)
  BY DEF OpToRel
<1>2. IsWellFoundedOn(R, Nat)
  BY <1>1, NatLessThanWellFounded
<1> SUFFICES ASSUME M # {} PROVE FALSE
  OBVIOUS
<1>3. M \subseteq Nat
  OBVIOUS
<1> HIDE DEF R
<1>4. PICK x \in M : \A y \in M : ~(<<y, x>> \in R)
  BY <1>2, <1>3, WFMin
<1>5. x \in Nat /\ x # 0 /\ x \notin S
  OBVIOUS
<1>6. x - 1 \in Nat /\ <<x - 1, x>> \in Nat \X Nat /\ x - 1 < x /\ (x - 1) + 1 = x
  BY <1>5
<1>7. <<x - 1, x>> \in R
  BY <1>6 DEF R
<1>8. x - 1 \in S
  BY <1>4, <1>6, <1>7
<1>9. x \in S
  BY <1>6, <1>8
<1>10. QED
  BY <1>5, <1>9

-----------------------------------------------------------------------------
(***************************************************************************)
(* FoldLeft is a recursive function on sets of positions that takes the    *)
(* highest position first.  States(e, base, seq, k, f) says that f is that *)
(* function on the first k positions.                                      *)
(***************************************************************************)
States(e, base, seq, k, f) ==
    f = [s \in SUBSET (1..k) |->
            IF s = {} THEN base ELSE Op(e, f[s \ {Max(s)}], seq[Max(s)])]

\* The highest position of a set that holds the last one.
LEMMA MaxIsLast ==
    ASSUME NEW k \in Nat, NEW s \in SUBSET (1..(k + 1)), k + 1 \in s
    PROVE  Max(s) = k + 1
<1>1. \A y \in s : k + 1 >= y
  OBVIOUS
<1>2. \A x \in s : (\A y \in s : x >= y) => x = k + 1
  BY <1>1
<1>3. QED
  BY <1>1, <1>2 DEF Max

\* The function for no positions.
LEMMA StatesZero ==
    ASSUME NEW e, NEW base, NEW seq
    PROVE  States(e, base, seq, 0, [s \in SUBSET (1..0) |-> base])
<1>1. SUBSET (1..0) = {{}}
  OBVIOUS
<1>2. QED
  BY <1>1 DEF States

\* The function for one position more.
LEMMA StatesNext ==
    ASSUME NEW e, NEW base, NEW seq, NEW k \in Nat, NEW f, States(e, base, seq, k, f)
    PROVE  \E g : States(e, base, seq, k + 1, g)
<1> DEFINE g == [s \in SUBSET (1..(k + 1)) |->
                    IF k + 1 \in s THEN Op(e, f[s \ {k + 1}], seq[k + 1]) ELSE f[s]]
<1>1. ASSUME NEW s \in SUBSET (1..(k + 1))
      PROVE  g[s] = IF s = {} THEN base ELSE Op(e, g[s \ {Max(s)}], seq[Max(s)])
  <2>1. CASE k + 1 \in s
    <3>1. Max(s) = k + 1
      BY <2>1, MaxIsLast
    <3>2. s \ {k + 1} \in SUBSET (1..(k + 1)) /\ k + 1 \notin s \ {k + 1}
      OBVIOUS
    <3>3. g[s \ {k + 1}] = f[s \ {k + 1}]
      BY <3>2
    <3>4. g[s] = Op(e, f[s \ {k + 1}], seq[k + 1])
      BY <2>1
    <3>5. QED
      BY <2>1, <3>1, <3>3, <3>4
  <2>2. CASE k + 1 \notin s
    <3>1. s \in SUBSET (1..k)
      BY <2>2
    <3>2. g[s] = f[s]
      BY <2>2
    <3>3. f[s] = IF s = {} THEN base ELSE Op(e, f[s \ {Max(s)}], seq[Max(s)])
      BY <3>1 DEF States
    <3>4. s \ {Max(s)} \in SUBSET (1..(k + 1)) /\ k + 1 \notin s \ {Max(s)}
      BY <2>2
    <3>5. g[s \ {Max(s)}] = f[s \ {Max(s)}]
      BY <3>4
    <3>6. QED
      BY <3>2, <3>3, <3>5
  <2>3. QED
    BY <2>1, <2>2
<1>2. g = [s \in SUBSET (1..(k + 1)) |->
              IF s = {} THEN base ELSE Op(e, g[s \ {Max(s)}], seq[Max(s)])]
  BY <1>1
<1>3. States(e, base, seq, k + 1, g)
  BY <1>2 DEF States
<1>4. QED
  BY <1>3

\* The function exists for every number of positions.
LEMMA StatesExist ==
    ASSUME NEW e, NEW base, NEW seq, NEW k \in Nat
    PROVE  \E f : States(e, base, seq, k, f)
<1> DEFINE S == {n \in Nat : \E f : States(e, base, seq, n, f)}
<1>1. 0 \in S
  BY StatesZero
<1>2. ASSUME NEW n \in Nat, n \in S PROVE n + 1 \in S
  <2>1. PICK f : States(e, base, seq, n, f)
    BY <1>2
  <2>2. \E g : States(e, base, seq, n + 1, g)
    BY <2>1, StatesNext
  <2>3. QED
    BY <2>2
<1> HIDE DEF S
<1>3. Nat \subseteq S
  BY <1>1, <1>2, SetInduction
<1>4. QED
  BY <1>3 DEF S

\* FoldLeft is what it is meant to be: the value of that function at all positions.
LEMMA FoldIsState ==
    ASSUME NEW e, NEW base, NEW T, NEW seq \in Seq(T)
    PROVE  \E f : /\ States(e, base, seq, Len(seq), f)
                  /\ Loop(e, base, seq) = f[1..Len(seq)]
<1>1. Len(seq) \in Nat /\ DOMAIN seq = 1..Len(seq)
  OBVIOUS
<1> DEFINE D(f) == f = [s \in SUBSET (DOMAIN seq) |->
                           IF s = {} THEN base ELSE Op(e, f[s \ {Max(s)}], seq[Max(s)])]
           it == CHOOSE f : D(f)
<1>2. Loop(e, base, seq) = it[DOMAIN seq]
  BY DEF Loop
<1>3. \E f : D(f)
  <2>1. PICK f : States(e, base, seq, Len(seq), f)
    BY <1>1, StatesExist
  <2>2. D(f)
    BY <1>1, <2>1 DEF States
  <2>3. QED
    BY <2>2
<1>4. D(it)
  BY <1>3
<1>5. States(e, base, seq, Len(seq), it)
  BY <1>1, <1>4 DEF States
<1>6. QED
  BY <1>1, <1>2, <1>5

(***************************************************************************)
(* An invariant that holds before the loop and that the body keeps for     *)
(* each element of the sequence holds after the loop.                      *)
(***************************************************************************)
THEOREM FoldInvariant ==
    ASSUME NEW e, NEW base, NEW T, NEW seq \in Seq(T),
           Good(e, 0, base),
           \A k \in 1..Len(seq) : \A s : Good(e, k - 1, s) => Good(e, k, Op(e, s, seq[k]))
    PROVE  Good(e, Len(seq), Loop(e, base, seq))
<1>1. PICK f : /\ States(e, base, seq, Len(seq), f)
               /\ Loop(e, base, seq) = f[1..Len(seq)]
  BY FoldIsState
<1> DEFINE S == {n \in Nat : n <= Len(seq) => Good(e, n, f[1..n])}
<1>2. Len(seq) \in Nat
  OBVIOUS
<1>3. 0 \in S
  <2>1. 1..0 = {} /\ 1..0 \in SUBSET (1..Len(seq))
    BY <1>2
  <2>2. f[1..0] = base
    BY <1>1, <2>1 DEF States
  <2>3. QED
    BY <2>2
<1>4. ASSUME NEW n \in Nat, n \in S PROVE n + 1 \in S
  <2> SUFFICES ASSUME n + 1 <= Len(seq) PROVE Good(e, n + 1, f[1..(n + 1)])
    OBVIOUS
  <2>1. Good(e, n, f[1..n])
    BY <1>2, <1>4
  <2>2. /\ 1..(n + 1) \in SUBSET (1..(n + 1)) /\ 1..(n + 1) \in SUBSET (1..Len(seq))
        /\ n + 1 \in 1..(n + 1)
    BY <1>2
  <2>3. Max(1..(n + 1)) = n + 1
    BY <2>2, MaxIsLast
  <2>4. (1..(n + 1)) \ {n + 1} = 1..n
    OBVIOUS
  <2>5. 1..(n + 1) # {}
    BY <2>2
  <2>6. f[1..(n + 1)] = Op(e, f[1..n], seq[n + 1])
    BY <1>1, <2>2, <2>3, <2>4, <2>5 DEF States
  <2>7. n + 1 \in 1..Len(seq) /\ (n + 1) - 1 = n
    BY <1>2
  <2>8. Good(e, n, f[1..n]) => Good(e, n + 1, Op(e, f[1..n], seq[n + 1]))
    BY <2>7
  <2>9. QED
    BY <2>1, <2>6, <2>8
<1> HIDE DEF S
<1>5. Nat \subseteq S
  BY <1>3, <1>4, SetInduction
<1>6. QED
  BY <1>1, <1>2, <1>5 DEF S

=============================================================================
