--------------------------- MODULE ArgumentProofs ---------------------------
(* What the loop of validate_request_args computes, for every list of         *)
(* arguments: the running total is the sum of the sizes, and the loop accepts *)
(* exactly the arguments that pass each on its own.  The folds are recursive  *)
(* functions on sets of positions, so the proofs go by least counterexample.  *)

EXTENDS FrontDoorProofs

-----------------------------------------------------------------------------
(* Induction on sets of numbers.                                              *)

\* A set of numbers that is not empty has a least one.
LEMMA LeastExists ==
    ASSUME NEW T \in SUBSET Nat, T # {}
    PROVE  \E m \in T : \A k \in T : m <= k
<1>1. PICK m \in T : \A k \in T : ~(<<k, m>> \in OpToRel(<, Nat))
  BY WFMin, NatLessThanWellFounded
<1>2. \A k \in T : ~(k < m)
  BY <1>1 DEF OpToRel
<1> QED
  BY <1>2

\* A set of numbers with 0 and the successors of its members is Nat.
LEMMA NumbersBelong ==
    ASSUME NEW P \in SUBSET Nat, 0 \in P, \A n \in P : n + 1 \in P
    PROVE  \A n \in Nat : n \in P
<1> SUFFICES ASSUME NEW x \in Nat \ P
             PROVE  FALSE
  OBVIOUS
<1> PICK m \in Nat \ P : \A k \in Nat \ P : m <= k
  BY LeastExists
<1>1. m # 0 /\ m - 1 \in Nat
  OBVIOUS
<1>2. m - 1 \in P
  OBVIOUS
<1> QED
  BY <1>1, <1>2

\* A set of positions that is not empty has a last one.
LEMMA LastExists ==
    ASSUME NEW n \in Nat, NEW s \in SUBSET (1..n), s # {}
    PROVE  \E x \in s : \A y \in s : x >= y
<1> DEFINE T == {n - x : x \in s}
<1>1. PICK x \in s : TRUE
  OBVIOUS
<1>2. T \in SUBSET Nat /\ n - x \in T
  OBVIOUS
<1>3. PICK m \in T : \A k \in T : m <= k
  BY <1>2, LeastExists
<1>4. PICK z \in s : m = n - z
  OBVIOUS
<1>5. ASSUME NEW y \in s
      PROVE  z >= y
  <2>1. n - y \in T
    OBVIOUS
  <2>2. m <= n - y
    BY <1>3, <2>1
  <2> QED
    BY <1>4, <2>2
<1> QED
  BY <1>5

-----------------------------------------------------------------------------
(* Sums over sets of positions.                                               *)

\* sum gives each set of positions the sum of its weights, in whatever order
\* they are added.
Sums(sum, n, w) ==
    /\ sum \in [SUBSET (1..n) -> Nat]
    /\ sum[{}] = 0
    /\ \A s \in SUBSET (1..n) : \A y \in s : sum[s] = w[y] + sum[s \ {y}]

\* One more position: a set with it weighs as much as the rest and the new one.
LEMMA SumGrows ==
    ASSUME NEW n \in Nat, NEW w \in [1..(n + 1) -> Nat], NEW sum, Sums(sum, n, w)
    PROVE  \E more : Sums(more, n + 1, w)
<1> DEFINE D == 1..n
           a == n + 1
           more == [s \in SUBSET (1..a) |-> IF a \in s THEN w[a] + sum[s \ {a}] ELSE sum[s]]
<1>1. /\ a \in 1..a /\ a \notin D
      /\ \A s \in SUBSET (1..a) : s \ {a} \in SUBSET D
      /\ \A s \in SUBSET (1..a) : a \notin s => s \in SUBSET D
  OBVIOUS
<1>2. /\ sum \in [SUBSET D -> Nat] /\ sum[{}] = 0
      /\ \A s \in SUBSET D : \A y \in s : sum[s] = w[y] + sum[s \ {y}]
  BY DEF Sums
<1>3. more \in [SUBSET (1..a) -> Nat]
  <2> SUFFICES ASSUME NEW s \in SUBSET (1..a)
               PROVE  (IF a \in s THEN w[a] + sum[s \ {a}] ELSE sum[s]) \in Nat
    OBVIOUS
  <2> QED
    BY <1>1, <1>2
<1>4. more[{}] = 0
  BY <1>2
<1>5. ASSUME NEW s \in SUBSET (1..a), NEW y \in s
      PROVE  more[s] = w[y] + more[s \ {y}]
  <2>1. CASE y = a
    <3>1. s \ {y} \in SUBSET (1..a) /\ a \notin s \ {y}
      BY <2>1
    <3>2. more[s] = w[a] + sum[s \ {a}] /\ more[s \ {y}] = sum[s \ {y}]
      BY <2>1, <3>1
    <3> QED
      BY <2>1, <3>2
  <2>2. CASE y # a /\ a \notin s
    <3>1. s \in SUBSET D /\ s \ {y} \in SUBSET (1..a) /\ a \notin s \ {y}
      BY <1>1, <2>2
    <3>2. more[s] = sum[s] /\ more[s \ {y}] = sum[s \ {y}]
      BY <2>2, <3>1
    <3> QED
      BY <1>2, <3>1, <3>2
  <2>3. CASE y # a /\ a \in s
    <3>1. /\ s \ {a} \in SUBSET D /\ y \in s \ {a}
          /\ s \ {y} \in SUBSET (1..a) /\ a \in s \ {y}
          /\ (s \ {a}) \ {y} = (s \ {y}) \ {a}
          /\ (s \ {a}) \ {y} \in SUBSET D
      BY <1>1, <2>3
    <3>2. more[s] = w[a] + sum[s \ {a}]
      BY <2>3
    <3>3. more[s \ {y}] = w[a] + sum[(s \ {a}) \ {y}]
      BY <3>1
    <3>4. sum[s \ {a}] = w[y] + sum[(s \ {a}) \ {y}]
      BY <1>2, <3>1
    <3>5. w[a] \in Nat /\ w[y] \in Nat /\ sum[(s \ {a}) \ {y}] \in Nat
      BY <1>1, <1>2, <3>1
    <3> QED
      BY <3>2, <3>3, <3>4, <3>5
  <2> QED
    BY <2>1, <2>2, <2>3
<1> HIDE DEF more
<1>6. Sums(more, n + 1, w)
  BY <1>3, <1>4, <1>5 DEF Sums
<1> QED
  BY <1>6

\* Every list of weights has its sums.
LEMMA SumExists ==
    ASSUME NEW n \in Nat, NEW w \in [1..n -> Nat]
    PROVE  \E sum : Sums(sum, n, w)
<1> DEFINE P == {m \in Nat : \A v \in [1..m -> Nat] : \E sum : Sums(sum, m, v)}
<1>1. 0 \in P
  <2> SUFFICES ASSUME NEW v \in [1..0 -> Nat]
               PROVE  \E sum : Sums(sum, 0, v)
    OBVIOUS
  <2>1. 1..0 = {} /\ SUBSET (1..0) = {{}}
    OBVIOUS
  <2>2. Sums([s \in SUBSET (1..0) |-> 0], 0, v)
    BY <2>1 DEF Sums
  <2> QED
    BY <2>2
<1>2. ASSUME NEW m \in P
      PROVE  m + 1 \in P
  <2> SUFFICES ASSUME NEW v \in [1..(m + 1) -> Nat]
               PROVE  \E sum : Sums(sum, m + 1, v)
    OBVIOUS
  <2> DEFINE u == [k \in 1..m |-> v[k]]
  <2>1. u \in [1..m -> Nat]
    OBVIOUS
  <2>2. PICK sum : Sums(sum, m, u)
    BY <2>1
  <2>3. \A s \in SUBSET (1..m) : \A y \in s : u[y] = v[y]
    OBVIOUS
  <2>4. sum \in [SUBSET (1..m) -> Nat] /\ sum[{}] = 0
    BY <2>2 DEF Sums
  <2>5. ASSUME NEW s \in SUBSET (1..m), NEW y \in s
        PROVE  sum[s] = v[y] + sum[s \ {y}]
    <3>1. sum[s] = u[y] + sum[s \ {y}]
      BY <2>2 DEF Sums
    <3> QED
      BY <3>1, <2>3
  <2>6. Sums(sum, m, v)
    BY <2>4, <2>5 DEF Sums
  <2> QED
    BY <2>6, SumGrows
<1> HIDE DEF P
<1>3. P \in SUBSET Nat
  BY DEF P
<1>4. n \in P
  BY <1>1, <1>2, <1>3, NumbersBelong
<1> QED
  BY <1>4 DEF P

-----------------------------------------------------------------------------
(* The sum that the bound is about.                                           *)

\* What MapThenSumSet adds up, over every set of positions.
AnyOf(s) == CHOOSE x \in s : TRUE
SumStep(it, s, given) == IF s = {} THEN 0 ELSE given[AnyOf(s)].size + it[s \ {AnyOf(s)}]
SumsUp(it, given) == it = [s \in SUBSET DOMAIN given |-> SumStep(it, s, given)]

SizeOf(given) == SetExt!MapThenSumSet(LAMBDA k : given[k].size, DOMAIN given)

LEMMA SizeIs ==
    ASSUME NEW given
    PROVE  SizeOf(given) = (CHOOSE it : SumsUp(it, given))[DOMAIN given]
BY Zenon DEF SizeOf, SetExt!MapThenSumSet, SetExt!MapThenFoldSet, SumsUp, SumStep, AnyOf

\* An argument: its size is a number, and it has a NUL or not.
Arguments == [text : STRING, size : Nat, nul : BOOLEAN]

Sizes(given) == [k \in 1..Len(given) |-> given[k].size]

LEMMA SizesType ==
    ASSUME NEW given \in Seq(Arguments)
    PROVE  /\ Len(given) \in Nat /\ DOMAIN given = 1..Len(given)
           /\ Sizes(given) \in [1..Len(given) -> Nat]
           /\ \A k \in 1..Len(given) : Sizes(given)[k] = given[k].size
<1>1. Len(given) \in Nat /\ DOMAIN given = 1..Len(given)
  OBVIOUS
<1>2. ASSUME NEW k \in 1..Len(given)
      PROVE  given[k].size \in Nat
  <2>1. given[k] \in Arguments
    OBVIOUS
  <2> QED
    BY <2>1 DEF Arguments
<1> QED
  BY <1>1, <1>2 DEF Sizes

\* The recursion has one solution: the sums.
LEMMA SumsUpUnique ==
    ASSUME NEW given \in Seq(Arguments), NEW sum, Sums(sum, Len(given), Sizes(given)),
           NEW it, SumsUp(it, given)
    PROVE  it = sum
<1> DEFINE D == 1..Len(given)
           Bad == {s \in SUBSET D : it[s] # sum[s]}
           T == {Cardinality(s) : s \in Bad}
<1>1. IsFiniteSet(D) /\ DOMAIN given = D
  BY FS_Interval, SizesType
<1>2. \A s \in SUBSET D : IsFiniteSet(s) /\ Cardinality(s) \in Nat
  BY <1>1, FS_Subset, FS_CardinalityType
<1>3. \A s \in SUBSET D : it[s] = SumStep(it, s, given)
  BY <1>1 DEF SumsUp
<1>4. ASSUME NEW bad \in Bad
      PROVE  FALSE
  <2>1. T \in SUBSET Nat /\ T # {}
    BY <1>2
  <2>2. PICK m \in T : \A k \in T : m <= k
    BY <2>1, LeastExists
  <2>3. PICK s \in Bad : m = Cardinality(s)
    BY <2>2
  <2> DEFINE x == AnyOf(s)
  <2>4. s # {}
    <3>1. SumStep(it, {}, given) = 0
      BY DEF SumStep
    <3> QED
      BY <2>3, <3>1, <1>3 DEF Sums
  <2>5. x \in s
    BY <2>4 DEF AnyOf
  <2>6. Cardinality(s \ {x}) = m - 1 /\ m \in Nat
    BY <1>2, <2>3, <2>5, FS_RemoveElement
  <2>7. s \ {x} \notin Bad
    <3>1. ASSUME s \ {x} \in Bad
          PROVE  FALSE
      <4>1. Cardinality(s \ {x}) \in T
        BY <3>1
      <4> QED
        BY <4>1, <2>2, <2>6
    <3> QED
      BY <3>1
  <2>8. it[s \ {x}] = sum[s \ {x}]
    BY <2>7, <2>3
  <2>9. it[s] = given[x].size + it[s \ {x}]
    BY <1>3, <2>3, <2>4 DEF SumStep
  <2>10. sum[s] = Sizes(given)[x] + sum[s \ {x}]
    BY <2>3, <2>5 DEF Sums
  <2>11. Sizes(given)[x] = given[x].size
    BY <2>3, <2>5, SizesType
  <2> QED
    BY <2>3, <2>8, <2>9, <2>10, <2>11
<1>5. \A s \in SUBSET D : it[s] = sum[s]
  BY <1>4
<1>6. it = [s \in SUBSET D |-> it[s]]
  BY <1>1 DEF SumsUp
<1>7. sum = [s \in SUBSET D |-> sum[s]]
  BY DEF Sums
<1> QED
  BY <1>5, <1>6, <1>7

\* The sums solve the recursion.
LEMMA SumsSumUp ==
    ASSUME NEW given \in Seq(Arguments), NEW sum, Sums(sum, Len(given), Sizes(given))
    PROVE  SumsUp(sum, given)
<1>1. DOMAIN given = 1..Len(given)
  BY SizesType
<1>2. sum = [s \in SUBSET DOMAIN given |-> sum[s]]
  BY <1>1 DEF Sums
<1>3. ASSUME NEW s \in SUBSET DOMAIN given
      PROVE  sum[s] = SumStep(sum, s, given)
  <2>1. CASE s = {}
    BY <2>1 DEF SumStep, Sums
  <2>2. CASE s # {}
    <3>1. AnyOf(s) \in s
      BY <2>2 DEF AnyOf
    <3>2. sum[s] = Sizes(given)[AnyOf(s)] + sum[s \ {AnyOf(s)}]
      BY <1>1, <3>1 DEF Sums
    <3>3. Sizes(given)[AnyOf(s)] = given[AnyOf(s)].size
      BY <1>1, <3>1, SizesType
    <3> QED
      BY <2>2, <3>2, <3>3 DEF SumStep
  <2> QED
    BY <2>1, <2>2
<1> QED
  BY <1>2, <1>3 DEF SumsUp

\* MapThenSumSet is the sum of the sizes, in any order.
LEMMA SizeIsSum ==
    ASSUME NEW given \in Seq(Arguments), NEW sum, Sums(sum, Len(given), Sizes(given))
    PROVE  SizeOf(given) = sum[1..Len(given)]
<1>1. SumsUp(sum, given)
  BY SumsSumUp
<1>2. SumsUp(CHOOSE it : SumsUp(it, given), given)
  BY <1>1, Zenon
<1> DEFINE f == CHOOSE it : SumsUp(it, given)
<1> HIDE DEF f
<1>3. SumsUp(f, given)
  BY <1>2 DEF f
<1>4. f = sum
  BY <1>3, SumsUpUnique
<1>5. SizeOf(given) = f[DOMAIN given]
  BY SizeIs DEF f
<1> QED
  BY <1>4, <1>5, SizesType

-----------------------------------------------------------------------------
(* The loop of validate_request_args.                                         *)

Begin == [ok |-> TRUE, total |-> 0]
LastOf(s) == CHOOSE x \in s : \A y \in s : x >= y
LoopStep(it, s, args, given) ==
    IF s = {} THEN Begin ELSE CheckArg(args, it[s \ {LastOf(s)}], given[LastOf(s)])
Loops(it, args, given) == it = [s \in SUBSET DOMAIN given |-> LoopStep(it, s, args, given)]

LoopOf(args, given) == SeqExt!FoldLeft(LAMBDA sofar, arg : CheckArg(args, sofar, arg), [ok |-> TRUE, total |-> 0], given)

LEMMA LoopIs ==
    ASSUME NEW args, NEW given
    PROVE  LoopOf(args, given) = (CHOOSE it : Loops(it, args, given))[DOMAIN given]
BY Zenon DEF LoopOf, SeqExt!FoldLeft, SeqExt!MapThenFoldSet, SeqExt!Max, Loops, LoopStep, LastOf, Begin

\* An argument that passes the loop on its own.
Passes(args, arg) ==
    ~arg.nul /\ arg.size <= args.max_item_bytes /\ (HasAllowlist(args) => Listed(args, arg))

LoopEnd(sum, s, args, given) == [ok |-> \A k \in s : Passes(args, given[k]), total |-> sum[s]]

LEMMA LastIn ==
    ASSUME NEW n \in Nat, NEW s \in SUBSET (1..n), s # {}
    PROVE  LastOf(s) \in s
<1>1. \E x \in s : \A y \in s : x >= y
  BY LastExists
<1> QED
  BY <1>1 DEF LastOf

\* One turn of the loop adds one position to the end it has reached.
LEMMA TurnIs ==
    ASSUME NEW given \in Seq(Arguments), NEW sum, Sums(sum, Len(given), Sizes(given)),
           NEW args, NEW s \in SUBSET (1..Len(given)), NEW x \in s
    PROVE  CheckArg(args, LoopEnd(sum, s \ {x}, args, given), given[x]) = LoopEnd(sum, s, args, given)
<1> DEFINE before == LoopEnd(sum, s \ {x}, args, given)
<1>1. before.ok = (\A k \in s \ {x} : Passes(args, given[k])) /\ before.total = sum[s \ {x}]
  BY DEF LoopEnd
<1>2. sum[s] = sum[s \ {x}] + given[x].size
  <2>1. sum[s] = Sizes(given)[x] + sum[s \ {x}]
    BY DEF Sums
  <2>2. s \ {x} \in SUBSET (1..Len(given)) /\ sum[s \ {x}] \in Nat
    BY DEF Sums
  <2>3. Sizes(given)[x] \in Nat /\ Sizes(given)[x] = given[x].size
    BY SizesType
  <2> QED
    BY <2>1, <2>2, <2>3
<1>3. (before.ok /\ Passes(args, given[x])) = (\A k \in s : Passes(args, given[k]))
  BY <1>1
<1> HIDE DEF before
<1>4. CheckArg(args, before, given[x]) =
         [ok |-> before.ok /\ Passes(args, given[x]), total |-> before.total + given[x].size]
  BY DEF CheckArg, Passes
<1> QED
  BY <1>1, <1>2, <1>3, <1>4 DEF LoopEnd, before

\* The ends of the loop solve its recursion.
LEMMA EndsLoop ==
    ASSUME NEW given \in Seq(Arguments), NEW sum, Sums(sum, Len(given), Sizes(given)), NEW args
    PROVE  Loops([s \in SUBSET DOMAIN given |-> LoopEnd(sum, s, args, given)], args, given)
<1> DEFINE D == DOMAIN given
           f == [s \in SUBSET D |-> LoopEnd(sum, s, args, given)]
<1>1. D = 1..Len(given) /\ Len(given) \in Nat
  BY SizesType
<1>2. ASSUME NEW s \in SUBSET D
      PROVE  LoopEnd(sum, s, args, given) = LoopStep(f, s, args, given)
  <2>1. CASE s = {}
    <3>1. LoopEnd(sum, {}, args, given) = Begin
      BY DEF LoopEnd, Begin, Sums
    <3> QED
      BY <2>1, <3>1 DEF LoopStep
  <2>2. CASE s # {}
    <3>1. LastOf(s) \in s
      BY <1>1, <2>2, LastIn
    <3>2. f[s \ {LastOf(s)}] = LoopEnd(sum, s \ {LastOf(s)}, args, given)
      OBVIOUS
    <3>3. CheckArg(args, LoopEnd(sum, s \ {LastOf(s)}, args, given), given[LastOf(s)]) =
             LoopEnd(sum, s, args, given)
      BY <1>1, <3>1, TurnIs
    <3> HIDE DEF f
    <3> QED
      BY <2>2, <3>2, <3>3 DEF LoopStep
  <2> QED
    BY <2>1, <2>2
<1> QED
  BY <1>2 DEF Loops

\* Any solution is at the end of the loop when it has seen every position.
LEMMA LoopEnds ==
    ASSUME NEW given \in Seq(Arguments), NEW sum, Sums(sum, Len(given), Sizes(given)),
           NEW args, NEW it, Loops(it, args, given)
    PROVE  it[1..Len(given)] = LoopEnd(sum, 1..Len(given), args, given)
<1> DEFINE n == Len(given)
           P == {k \in Nat : k <= n => it[1..k] = LoopEnd(sum, 1..k, args, given)}
<1>1. DOMAIN given = 1..n /\ n \in Nat
  BY SizesType
<1>2. \A s \in SUBSET (1..n) : it[s] = LoopStep(it, s, args, given)
  BY <1>1 DEF Loops
<1>3. 0 \in P
  <2>1. 1..0 = {} /\ {} \in SUBSET (1..n)
    OBVIOUS
  <2>2. it[{}] = Begin
    BY <1>2, <2>1 DEF LoopStep
  <2>3. LoopEnd(sum, {}, args, given) = Begin
    BY DEF LoopEnd, Begin, Sums
  <2> QED
    BY <2>1, <2>2, <2>3
<1>4. ASSUME NEW k \in P
      PROVE  k + 1 \in P
  <2> SUFFICES ASSUME k + 1 <= n
               PROVE  it[1..(k + 1)] = LoopEnd(sum, 1..(k + 1), args, given)
    OBVIOUS
  <2> DEFINE s == 1..(k + 1)
  <2>1. /\ s \in SUBSET (1..n) /\ s # {} /\ k + 1 \in s
        /\ s \ {k + 1} = 1..k
        /\ \A y \in s : k + 1 >= y
    BY <1>1
  <2>2. LastOf(s) = k + 1
    <3>1. LastOf(s) \in s /\ \A y \in s : LastOf(s) >= y
      BY <2>1 DEF LastOf
    <3> QED
      BY <2>1, <3>1
  <2>3. it[1..k] = LoopEnd(sum, 1..k, args, given)
    BY <1>1
  <2>4. it[s] = CheckArg(args, it[1..k], given[k + 1])
    BY <1>2, <2>1, <2>2 DEF LoopStep
  <2>5. CheckArg(args, LoopEnd(sum, s \ {k + 1}, args, given), given[k + 1]) = LoopEnd(sum, s, args, given)
    BY <1>1, <2>1, TurnIs
  <2> QED
    BY <2>1, <2>3, <2>4, <2>5
<1> HIDE DEF P
<1>5. P \in SUBSET Nat
  BY DEF P
<1>6. n \in P
  BY <1>1, <1>3, <1>4, <1>5, NumbersBelong
<1> QED
  BY <1>1, <1>6 DEF P

-----------------------------------------------------------------------------
(* The theorems.                                                              *)

\* The fold is [ok, total] of what each argument does on its own.
LEMMA LoopComputes ==
    ASSUME NEW given \in Seq(Arguments), NEW args
    PROVE  /\ LoopOf(args, given).ok <=> \A k \in DOMAIN given : Passes(args, given[k])
           /\ LoopOf(args, given).total = SizeOf(given)
<1>1. /\ DOMAIN given = 1..Len(given) /\ Len(given) \in Nat
      /\ Sizes(given) \in [1..Len(given) -> Nat]
  BY SizesType
<1>2. PICK sum : Sums(sum, Len(given), Sizes(given))
  BY <1>1, SumExists
<1>3. \E f : Loops(f, args, given)
  BY <1>2, EndsLoop
<1> DEFINE f == CHOOSE it : Loops(it, args, given)
<1>4. Loops(f, args, given)
  BY <1>3, Zenon
<1> HIDE DEF f
<1>5. LoopOf(args, given) = f[DOMAIN given]
  BY LoopIs DEF f
<1>6. LoopOf(args, given) = LoopEnd(sum, 1..Len(given), args, given)
  BY <1>1, <1>2, <1>4, <1>5, LoopEnds
<1>7. SizeOf(given) = sum[1..Len(given)]
  BY <1>2, SizeIsSum
<1> QED
  BY <1>1, <1>6, <1>7 DEF LoopEnd

\* What validate_request_args decides, for every list of arguments and every
\* route: the loop stops at no argument exactly when each passes on its own and
\* the sizes add up to at most max_total_bytes.
THEOREM LoopDecides ==
    ASSUME NEW given \in Seq(Arguments), NEW route
    PROVE  RequestArgsAccepted(route, given) <=>
               /\ route.request_args.enabled \/ given = <<>>
               /\ Len(given) <= route.request_args.max_count
               /\ \A k \in DOMAIN given : Passes(route.request_args, given[k])
               /\ SizeOf(given) <= route.request_args.max_total_bytes
<1> DEFINE args == route.request_args
           end == LoopOf(args, given)
<1>1. RequestArgsAccepted(route, given) <=>
         /\ args.enabled \/ given = <<>>
         /\ Len(given) <= args.max_count
         /\ end.ok /\ end.total <= args.max_total_bytes
  BY Zenon DEF RequestArgsAccepted, LoopOf
<1>2. /\ end.ok <=> \A k \in DOMAIN given : Passes(args, given[k])
      /\ end.total = SizeOf(given)
  BY LoopComputes
<1> HIDE DEF end
<1> QED
  BY <1>1, <1>2

\* A route of a file that load has accepted: dynamic arguments never meet cmd,
\* and under LocalSystem they are listed.
LEMMA RouteFacts ==
    ASSUME Accepted(raw), raw \in RawConfigs, NEW i \in DOMAIN raw.routes
    PROVE  /\ raw.routes[i].request_args.enabled =>
                 Program(raw.routes[i]) \notin CmdNames /\ ~raw.routes[i].batch
           /\ raw.account = "local_system" /\ raw.routes[i].request_args.enabled =>
                 HasAllowlist(raw.routes[i].request_args)
<1> DEFINE route == raw.routes[i]
<1>1. RouteAccepted(route) /\ LocalSystemRule(raw.account, route)
  BY DEF Accepted
<1>0. route.executor \in Executors
  BY RawAssumption
<1> HIDE DEF route
<1>2. route.request_args.enabled => ~UsesCmd(route)
  BY <1>1 DEF RouteAccepted
<1>3. ~UsesCmd(route) => Program(route) \notin CmdNames /\ ~route.batch
  BY <1>0 DEF UsesCmd, Program, CmdNames, Executors
<1> QED
  BY <1>1, <1>2, <1>3 DEF LocalSystemRule, route

\* Every list of arguments that the bounds of a loaded route let through, and no
\* other, is accepted, for any configuration and any list: the loop with its
\* running total refuses nothing it should not and lets nothing slip.
THEOREM AdmittedArgsAllowedHolds == Spec => []AdmittedArgsAllowed
<1>1. IInv => AdmittedArgsAllowed
  <2> SUFFICES ASSUME Accepted(raw), raw \in RawConfigs, NEW i \in DOMAIN raw.routes, NEW given \in ArgLists
               PROVE  LET args == raw.routes[i].request_args
                          listed == args.allowed_values \cup UNION args.allowed_patterns
                      IN  RequestArgsAccepted(raw.routes[i], given) <=>
                /\ given # <<>> =>
                      args.enabled /\ Program(raw.routes[i]) \notin CmdNames /\ ~raw.routes[i].batch
                /\ Len(given) <= args.max_count
                /\ \A k \in DOMAIN given :
                      /\ given[k].size <= args.max_item_bytes /\ ~given[k].nul
                      /\ HasAllowlist(args) \/ raw.account = "local_system" => given[k].text \in listed
                /\ SizeOf(given) <= args.max_total_bytes
    BY Zenon DEF IInv, DoorInv, TypeOK, AdmittedArgsAllowed, SizeOf
  <2> DEFINE route == raw.routes[i]
             args == route.request_args
             listed == args.allowed_values \cup UNION args.allowed_patterns
             local == raw.account = "local_system"
  <2>1. given \in Seq(Arguments)
    BY ArgumentAssumption DEF Arguments
  <2>2. RequestArgsAccepted(route, given) <=>
               /\ args.enabled \/ given = <<>>
               /\ Len(given) <= args.max_count
               /\ \A k \in DOMAIN given : Passes(args, given[k])
               /\ SizeOf(given) <= args.max_total_bytes
    BY <2>1, LoopDecides
  <2>3. /\ args.enabled => Program(route) \notin CmdNames /\ ~route.batch
        /\ local /\ args.enabled => HasAllowlist(args)
    BY RouteFacts
  <2>4. ASSUME NEW k \in DOMAIN given
        PROVE  Listed(args, given[k]) <=> given[k].text \in listed
    BY DEF Listed
  <2>5. ASSUME args.enabled, NEW k \in DOMAIN given
        PROVE  Passes(args, given[k]) <=>
                  /\ given[k].size <= args.max_item_bytes /\ ~given[k].nul
                  /\ HasAllowlist(args) \/ local => given[k].text \in listed
    BY <2>3, <2>4, <2>5 DEF Passes
  <2>6. given = <<>> => DOMAIN given = {}
    OBVIOUS
  <2> HIDE DEF route, args, listed, local
  <2>7. RequestArgsAccepted(route, given) <=>
                /\ given # <<>> => args.enabled /\ Program(route) \notin CmdNames /\ ~route.batch
                /\ Len(given) <= args.max_count
                /\ \A k \in DOMAIN given :
                      /\ given[k].size <= args.max_item_bytes /\ ~given[k].nul
                      /\ HasAllowlist(args) \/ local => given[k].text \in listed
                /\ SizeOf(given) <= args.max_total_bytes
    BY <2>2, <2>3, <2>5, <2>6
  <2> QED
    BY <2>7 DEF route, args, listed, local
<1> QED
  BY <1>1, InductiveInvariant, PTL
=============================================================================
