----------------------------- MODULE FirProofs -----------------------------
(***************************************************************************)
(* Proofs about the optimizer of fluxc/fir.c, for functions of every size: *)
(* each visit of fir_constant_fold and of fir_dead_code_elim keeps what a  *)
(* caller sees of the function.                                            *)
(***************************************************************************)
EXTENDS Fir, SequenceLemmas, TLAPS

\* The regime of MeaningKept.
Plain == {"BRANCH", "PARAM"} \cap Ops = {}

Ids == 0 .. BlockMax * ValueMax - 1
ValueType == [id : Ids, op : Ops \cup {"CONST"}, num : Int, args : Seq(Ids)]

Unary == {"NEG", "ABS"}
Binary == (Arithmetic \ Unary) \cup Relations

\* A value has the operands its operation takes, all of them defined before.
ValueOk(x, ids) ==
    /\ \A o \in DOMAIN x.args : x.args[o] \in ids /\ x.args[o] < x.id
    /\ x.op \in Binary => Len(x.args) = 2
    /\ x.op \in Unary => Len(x.args) = 1

ValuesOk(X) ==
    /\ X \subseteq ValueType
    /\ \A x, y \in X : x.id = y.id => x = y
    /\ \A x \in X : ValueOk(x, {y.id : y \in X})

\* What a value may yield: a number, or none after a division by zero.
Numeric == {<< >>} \cup {<<n>> : n \in Int}

Applied(op, a, b) ==
    IF a = << >> \/ b = << >> THEN << >>
    ELSE IF DividesByZero(op, b[1]) THEN << >> ELSE <<Computed(op, a[1], b[1])>>

Yields(x, input, r) ==
    IF x.op = "CONST" THEN <<x.num>>
    ELSE IF x.op \in Binary THEN Applied(x.op, r[x.args[1]], r[x.args[2]])
    ELSE IF x.op \in Unary THEN Applied(x.op, r[x.args[1]], r[x.args[1]])
    ELSE <<input + x.id>>

IsResult(X, input, r) ==
    r \in [Ids -> Numeric] /\ \A x \in X : r[x.id] = Yields(x, input, r)

-----------------------------------------------------------------------------
(* Numbers.                                                                *)

LEMMA QuotientIsInt ==
  ASSUME NEW m \in Int, NEW n \in Int, n # 0
  PROVE  Quotient(m, n) \in Int
<1>1. Magnitude(m) \in Int /\ Magnitude(n) \in Nat \ {0} BY DEF Magnitude
<1>2. Magnitude(m) \div Magnitude(n) \in Int BY <1>1
<1> QED BY <1>2 DEF Quotient

LEMMA ComputedIsInt ==
  ASSUME NEW op \in Arithmetic \cup Relations, NEW m \in Int, NEW n \in Int,
         ~DividesByZero(op, n)
  PROVE  Computed(op, m, n) \in Int
<1>1. CASE op \in {"DIV", "MOD"}
  <2>1. n # 0 BY <1>1 DEF DividesByZero
  <2>2. Quotient(m, n) \in Int BY <2>1, QuotientIsInt
  <2>3. n * Quotient(m, n) \in Int BY <2>2
  <2>4. m - n * Quotient(m, n) \in Int BY <2>3
  <2>5. CASE op = "DIV" BY <2>2, <2>5 DEF Computed
  <2>6. CASE op = "MOD" BY <2>4, <2>6 DEF Computed
  <2> QED BY <1>1, <2>5, <2>6
<1>2. CASE op \in Relations
  <2>1. \A p : Truth(p) \in Int BY DEF Truth
  <2> QED BY <1>2, <2>1 DEF Computed, Relations
<1>3. CASE op \in {"ADD", "SUB", "MUL", "NEG", "ABS"}
  BY <1>3 DEF Computed, Magnitude
<1>4. op \in {"DIV", "MOD"} \/ op \in Relations \/ op \in {"ADD", "SUB", "MUL", "NEG", "ABS"}
  BY DEF Arithmetic
<1> QED BY <1>1, <1>2, <1>3, <1>4

LEMMA AppliedIs ==
  ASSUME NEW op \in Arithmetic \cup Relations, NEW a \in Numeric, NEW b \in Numeric
  PROVE  Applied(op, a, b) \in Numeric
<1>1. CASE a = << >> \/ b = << >> BY <1>1 DEF Applied, Numeric
<1>2. CASE a # << >> /\ b # << >>
  <2>1. PICK m \in Int, n \in Int : a = <<m>> /\ b = <<n>> BY <1>2 DEF Numeric
  <2>2. a[1] = m /\ b[1] = n BY <2>1
  <2>3. CASE DividesByZero(op, n) BY <1>2, <2>2, <2>3 DEF Applied, Numeric
  <2>4. CASE ~DividesByZero(op, n)
    <3>1. Computed(op, m, n) \in Int BY <2>4, ComputedIsInt
    <3>2. Applied(op, a, b) = <<Computed(op, m, n)>> BY <1>2, <2>2, <2>4 DEF Applied
    <3> QED BY <3>1, <3>2 DEF Numeric
  <2> QED BY <2>3, <2>4
<1> QED BY <1>1, <1>2

LEMMA OperandsOk ==
  ASSUME NEW x \in ValueType, NEW ids, ValueOk(x, ids)
  PROVE  /\ x.op \in Binary => x.args[1] \in ids \cap Ids /\ x.args[2] \in ids \cap Ids
                               /\ x.args[1] < x.id /\ x.args[2] < x.id
         /\ x.op \in Unary => x.args[1] \in ids \cap Ids /\ x.args[1] < x.id
<1>1. x.args \in Seq(Ids) BY DEF ValueType
<1>2. DOMAIN x.args = 1 .. Len(x.args) BY <1>1
<1>3. CASE x.op \in Binary
  <2>1. 1 \in DOMAIN x.args /\ 2 \in DOMAIN x.args BY <1>2, <1>3 DEF ValueOk
  <2>2. x.op \notin Unary BY <1>3 DEF Unary, Binary, Relations
  <2> QED BY <1>1, <2>1, <2>2 DEF ValueOk
<1>4. CASE x.op \in Unary
  <2>1. 1 \in DOMAIN x.args BY <1>2, <1>4 DEF ValueOk
  <2>2. x.op \notin Binary BY <1>4 DEF Unary, Binary, Relations
  <2> QED BY <1>1, <2>1, <2>2 DEF ValueOk
<1> QED BY <1>3, <1>4

LEMMA YieldsIs ==
  ASSUME NEW x \in ValueType, NEW ids, ValueOk(x, ids), NEW input \in Int,
         NEW r \in [Ids -> Numeric]
  PROVE  Yields(x, input, r) \in Numeric
<1>1. x.num \in Int /\ x.id \in Int BY DEF ValueType, Ids
<1>2. CASE x.op = "CONST" BY <1>1, <1>2 DEF Yields, Numeric
<1>3. CASE x.op # "CONST" /\ x.op \in Binary
  <2>1. r[x.args[1]] \in Numeric /\ r[x.args[2]] \in Numeric BY <1>3, OperandsOk
  <2>2. x.op \in Arithmetic \cup Relations BY <1>3 DEF Binary
  <2> QED BY <1>3, <2>1, <2>2, AppliedIs DEF Yields
<1>4. CASE x.op # "CONST" /\ x.op \notin Binary /\ x.op \in Unary
  <2>1. r[x.args[1]] \in Numeric BY <1>4, OperandsOk
  <2>2. x.op \in Arithmetic \cup Relations BY <1>4 DEF Unary, Arithmetic
  <2> QED BY <1>4, <2>1, <2>2, AppliedIs DEF Yields
<1>5. CASE x.op # "CONST" /\ x.op \notin Binary /\ x.op \notin Unary
  <2>1. input + x.id \in Int BY <1>1
  <2> QED BY <1>5, <2>1 DEF Yields, Numeric
<1> QED BY <1>2, <1>3, <1>4, <1>5

\* What a value yields depends on its operands only.
LEMMA YieldsSame ==
  ASSUME NEW x \in ValueType, NEW ids, ValueOk(x, ids), NEW input, NEW r, NEW s,
         \A o \in DOMAIN x.args : r[x.args[o]] = s[x.args[o]]
  PROVE  Yields(x, input, r) = Yields(x, input, s)
<1>1. x.args \in Seq(Ids) BY DEF ValueType
<1>2. x.op \in Binary => 1 \in DOMAIN x.args /\ 2 \in DOMAIN x.args
  BY <1>1 DEF ValueOk
<1>3. x.op \in Unary => 1 \in DOMAIN x.args
  BY <1>1 DEF ValueOk
<1> QED BY <1>2, <1>3 DEF Yields

-----------------------------------------------------------------------------
(* The recursion of ResultsOf.                                             *)

Combined(op, operand) ==
    IF \E o \in DOMAIN operand : operand[o] = << >> THEN << >>
    ELSE IF DividesByZero(op, Last(operand)[1]) THEN << >>
    ELSE <<Computed(op, operand[1][1], Last(operand)[1])>>

OutcomeOf(x, i, input, operand) ==
    IF x.op = "CONST" THEN <<x.num>>
    ELSE IF x.op \notin Arithmetic \cup Relations THEN <<input + i>>
    ELSE Combined(x.op, operand)

Outcome(x, i, input, r) ==
    OutcomeOf(x, i, input, [o \in DOMAIN x.args |-> r[x.args[o]]])

Chosen(f, i) == CHOOSE x \in ValuesOf(f) : x.id = i

Round(f, input, i, r) ==
    IF i \notin IdsOf(f) THEN << >> ELSE Outcome(Chosen(f, i), i, input, r)

LEMMA OutcomeIs ==
  ASSUME NEW x \in ValueType, NEW ids, ValueOk(x, ids), NEW input,
         NEW r \in [Ids -> Numeric]
  PROVE  Outcome(x, x.id, input, r) = Yields(x, input, r)
<1> DEFINE operand == [o \in DOMAIN x.args |-> r[x.args[o]]]
<1>1. x.args \in Seq(Ids) /\ DOMAIN x.args = 1 .. Len(x.args) /\ Len(x.args) \in Nat
  BY DEF ValueType
<1>2. operand \in Seq(Numeric) /\ Len(operand) = Len(x.args)
  <2>1. \A o \in DOMAIN x.args : r[x.args[o]] \in Numeric BY <1>1
  <2>2. operand \in [1 .. Len(x.args) -> Numeric] BY <1>1, <2>1
  <2> HIDE DEF operand
  <2> QED BY <1>1, <2>2
<1>3. Last(operand) = operand[Len(x.args)]
  <2> HIDE DEF operand
  <2> QED BY <1>2 DEF Last
<1>4. DOMAIN operand = DOMAIN x.args /\ \A o \in DOMAIN x.args : operand[o] = r[x.args[o]]
  OBVIOUS
<1>5. CASE x.op = "CONST" BY <1>5 DEF Outcome, OutcomeOf, Yields
<1>6. CASE x.op # "CONST" /\ x.op \in Binary
  <2>1. /\ DOMAIN x.args = {1, 2} /\ Len(x.args) = 2
        /\ x.op \in Arithmetic \cup Relations
    BY <1>1, <1>6 DEF ValueOk, Binary
  <2>2. operand[1] = r[x.args[1]] /\ operand[2] = r[x.args[2]] /\ Last(operand) = operand[2]
    BY <1>3, <1>4, <2>1
  <2>3. (\E o \in DOMAIN operand : operand[o] = << >>)
          <=> r[x.args[1]] = << >> \/ r[x.args[2]] = << >>
    <3> HIDE DEF operand
    <3> QED BY <1>4, <2>1, <2>2
  <2>4. Outcome(x, x.id, input, r) = Combined(x.op, operand)
    <3>1. Outcome(x, x.id, input, r) = OutcomeOf(x, x.id, input, operand) BY DEF Outcome
    <3> HIDE DEF operand
    <3> QED BY <1>6, <2>1, <3>1 DEF OutcomeOf
  <2>5. Yields(x, input, r) = Applied(x.op, r[x.args[1]], r[x.args[2]])
    BY <1>6 DEF Yields
  <2> HIDE DEF operand
  <2> QED BY <2>2, <2>3, <2>4, <2>5 DEF Applied, Combined
<1>7. CASE x.op # "CONST" /\ x.op \notin Binary /\ x.op \in Unary
  <2>1. /\ DOMAIN x.args = {1} /\ Len(x.args) = 1
        /\ x.op \in Arithmetic \cup Relations
    <3>1. Len(x.args) = 1 BY <1>7 DEF ValueOk
    <3>2. DOMAIN x.args = {1} BY <1>1, <3>1
    <3> QED BY <1>7, <3>1, <3>2 DEF Unary, Arithmetic
  <2>2. operand[1] = r[x.args[1]] /\ Last(operand) = operand[1]
    BY <1>3, <1>4, <2>1
  <2>3. (\E o \in DOMAIN operand : operand[o] = << >>) <=> r[x.args[1]] = << >>
    <3> HIDE DEF operand
    <3> QED BY <1>4, <2>1, <2>2
  <2>4. Outcome(x, x.id, input, r) = Combined(x.op, operand)
    <3>1. Outcome(x, x.id, input, r) = OutcomeOf(x, x.id, input, operand) BY DEF Outcome
    <3> HIDE DEF operand
    <3> QED BY <1>7, <2>1, <3>1 DEF OutcomeOf
  <2>5. Yields(x, input, r) = Applied(x.op, r[x.args[1]], r[x.args[1]])
    BY <1>7 DEF Yields
  <2> HIDE DEF operand
  <2> QED BY <2>2, <2>3, <2>4, <2>5 DEF Applied, Combined
<1>8. CASE x.op # "CONST" /\ x.op \notin Binary /\ x.op \notin Unary
  <2>1. x.op \notin Arithmetic \cup Relations BY <1>8 DEF Binary, Unary, Arithmetic
  <2> QED BY <1>8, <2>1 DEF Outcome, OutcomeOf, Yields
<1> QED BY <1>5, <1>6, <1>7, <1>8

LEMMA ChosenIs ==
  ASSUME NEW f, ValuesOk(ValuesOf(f)), NEW x \in ValuesOf(f)
  PROVE  x.id \in IdsOf(f) /\ Chosen(f, x.id) = x /\ x \in ValueType /\ ValueOk(x, IdsOf(f))
<1>1. x.id \in IdsOf(f) BY DEF IdsOf
<1>2. Chosen(f, x.id) \in ValuesOf(f) /\ Chosen(f, x.id).id = x.id BY DEF Chosen
<1>3. Chosen(f, x.id) = x BY <1>2 DEF ValuesOk
<1> QED BY <1>1, <1>3 DEF ValuesOk, IdsOf

LEMMA IdsAre == Ids \subseteq Nat
  BY FirAssumption DEF Ids

\* A round yields numbers, and its outcome at i depends on what is below i.
LEMMA RoundIs ==
  ASSUME NEW f, ValuesOk(ValuesOf(f)), NEW input \in Int, NEW i \in Ids,
         NEW r \in [Ids -> Numeric]
  PROVE  /\ Round(f, input, i, r) \in Numeric
         /\ \A s \in [Ids -> Numeric] :
              (\A j \in Ids : j < i => r[j] = s[j]) => Round(f, input, i, r) = Round(f, input, i, s)
<1>1. CASE i \notin IdsOf(f) BY <1>1 DEF Round, Numeric
<1>2. CASE i \in IdsOf(f)
  <2>1. PICK x \in ValuesOf(f) : x.id = i BY <1>2 DEF IdsOf
  <2>2. Chosen(f, i) = x /\ x \in ValueType /\ ValueOk(x, IdsOf(f)) BY <2>1, ChosenIs
  <2>3. \A s \in [Ids -> Numeric] : Round(f, input, i, s) = Yields(x, input, s)
    <3> TAKE s \in [Ids -> Numeric]
    <3>1. Round(f, input, i, s) = Outcome(x, x.id, input, s)
      BY <1>2, <2>1, <2>2, Zenon DEF Round
    <3> QED BY <2>2, <3>1, OutcomeIs
  <2>4. Yields(x, input, r) \in Numeric BY <2>2, YieldsIs
  <2>5. ASSUME NEW s \in [Ids -> Numeric], \A j \in Ids : j < i => r[j] = s[j]
        PROVE  Yields(x, input, r) = Yields(x, input, s)
    <3>1. x.args \in Seq(Ids) BY <2>2 DEF ValueType
    <3>2. \A o \in DOMAIN x.args : x.args[o] \in Ids /\ x.args[o] < i
      BY <2>1, <2>2, <3>1 DEF ValueOk
    <3>3. \A o \in DOMAIN x.args : r[x.args[o]] = s[x.args[o]] BY <2>5, <3>2
    <3> QED BY <2>2, <3>3, YieldsSame
  <2> QED BY <2>3, <2>4, <2>5
<1> QED BY <1>1, <1>2

\* The rounds have a fixed point.
LEMMA ResultsExist ==
  ASSUME NEW f, ValuesOk(ValuesOf(f)), NEW input \in Int
  PROVE  \E r \in [Ids -> Numeric] : \A i \in Ids : r[i] = Round(f, input, i, r)
<1> DEFINE Upto(n) == \E r \in [Ids -> Numeric] :
                        \A i \in Ids : i < n => r[i] = Round(f, input, i, r)
           Bad == {n \in Nat : ~Upto(n)}
<1>1. Bad = {}
  <2> SUFFICES ASSUME Bad # {} PROVE FALSE
    OBVIOUS
  <2>1. PICK n \in Bad : \A m \in Bad : n <= m
    <3>1. Bad \in SUBSET Nat OBVIOUS
    <3> HIDE DEF Bad
    <3> QED BY <3>1, LeastOf
  <2>2. Upto(0)
    <3> DEFINE none == [i \in Ids |-> << >>]
    <3>1. none \in [Ids -> Numeric] BY DEF Numeric
    <3>2. \A i \in Ids : ~(i < 0) BY IdsAre
    <3> HIDE DEF none
    <3> QED BY <3>1, <3>2
  <2>3. n \in Nat /\ n # 0 /\ ~Upto(n) BY <2>1, <2>2
  <2>4. n - 1 \in Nat /\ ~(n <= n - 1) BY <2>3
  <2>5. Upto(n - 1)
    <3> HIDE DEF Upto
    <3> QED BY <2>1, <2>4
  <2>6. PICK r \in [Ids -> Numeric] : \A i \in Ids : i < n - 1 => r[i] = Round(f, input, i, r)
    BY <2>5
  <2>7. CASE n - 1 \notin Ids
    <3>1. \A i \in Ids : i < n => i < n - 1 BY <2>3, <2>7, IdsAre
    <3>2. \A i \in Ids : i < n => r[i] = Round(f, input, i, r) BY <2>6, <3>1
    <3> QED BY <2>3, <3>2
  <2>8. CASE n - 1 \in Ids
    <3> DEFINE s == [r EXCEPT ![n - 1] = Round(f, input, n - 1, r)]
    <3>1. Round(f, input, n - 1, r) \in Numeric BY <2>8, RoundIs
    <3>2. /\ s \in [Ids -> Numeric] /\ s[n - 1] = Round(f, input, n - 1, r)
          /\ \A i \in Ids : i # n - 1 => s[i] = r[i]
      BY <2>8, <3>1
    <3> HIDE DEF s
    <3>3. ASSUME NEW i \in Ids, i < n PROVE s[i] = Round(f, input, i, s)
      <4>1. i \in Nat /\ i <= n - 1 BY <2>3, <3>3, IdsAre
      <4>2. \A j \in Ids : j < i => j # n - 1 BY <2>3, <4>1, IdsAre
      <4>3. \A j \in Ids : j < i => r[j] = s[j] BY <3>2, <4>2
      <4>4. Round(f, input, i, r) = Round(f, input, i, s) BY <3>2, <4>3, RoundIs
      <4>5. CASE i = n - 1 BY <3>2, <4>4, <4>5
      <4>6. CASE i # n - 1
        <5>1. i < n - 1 BY <2>3, <4>1, <4>6
        <5> QED BY <2>6, <3>2, <4>4, <4>6, <5>1
      <4> QED BY <4>5, <4>6
    <3> QED BY <2>3, <3>2, <3>3
  <2> QED BY <2>7, <2>8
<1>2. BlockMax * ValueMax \in Nat BY FirAssumption
<1>3. Upto(BlockMax * ValueMax) BY <1>1, <1>2
<1>4. \A i \in Ids : i < BlockMax * ValueMax BY <1>2 DEF Ids
<1> QED BY <1>3, <1>4

LEMMA OutcomeSame ==
  ASSUME NEW x, NEW i, NEW input, NEW r, NEW s,
         \A o \in DOMAIN x.args : r[x.args[o]] = s[x.args[o]]
  PROVE  Outcome(x, i, input, r) = Outcome(x, i, input, s)
<1>1. [o \in DOMAIN x.args |-> r[x.args[o]]] = [o \in DOMAIN x.args |-> s[x.args[o]]]
  OBVIOUS
<1> QED BY <1>1, Zenon DEF Outcome

\* It is the only one.
LEMMA ResultsOnce ==
  ASSUME NEW f, ValuesOk(ValuesOf(f)), NEW input \in Int,
         NEW r \in [Ids -> Numeric], \A i \in Ids : r[i] = Round(f, input, i, r),
         NEW s, s = [i \in Ids |-> Round(f, input, i, s)]
  PROVE  s = r
<1> DEFINE Bad == {i \in Ids : s[i] # r[i]}
<1>1. \A i \in Ids : s[i] = Round(f, input, i, s) OBVIOUS
<1>2. Bad = {}
  <2> SUFFICES ASSUME Bad # {} PROVE FALSE
    OBVIOUS
  <2>1. PICK i \in Bad : \A j \in Bad : i <= j
    <3>1. Bad \in SUBSET Nat BY IdsAre
    <3> HIDE DEF Bad
    <3> QED BY <3>1, LeastOf
  <2>2. i \in Ids /\ s[i] # r[i] BY <2>1
  <2>3. \A j \in Ids : j < i => s[j] = r[j] BY <2>1, <2>2, IdsAre
  <2>4. CASE i \notin IdsOf(f) BY <1>1, <2>2, <2>4 DEF Round
  <2>5. CASE i \in IdsOf(f)
    <3>1. PICK x \in ValuesOf(f) : x.id = i BY <2>5 DEF IdsOf
    <3>2. Chosen(f, i) = x /\ x \in ValueType /\ ValueOk(x, IdsOf(f)) BY <3>1, ChosenIs
    <3>3. \A o \in DOMAIN x.args : x.args[o] \in Ids /\ x.args[o] < i
      BY <3>1, <3>2 DEF ValueOk, ValueType
    <3>4. \A o \in DOMAIN x.args : s[x.args[o]] = r[x.args[o]] BY <2>3, <3>3
    <3>5. Outcome(x, i, input, s) = Outcome(x, i, input, r) BY <3>4, OutcomeSame
    <3> QED BY <1>1, <2>2, <2>5, <3>2, <3>5 DEF Round
  <2> QED BY <2>4, <2>5
<1>3. \A i \in Ids : s[i] = r[i] BY <1>2
<1> HIDE DEF Bad
<1>4. DOMAIN s = Ids /\ DOMAIN r = Ids OBVIOUS
<1>5. s = [i \in Ids |-> r[i]] BY <1>1, <1>3
<1> QED BY <1>5

\* What ResultsOf computes.
LEMMA ResultsAre ==
  ASSUME NEW f, ValuesOk(ValuesOf(f)), NEW input \in Int
  PROVE  IsResult(ValuesOf(f), input, ResultsOf(f, input))
<1> DEFINE Step(r) == [i \in Ids |-> Round(f, input, i, r)]
           result == CHOOSE r : r = Step(r)
<1>1. PICK r \in [Ids -> Numeric] : \A i \in Ids : r[i] = Round(f, input, i, r)
  BY ResultsExist
<1>2. r = Step(r) BY <1>1
<1>3. result = Step(result) BY <1>2
<1>4. ResultsOf(f, input) = result
  BY DEF ResultsOf, Round, Outcome, OutcomeOf, Combined, Chosen, Ids
<1> HIDE DEF result
<1>5. result = r BY <1>1, <1>3, ResultsOnce
<1>6. ASSUME NEW x \in ValuesOf(f) PROVE r[x.id] = Yields(x, input, r)
  <2>1. /\ x.id \in IdsOf(f) /\ Chosen(f, x.id) = x /\ x \in ValueType
        /\ ValueOk(x, IdsOf(f))
    BY ChosenIs
  <2>2. x.id \in Ids BY <2>1 DEF ValueType
  <2>3. r[x.id] = Round(f, input, x.id, r) BY <1>1, <2>2
  <2>4. r[x.id] = Outcome(x, x.id, input, r) BY <2>1, <2>3 DEF Round
  <2> QED BY <2>1, <2>4, OutcomeIs
<1> QED BY <1>4, <1>5, <1>6 DEF IsResult

-----------------------------------------------------------------------------
(* A function that is rewritten value by value.                            *)

\* y does what x does, given operands of the same results.
Follows(x, y, r) ==
    /\ y.op = x.op /\ y.num = x.num /\ DOMAIN y.args = DOMAIN x.args
    /\ \A o \in DOMAIN x.args : r[x.args[o]] = r[y.args[o]]

\* y follows x, or is the constant that x yields if it yields a number.
ComesFrom(x, y, r) ==
    /\ y.id = x.id
    /\ \/ Follows(x, y, r)
       \/ y.op = "CONST" /\ r[x.id] \in {<< >>, <<y.num>>}

LEMMA Refined ==
  ASSUME NEW X, NEW Y, ValuesOk(X), ValuesOk(Y), NEW input \in Int, NEW r, NEW s,
         IsResult(X, input, r), IsResult(Y, input, s),
         \A y \in Y : \E x \in X : ComesFrom(x, y, r)
  PROVE  \A y \in Y : r[y.id] \in {<< >>, s[y.id]}
<1> DEFINE Bad == {i \in Ids : r[i] \notin {<< >>, s[i]} /\ \E y \in Y : y.id = i}
<1>1. Bad = {}
  <2> SUFFICES ASSUME Bad # {} PROVE FALSE
    OBVIOUS
  <2>1. PICK i \in Bad : \A j \in Bad : i <= j
    <3>1. Bad \in SUBSET Nat BY IdsAre
    <3> HIDE DEF Bad
    <3> QED BY <3>1, LeastOf
  <2>2. PICK y \in Y : y.id = i BY <2>1
  <2>3. y \in ValueType /\ ValueOk(y, {z.id : z \in Y}) BY DEF ValuesOk
  <2>4. r[y.id] \notin {<< >>, s[y.id]} /\ i \in Ids BY <2>1, <2>2
  <2>5. \A j \in Ids : (\E z \in Y : z.id = j) /\ j < i => r[j] \in {<< >>, s[j]}
    BY <2>1, <2>4, IdsAre
  <2>6. PICK x \in X : ComesFrom(x, y, r) OBVIOUS
  <2>7. r[x.id] = Yields(x, input, r) /\ s[y.id] = Yields(y, input, s) BY DEF IsResult
  <2>8. y.id = x.id BY <2>6 DEF ComesFrom
  <2>9. CASE y.op = "CONST" /\ r[x.id] \in {<< >>, <<y.num>>}
    BY <2>4, <2>7, <2>8, <2>9 DEF Yields
  <2>10. CASE Follows(x, y, r)
    <3>1. x \in ValueType /\ ValueOk(x, {z.id : z \in X}) BY DEF ValuesOk
    <3>2. y.args \in Seq(Ids) /\ x.args \in Seq(Ids) BY <2>3, <3>1 DEF ValueType
    <3>3. \A o \in DOMAIN y.args : r[y.args[o]] \in {<< >>, s[y.args[o]]}
      BY <2>2, <2>3, <2>5, <3>2 DEF ValueOk
    <3>4. CASE y.op = "CONST" BY <2>4, <2>7, <2>8, <2>10, <3>4 DEF Follows, Yields
    <3>5. CASE y.op # "CONST" /\ y.op \in Binary
      <4>1. DOMAIN y.args = {1, 2}
        <5>1. Len(y.args) = 2 BY <2>3, <3>5 DEF ValueOk
        <5> QED BY <3>2, <5>1
      <4>2. /\ r[x.id] = Applied(y.op, r[y.args[1]], r[y.args[2]])
            /\ s[y.id] = Applied(y.op, s[y.args[1]], s[y.args[2]])
        BY <2>7, <2>10, <3>5, <4>1 DEF Follows, Yields
      <4>3. /\ r[y.args[1]] \in {<< >>, s[y.args[1]]}
            /\ r[y.args[2]] \in {<< >>, s[y.args[2]]}
        BY <3>3, <4>1
      <4>4. CASE r[y.args[1]] = << >> \/ r[y.args[2]] = << >>
        BY <2>4, <2>8, <4>2, <4>4 DEF Applied
      <4>5. CASE r[y.args[1]] # << >> /\ r[y.args[2]] # << >>
        <5>1. r[y.args[1]] = s[y.args[1]] /\ r[y.args[2]] = s[y.args[2]]
          BY <4>3, <4>5
        <5> QED BY <2>4, <2>8, <4>2, <5>1
      <4> QED BY <4>4, <4>5
    <3>6. CASE y.op # "CONST" /\ y.op \notin Binary /\ y.op \in Unary
      <4>1. DOMAIN y.args = {1}
        <5>1. Len(y.args) = 1 BY <2>3, <3>6 DEF ValueOk
        <5> QED BY <3>2, <5>1
      <4>2. /\ r[x.id] = Applied(y.op, r[y.args[1]], r[y.args[1]])
            /\ s[y.id] = Applied(y.op, s[y.args[1]], s[y.args[1]])
        BY <2>7, <2>10, <3>6, <4>1 DEF Follows, Yields
      <4>3. r[y.args[1]] \in {<< >>, s[y.args[1]]} BY <3>3, <4>1
      <4>4. CASE r[y.args[1]] = << >> BY <2>4, <2>8, <4>2, <4>4 DEF Applied
      <4>5. CASE r[y.args[1]] # << >>
        <5>1. r[y.args[1]] = s[y.args[1]] BY <4>3, <4>5
        <5> QED BY <2>4, <2>8, <4>2, <5>1
      <4> QED BY <4>4, <4>5
    <3>7. CASE y.op # "CONST" /\ y.op \notin Binary /\ y.op \notin Unary
      BY <2>4, <2>7, <2>8, <2>10, <3>7 DEF Follows, Yields
    <3> QED BY <3>4, <3>5, <3>6, <3>7
  <2> QED BY <2>6, <2>9, <2>10 DEF ComesFrom
<1>2. \A y \in Y : y.id \in Ids BY DEF ValuesOk, ValueType
<1> QED BY <1>1, <1>2

\* g is f rewritten: what is seen follows what was seen.
Carries(f, g, r) ==
    /\ DOMAIN g = DOMAIN f
    /\ \A y \in ValuesOf(g) : \E x \in ValuesOf(f) : ComesFrom(x, y, r)
    /\ \A b \in DOMAIN f :
          /\ \A x \in Seen(f[b]) : \E y \in Seen(g[b]) : y.id = x.id /\ Follows(x, y, r)
          /\ \A y \in Seen(g[b]) : \E x \in Seen(f[b]) : x.id = y.id

LEMMA SeenAreValues ==
  ASSUME NEW f, NEW b \in DOMAIN f
  PROVE  Seen(f[b]) \subseteq ValuesOf(f)
  BY DEF Seen, ValuesOf

LEMMA Carried ==
  ASSUME NEW f, NEW g, ValuesOk(ValuesOf(f)), ValuesOk(ValuesOf(g)), NEW input \in Int,
         Carries(f, g, ResultsOf(f, input))
  PROVE  SeesTheSame(f, g, input)
<1> DEFINE r == ResultsOf(f, input)
           s == ResultsOf(g, input)
<1>1. IsResult(ValuesOf(f), input, r) /\ IsResult(ValuesOf(g), input, s)
  BY ResultsAre
<1> HIDE DEF r, s
<1>2. Carries(f, g, r) BY DEF r
<1>3. \A y \in ValuesOf(g) : r[y.id] \in {<< >>, s[y.id]}
  BY <1>1, <1>2, Refined DEF Carries
<1>4. ASSUME NEW b \in DOMAIN f, NEW x \in Seen(f[b])
      PROVE  \E y \in Seen(g[b]) : SameEffect(x, r, y, s)
  <2>1. b \in DOMAIN g BY <1>2 DEF Carries
  <2>2. PICK y \in Seen(g[b]) : y.id = x.id /\ Follows(x, y, r) BY <1>2 DEF Carries
  <2>3. y \in ValuesOf(g) BY <2>1, SeenAreValues
  <2>4. \A o \in DOMAIN y.args : \E z \in ValuesOf(g) : y.args[o] = z.id
    BY <2>3 DEF ValuesOk, ValueOk
  <2>5. \A o \in DOMAIN y.args : r[y.args[o]] \in {<< >>, s[y.args[o]]} BY <1>3, <2>4
  <2>6. SameEffect(x, r, y, s) BY <2>2, <2>5 DEF SameEffect, Follows
  <2> QED BY <2>6
<1>5. \A b \in DOMAIN f : \A y \in Seen(g[b]) : \E x \in Seen(f[b]) : x.id = y.id
  BY <1>2 DEF Carries
<1> QED BY <1>4, <1>5 DEF SeesTheSame, r, s

LEMMA SeesTheSameSelf ==
  ASSUME NEW f, NEW input
  PROVE  SeesTheSame(f, f, input)
  BY DEF SeesTheSame, SameEffect

LEMMA SeesTheSameOn ==
  ASSUME NEW f, NEW g, NEW h, NEW input, DOMAIN f = DOMAIN g,
         SeesTheSame(f, g, input), SeesTheSame(g, h, input)
  PROVE  SeesTheSame(f, h, input)
<1> DEFINE r == ResultsOf(f, input)
           s == ResultsOf(g, input)
           t == ResultsOf(h, input)
<1>1. ASSUME NEW b \in DOMAIN f, NEW x \in Seen(f[b])
      PROVE  \E z \in Seen(h[b]) : SameEffect(x, r, z, t)
  <2> HIDE DEF r, s, t
  <2>1. PICK y \in Seen(g[b]) : SameEffect(x, r, y, s) BY DEF SeesTheSame, r, s
  <2>2. PICK z \in Seen(h[b]) : SameEffect(y, s, z, t) BY DEF SeesTheSame, s, t
  <2>3. SameEffect(x, r, z, t) BY <2>1, <2>2 DEF SameEffect
  <2> QED BY <2>3
<1>2. ASSUME NEW b \in DOMAIN f, NEW z \in Seen(h[b])
      PROVE  \E x \in Seen(f[b]) : x.id = z.id
  <2>1. PICK y \in Seen(g[b]) : y.id = z.id BY DEF SeesTheSame
  <2> QED BY <2>1 DEF SeesTheSame
<1> QED BY <1>1, <1>2 DEF SeesTheSame

-----------------------------------------------------------------------------
(* Blocks.                                                                 *)

\* The values of all blocks are in the order of their IDs.
InLine(f) ==
    \A b, c \in DOMAIN f : \A u \in DOMAIN f[b], v \in DOMAIN f[c] :
        b < c \/ (b = c /\ u < v) => f[b][u].id < f[c][v].id

WellMade(f) ==
    /\ f \in Seq(Seq(ValueType)) /\ InLine(f)
    /\ \A x \in ValuesOf(f) : ValueOk(x, IdsOf(f))

LEMMA PlacesAre ==
  ASSUME NEW f \in Seq(Seq(ValueType)), NEW b \in DOMAIN f
  PROVE  /\ b \in Nat /\ f[b] \in Seq(ValueType)
         /\ DOMAIN f[b] = 1 .. Len(f[b]) /\ Len(f[b]) \in Nat
         /\ \A v \in DOMAIN f[b] : v \in Nat /\ f[b][v] \in ValueType /\ f[b][v] \in ValuesOf(f)
<1>1. b \in Nat /\ f[b] \in Seq(ValueType) OBVIOUS
<1>2. DOMAIN f[b] = 1 .. Len(f[b]) /\ Len(f[b]) \in Nat BY <1>1
<1>3. \A v \in DOMAIN f[b] : v \in Nat /\ f[b][v] \in ValueType BY <1>1, <1>2
<1>4. \A v \in DOMAIN f[b] : f[b][v] \in ValuesOf(f) BY DEF ValuesOf
<1> QED BY <1>1, <1>2, <1>3, <1>4

LEMMA PlaceOf ==
  ASSUME NEW f, NEW x \in ValuesOf(f)
  PROVE  \E b \in DOMAIN f : \E v \in DOMAIN f[b] : x = f[b][v]
  BY DEF ValuesOf

LEMMA IdsAreInts == \A x \in ValueType : x.id \in Int
<1>1. \A x \in ValueType : x.id \in Ids BY DEF ValueType
<1>2. \A i \in Ids : i \in Int BY IdsAre
<1> QED BY <1>1, <1>2

LEMMA WellMadeValues ==
  ASSUME NEW f, WellMade(f)
  PROVE  ValuesOk(ValuesOf(f))
<1>1. f \in Seq(Seq(ValueType)) BY DEF WellMade
<1>2. ValuesOf(f) \subseteq ValueType BY <1>1, PlacesAre, PlaceOf
<1>3. ASSUME NEW x \in ValuesOf(f), NEW y \in ValuesOf(f), x.id = y.id PROVE x = y
  <2>1. PICK b \in DOMAIN f : \E v \in DOMAIN f[b] : x = f[b][v] BY PlaceOf
  <2>2. PICK u \in DOMAIN f[b] : x = f[b][u] BY <2>1
  <2>3. PICK c \in DOMAIN f : \E v \in DOMAIN f[c] : y = f[c][v] BY PlaceOf
  <2>4. PICK v \in DOMAIN f[c] : y = f[c][v] BY <2>3
  <2>5. x.id \in Int /\ ~(x.id < y.id) /\ ~(y.id < x.id) BY <1>2, <1>3, IdsAreInts
  <2>6. b \in Nat /\ c \in Nat /\ u \in Nat /\ v \in Nat BY <1>1, PlacesAre
  <2>7. ~(b < c) /\ ~(c < b) BY <2>2, <2>4, <2>5 DEF WellMade, InLine
  <2>8. b = c BY <2>6, <2>7
  <2>9. ~(u < v) /\ ~(v < u) BY <2>2, <2>4, <2>5, <2>8 DEF WellMade, InLine
  <2>10. u = v BY <2>6, <2>9
  <2> QED BY <2>2, <2>4, <2>8, <2>10
<1>4. \A x \in ValuesOf(f) : ValueOk(x, {y.id : y \in ValuesOf(f)})
  BY DEF WellMade, IdsOf
<1> QED BY <1>2, <1>3, <1>4 DEF ValuesOk

\* Effects and ends are left alone.
SameKind(x, y) ==
    x.op \in Terminators \cup Effects \/ y.op \in Terminators \cup Effects
        => y.op = x.op /\ y.num = x.num

\* Every value stays where it is.
InPlace(f, g) ==
    /\ g \in Seq(Seq(ValueType)) /\ DOMAIN g = DOMAIN f
    /\ \A b \in DOMAIN f :
          /\ DOMAIN g[b] = DOMAIN f[b]
          /\ \A v \in DOMAIN f[b] : g[b][v].id = f[b][v].id /\ SameKind(f[b][v], g[b][v])
    /\ \A y \in ValuesOf(g) : ValueOk(y, IdsOf(f))

LEMMA InPlaceWellMade ==
  ASSUME NEW f, NEW g, WellMade(f), InPlace(f, g)
  PROVE  WellMade(g)
<1>1. InLine(g) BY DEF WellMade, InLine, InPlace
<1>2. IdsOf(f) \subseteq IdsOf(g)
  <2> SUFFICES ASSUME NEW x \in ValuesOf(f) PROVE x.id \in IdsOf(g)
    BY DEF IdsOf
  <2>1. PICK b \in DOMAIN f : \E v \in DOMAIN f[b] : x = f[b][v] BY PlaceOf
  <2>2. PICK v \in DOMAIN f[b] : x = f[b][v] BY <2>1
  <2>3. b \in DOMAIN g /\ v \in DOMAIN g[b] /\ g[b][v].id = x.id BY <2>2 DEF InPlace
  <2>4. g[b][v] \in ValuesOf(g) BY <2>3 DEF ValuesOf
  <2> QED BY <2>3, <2>4 DEF IdsOf
<1>3. \A y \in ValuesOf(g) : ValueOk(y, IdsOf(g)) BY <1>2 DEF InPlace, ValueOk
<1> QED BY <1>1, <1>3 DEF WellMade, InPlace

LEMMA InPlaceCarries ==
  ASSUME NEW f, NEW g, InPlace(f, g), NEW r,
         \A b \in DOMAIN f : \A v \in DOMAIN f[b] : ComesFrom(f[b][v], g[b][v], r)
  PROVE  Carries(f, g, r)
<1>1. DOMAIN g = DOMAIN f /\ \A b \in DOMAIN f : DOMAIN g[b] = DOMAIN f[b] BY DEF InPlace
<1>2. ASSUME NEW y \in ValuesOf(g) PROVE \E x \in ValuesOf(f) : ComesFrom(x, y, r)
  <2>1. PICK b \in DOMAIN g : \E v \in DOMAIN g[b] : y = g[b][v] BY PlaceOf
  <2>2. PICK v \in DOMAIN g[b] : y = g[b][v] BY <2>1
  <2>3. b \in DOMAIN f /\ v \in DOMAIN f[b] BY <1>1
  <2>4. f[b][v] \in ValuesOf(f) /\ ComesFrom(f[b][v], y, r) BY <2>2, <2>3 DEF ValuesOf
  <2> QED BY <2>4
<1>3. ASSUME NEW b \in DOMAIN f, NEW x \in Seen(f[b])
      PROVE  \E y \in Seen(g[b]) : y.id = x.id /\ Follows(x, y, r)
  <2>1. PICK v \in DOMAIN f[b] : x = f[b][v] /\ x.op \in Terminators \cup Effects BY DEF Seen
  <2>2. g[b][v].op = x.op /\ v \in DOMAIN g[b] BY <1>1, <2>1 DEF InPlace, SameKind
  <2>3. g[b][v] \in Seen(g[b]) BY <2>1, <2>2 DEF Seen
  <2>4. x.op # "CONST" BY <2>1 DEF Terminators, Effects
  <2>5. g[b][v].id = x.id /\ Follows(x, g[b][v], r) BY <2>1, <2>2, <2>4 DEF ComesFrom
  <2> QED BY <2>3, <2>5
<1>4. ASSUME NEW b \in DOMAIN f, NEW y \in Seen(g[b])
      PROVE  \E x \in Seen(f[b]) : x.id = y.id
  <2>1. PICK v \in DOMAIN f[b] : y = g[b][v] /\ y.op \in Terminators \cup Effects
    BY <1>1 DEF Seen
  <2>2. f[b][v].op \in Terminators \cup Effects /\ f[b][v].id = y.id
    BY <2>1 DEF InPlace, SameKind
  <2>3. f[b][v] \in Seen(f[b]) BY <2>2 DEF Seen
  <2> QED BY <2>2, <2>3
<1> QED BY <1>1, <1>2, <1>3, <1>4 DEF Carries

\* No block ends in a branch.
LEMMA NoBranches ==
  ASSUME Plain, NEW f \in Seq(Seq(ValueType))
  PROVE  \A x \in ValuesOf(f) : x.op # "BRANCH"
<1> SUFFICES ASSUME NEW x \in ValuesOf(f) PROVE x.op # "BRANCH"
  OBVIOUS
<1>1. x \in ValueType BY PlacesAre, PlaceOf
<1> QED BY <1>1 DEF ValueType, Plain

LEMMA InPlaceValid ==
  ASSUME Plain, NEW f, NEW g, WellMade(f), InPlace(f, g)
  PROVE  /\ Valid(f) => Valid(g)
         /\ \A b \in DOMAIN f : Sealed(f[b]) => Sealed(g[b])
         /\ f # << >> => g # << >>
<1>1. /\ g \in Seq(Seq(ValueType)) /\ f \in Seq(Seq(ValueType)) /\ DOMAIN g = DOMAIN f
      /\ \A b \in DOMAIN f : DOMAIN g[b] = DOMAIN f[b]
  BY DEF InPlace, WellMade
<1>2. \A b \in DOMAIN f : \A v \in DOMAIN f[b] :
          /\ g[b][v].op \in Terminators <=> f[b][v].op \in Terminators
          /\ g[b][v].op \in Terminators => g[b][v].op = f[b][v].op /\ g[b][v].num = f[b][v].num
  BY <1>1 DEF InPlace, SameKind
<1>3. f # << >> => g # << >>
  <2>1. Len(f) = Len(g) BY <1>1
  <2> QED BY <1>1, <2>1
<1>4. \A b \in DOMAIN f : Len(g[b]) = Len(f[b])
  <2> TAKE b \in DOMAIN f
  <2>1. f[b] \in Seq(ValueType) /\ g[b] \in Seq(ValueType) BY <1>1, PlacesAre
  <2> QED BY <1>1, <2>1
<1>5. ASSUME Valid(f), NEW b \in DOMAIN g
      PROVE  \E last \in DOMAIN g[b] :
                /\ last = Len(g[b])
                /\ \A v \in DOMAIN g[b] : g[b][v].op \in Terminators <=> v = last
  BY <1>1, <1>2, <1>4, <1>5 DEF Valid
<1>6. ASSUME Valid(f), NEW y \in ValuesOf(g), y.op = "JUMP" PROVE y.num + 1 \in DOMAIN g
  <2>1. PICK b \in DOMAIN g : \E v \in DOMAIN g[b] : y = g[b][v] BY PlaceOf
  <2>2. PICK v \in DOMAIN g[b] : y = g[b][v] BY <2>1
  <2>3. y.op \in Terminators BY <1>6 DEF Terminators
  <2>4. f[b][v].op = "JUMP" /\ f[b][v].num = y.num BY <1>1, <1>2, <1>6, <2>2, <2>3
  <2>5. f[b][v] \in ValuesOf(f) BY <1>1 DEF ValuesOf
  <2> QED BY <1>1, <1>6, <2>4, <2>5 DEF Valid
<1>7. \A y \in ValuesOf(g) : y.op # "BRANCH" BY <1>1, NoBranches
<1>8. Valid(f) => Valid(g) BY <1>3, <1>5, <1>6, <1>7 DEF Valid
<1>9. \A b \in DOMAIN f : Sealed(f[b]) => Sealed(g[b]) BY <1>1, <1>2 DEF Sealed
<1> QED BY <1>3, <1>8, <1>9

-----------------------------------------------------------------------------
(* The rules of folding.                                                   *)

LEMMA ConstIs ==
  ASSUME NEW f, ValuesOk(ValuesOf(f)), NEW id, IsConst(f, id)
  PROVE  /\ id \in Ids /\ ConstOf(f, id) \in Int
         /\ \A input, r : IsResult(ValuesOf(f), input, r) => r[id] = <<ConstOf(f, id)>>
<1> DEFINE x == CHOOSE x \in ValuesOf(f) : x.id = id /\ x.op = "CONST"
<1>1. x \in ValuesOf(f) /\ x.id = id /\ x.op = "CONST" BY DEF IsConst
<1>2. ConstOf(f, id) = x.num BY DEF ConstOf
<1> HIDE DEF x
<1>3. x \in ValueType BY <1>1 DEF ValuesOk
<1>4. id \in Ids /\ x.num \in Int BY <1>1, <1>3 DEF ValueType
<1>5. ASSUME NEW input, NEW r, IsResult(ValuesOf(f), input, r)
      PROVE  r[id] = <<ConstOf(f, id)>>
  BY <1>1, <1>2, <1>5 DEF IsResult, Yields
<1> QED BY <1>2, <1>4, <1>5

\* A visit of fir_constant_fold keeps the function.
Keeps(f, g) ==
    /\ InPlace(f, g)
    /\ \A input \in Int : Carries(f, g, ResultsOf(f, input))

LEMMA AsConstKeeps ==
  ASSUME NEW f, WellMade(f), NEW b \in DOMAIN f, NEW v \in DOMAIN f[b], NEW n \in Int,
         f[b][v].op \notin Terminators \cup Effects,
         \A input \in Int : ResultsOf(f, input)[f[b][v].id] \in {<< >>, <<n>>}
  PROVE  Keeps(f, AsConst(f, b, v, n))
<1> DEFINE x == f[b][v]
           y == [x EXCEPT !.op = "CONST", !.num = n, !.args = << >>]
           block == [f[b] EXCEPT ![v] = y]
           g == [f EXCEPT ![b] = block]
<1>1. AsConst(f, b, v, n) = g BY DEF AsConst
<1>2. f \in Seq(Seq(ValueType)) BY DEF WellMade
<1>3. x \in ValueType /\ f[b] \in Seq(ValueType) BY <1>2, PlacesAre
<1>4. /\ y \in ValueType /\ y.id = x.id /\ y.op = "CONST" /\ y.num = n
      /\ y.args = << >>
  <2>1. << >> \in Seq(Ids) OBVIOUS
  <2> HIDE DEF x
  <2> QED BY <1>3, <2>1 DEF ValueType
<1> HIDE DEF y
<1>5. /\ block \in Seq(ValueType) /\ DOMAIN block = DOMAIN f[b] /\ block[v] = y
      /\ \A w \in DOMAIN f[b] : w # v => block[w] = f[b][w]
  <2>1. block \in [DOMAIN f[b] -> ValueType] BY <1>2, <1>4, PlacesAre
  <2>2. block \in Seq(ValueType)
    <3> HIDE DEF block
    <3> QED BY <1>3, <2>1, SameLength
  <2> QED BY <2>2
<1> HIDE DEF block
<1>6. /\ g \in Seq(Seq(ValueType)) /\ DOMAIN g = DOMAIN f /\ g[b] = block
      /\ \A c \in DOMAIN f : c # b => g[c] = f[c]
  <2>1. g \in [DOMAIN f -> Seq(ValueType)] BY <1>2, <1>5
  <2>2. g \in Seq(Seq(ValueType))
    <3> HIDE DEF g
    <3> QED BY <1>2, <2>1, SameLength
  <2> QED BY <2>2
<1> HIDE DEF g
<1>7. ASSUME NEW c \in DOMAIN f, NEW w \in DOMAIN f[c]
      PROVE  /\ DOMAIN g[c] = DOMAIN f[c] /\ w \in DOMAIN g[c]
             /\ g[c][w].id = f[c][w].id /\ SameKind(f[c][w], g[c][w])
             /\ ValueOk(g[c][w], IdsOf(f))
             /\ \A input \in Int : ComesFrom(f[c][w], g[c][w], ResultsOf(f, input))
  <2>1. CASE c = b /\ w = v
    <3>1. g[c][w] = y /\ f[c][w] = x BY <1>5, <1>6, <2>1
    <3>2. SameKind(x, y) BY <1>4 DEF SameKind, Terminators, Effects
    <3>3. ValueOk(y, IdsOf(f)) BY <1>4 DEF ValueOk, Binary, Unary, Arithmetic, Relations
    <3>4. \A input \in Int : ComesFrom(x, y, ResultsOf(f, input)) BY <1>4 DEF ComesFrom
    <3> HIDE DEF x
    <3> QED BY <1>4, <1>5, <1>6, <2>1, <3>1, <3>2, <3>3, <3>4
  <2>2. CASE ~(c = b /\ w = v)
    <3>1. g[c][w] = f[c][w] /\ DOMAIN g[c] = DOMAIN f[c] BY <1>5, <1>6, <2>2
    <3>2. f[c][w] \in ValuesOf(f) BY <1>2, PlacesAre
    <3>3. ValueOk(f[c][w], IdsOf(f)) BY <3>2 DEF WellMade
    <3>4. SameKind(f[c][w], f[c][w]) BY DEF SameKind
    <3>5. \A r : ComesFrom(f[c][w], f[c][w], r) BY DEF ComesFrom, Follows
    <3> QED BY <3>1, <3>3, <3>4, <3>5
  <2> QED BY <2>1, <2>2
<1>8. \A c \in DOMAIN f : DOMAIN g[c] = DOMAIN f[c] BY <1>5, <1>6
<1>9. \A z \in ValuesOf(g) : ValueOk(z, IdsOf(f)) BY <1>6, <1>7, <1>8, PlaceOf
<1>10. InPlace(f, g) BY <1>6, <1>7, <1>8, <1>9 DEF InPlace
<1>11. \A input \in Int : Carries(f, g, ResultsOf(f, input)) BY <1>7, <1>10, InPlaceCarries
<1> QED BY <1>1, <1>10, <1>11 DEF Keeps

LEMMA ReplaceKeeps ==
  ASSUME NEW f, WellMade(f), NEW old \in Ids, NEW new \in IdsOf(f) \cap Ids, new < old,
         \A input \in Int : ResultsOf(f, input)[old] = ResultsOf(f, input)[new]
  PROVE  Keeps(f, ReplaceUses(f, old, new))
<1> DEFINE Args(x) == [o \in DOMAIN x.args |-> IF x.args[o] = old THEN new ELSE x.args[o]]
           Subst(x) == [x EXCEPT !.args = Args(x)]
           block(c) == [w \in DOMAIN f[c] |-> Subst(f[c][w])]
           g == [c \in DOMAIN f |-> block(c)]
<1>1. ReplaceUses(f, old, new) = g BY DEF ReplaceUses
<1>2. f \in Seq(Seq(ValueType)) BY DEF WellMade
<1>3. ASSUME NEW x \in ValueType, ValueOk(x, IdsOf(f))
      PROVE  /\ Subst(x) \in ValueType /\ Subst(x).id = x.id /\ Subst(x).op = x.op
             /\ Subst(x).num = x.num
             /\ SameKind(x, Subst(x)) /\ ValueOk(Subst(x), IdsOf(f))
             /\ \A input \in Int : ComesFrom(x, Subst(x), ResultsOf(f, input))
  <2>1. x.args \in Seq(Ids) /\ x.id \in Ids BY DEF ValueType
  <2>2. Args(x) \in [DOMAIN x.args -> Ids] BY <2>1
  <2>3. /\ DOMAIN Args(x) = DOMAIN x.args
        /\ \A o \in DOMAIN x.args : Args(x)[o] = IF x.args[o] = old THEN new ELSE x.args[o]
    OBVIOUS
  <2> HIDE DEF Args
  <2>4. Args(x) \in Seq(Ids) /\ Len(Args(x)) = Len(x.args) BY <2>1, <2>2, SameLength
  <2>5. /\ Subst(x) \in ValueType /\ Subst(x).id = x.id /\ Subst(x).op = x.op
        /\ Subst(x).num = x.num /\ Subst(x).args = Args(x)
    BY <2>4 DEF ValueType
  <2> HIDE DEF Subst
  <2>6. ASSUME NEW o \in DOMAIN x.args
        PROVE  Args(x)[o] \in IdsOf(f) /\ Args(x)[o] < x.id
    <3>1. x.args[o] \in IdsOf(f) /\ x.args[o] < x.id BY <1>3 DEF ValueOk
    <3>2. old \in Int /\ new \in Int /\ x.id \in Int
      <4>1. \A i \in Ids : i \in Int BY IdsAre
      <4> QED BY <2>1, <4>1
    <3> QED BY <2>3, <3>1, <3>2
  <2>7. ValueOk(Subst(x), IdsOf(f)) BY <1>3, <2>3, <2>4, <2>5, <2>6 DEF ValueOk
  <2>8. SameKind(x, Subst(x)) BY <2>5 DEF SameKind
  <2>9. ASSUME NEW input \in Int PROVE ComesFrom(x, Subst(x), ResultsOf(f, input))
    BY <2>3, <2>5 DEF ComesFrom, Follows
  <2> QED BY <2>5, <2>7, <2>8, <2>9
<1> HIDE DEF Subst
<1>4. ASSUME NEW c \in DOMAIN f
      PROVE  /\ block(c) \in Seq(ValueType) /\ DOMAIN block(c) = DOMAIN f[c]
             /\ \A w \in DOMAIN f[c] : block(c)[w] = Subst(f[c][w])
  <2>1. f[c] \in Seq(ValueType) BY <1>2, PlacesAre
  <2>2. \A w \in DOMAIN f[c] : f[c][w] \in ValueType /\ ValueOk(f[c][w], IdsOf(f))
    BY <1>2, PlacesAre DEF WellMade
  <2>3. block(c) \in [DOMAIN f[c] -> ValueType] BY <1>3, <2>2
  <2>4. DOMAIN block(c) = DOMAIN f[c] /\ \A w \in DOMAIN f[c] : block(c)[w] = Subst(f[c][w])
    OBVIOUS
  <2> HIDE DEF block
  <2>5. block(c) \in Seq(ValueType) BY <2>1, <2>3, SameLength
  <2> QED BY <2>4, <2>5
<1> HIDE DEF block
<1>5. /\ g \in Seq(Seq(ValueType)) /\ DOMAIN g = DOMAIN f
      /\ \A c \in DOMAIN f : g[c] = block(c)
  <2>1. g \in [DOMAIN f -> Seq(ValueType)] BY <1>4
  <2>2. DOMAIN g = DOMAIN f /\ \A c \in DOMAIN f : g[c] = block(c) OBVIOUS
  <2> HIDE DEF g
  <2>3. g \in Seq(Seq(ValueType)) BY <1>2, <2>1, SameLength
  <2> QED BY <2>2, <2>3
<1> HIDE DEF g
<1>6. \A c \in DOMAIN f : \A w \in DOMAIN f[c] :
         /\ f[c][w] \in ValueType /\ ValueOk(f[c][w], IdsOf(f))
         /\ g[c][w] = Subst(f[c][w]) /\ DOMAIN g[c] = DOMAIN f[c]
  BY <1>2, <1>4, <1>5, PlacesAre DEF WellMade
<1>7. \A c \in DOMAIN f : DOMAIN g[c] = DOMAIN f[c] BY <1>4, <1>5
<1>8. \A z \in ValuesOf(g) : ValueOk(z, IdsOf(f))
  <2> SUFFICES ASSUME NEW z \in ValuesOf(g) PROVE ValueOk(z, IdsOf(f))
    OBVIOUS
  <2>1. PICK c \in DOMAIN g : \E w \in DOMAIN g[c] : z = g[c][w] BY PlaceOf
  <2>2. PICK w \in DOMAIN g[c] : z = g[c][w] BY <2>1
  <2>3. c \in DOMAIN f /\ w \in DOMAIN f[c] BY <1>5, <1>7
  <2> QED BY <1>3, <1>6, <2>2, <2>3
<1>9. InPlace(f, g) BY <1>3, <1>5, <1>6, <1>7, <1>8 DEF InPlace
<1>10. ASSUME NEW input \in Int PROVE Carries(f, g, ResultsOf(f, input))
  <2>1. \A c \in DOMAIN f : \A w \in DOMAIN f[c] :
           ComesFrom(f[c][w], g[c][w], ResultsOf(f, input))
    BY <1>3, <1>6
  <2> QED BY <1>9, <2>1, InPlaceCarries
<1> QED BY <1>1, <1>9, <1>10 DEF Keeps

LEMMA SelfKeeps ==
  ASSUME NEW f, WellMade(f)
  PROVE  Keeps(f, f)
<1>1. InPlace(f, f) BY DEF InPlace, SameKind, WellMade
<1>2. \A r : Carries(f, f, r) BY DEF Carries, ComesFrom, Follows
<1> QED BY <1>1, <1>2 DEF Keeps

\* An operation that may fold has the operands its rule looks at.
LEMMA OperandsOfRule ==
  ASSUME NEW f, WellMade(f), NEW x \in ValuesOf(f)
  PROVE  /\ x \in ValueType /\ ValueOk(x, IdsOf(f)) /\ x.args \in Seq(Ids)
         /\ DOMAIN x.args = 1 .. Len(x.args) /\ Len(x.args) \in Nat
         /\ \A input \in Int : IsResult(ValuesOf(f), input, ResultsOf(f, input))
         /\ x.op \in Arithmetic \cup Relations /\ Len(x.args) >= 2 =>
               x.op \in Binary /\ Len(x.args) = 2
<1>1. ValuesOk(ValuesOf(f)) BY WellMadeValues
<1>2. x \in ValueType /\ ValueOk(x, IdsOf(f)) BY <1>1 DEF ValuesOk, WellMade
<1>3. x.args \in Seq(Ids) BY <1>2 DEF ValueType
<1>4. DOMAIN x.args = 1 .. Len(x.args) /\ Len(x.args) \in Nat BY <1>3
<1>5. \A input \in Int : IsResult(ValuesOf(f), input, ResultsOf(f, input)) BY <1>1, ResultsAre
<1>6. ASSUME x.op \in Arithmetic \cup Relations, Len(x.args) >= 2
      PROVE  x.op \in Binary /\ Len(x.args) = 2
  <2>1. x.op \notin Unary BY <1>2, <1>4, <1>6 DEF ValueOk
  <2>2. x.op \in Binary BY <1>6, <2>1 DEF Binary
  <2> QED BY <1>2, <2>2 DEF ValueOk
<1> QED BY <1>2, <1>3, <1>4, <1>5, <1>6

\* A value with two operands yields what its operation makes of them.
LEMMA BinaryYields ==
  ASSUME NEW f, WellMade(f), NEW x \in ValuesOf(f), x.op \in Binary, NEW input \in Int
  PROVE  /\ x.args[1] \in Ids \cap IdsOf(f) /\ x.args[2] \in Ids \cap IdsOf(f)
         /\ x.args[1] < x.id /\ x.args[2] < x.id
         /\ ResultsOf(f, input)[x.args[1]] \in Numeric
         /\ ResultsOf(f, input)[x.args[2]] \in Numeric
         /\ ResultsOf(f, input)[x.id] =
              Applied(x.op, ResultsOf(f, input)[x.args[1]], ResultsOf(f, input)[x.args[2]])
<1>1. x \in ValueType /\ ValueOk(x, IdsOf(f)) BY OperandsOfRule
<1>2. /\ x.args[1] \in Ids \cap IdsOf(f) /\ x.args[2] \in Ids \cap IdsOf(f)
      /\ x.args[1] < x.id /\ x.args[2] < x.id
  BY <1>1, OperandsOk
<1> DEFINE r == ResultsOf(f, input)
<1>3. IsResult(ValuesOf(f), input, r) BY OperandsOfRule
<1> HIDE DEF r
<1>4. r[x.args[1]] \in Numeric /\ r[x.args[2]] \in Numeric BY <1>2, <1>3 DEF IsResult
<1>5. x.op # "CONST" BY DEF Binary, Arithmetic, Relations
<1>6. r[x.id] = Applied(x.op, r[x.args[1]], r[x.args[2]]) BY <1>3, <1>5 DEF IsResult, Yields
<1> QED BY <1>2, <1>4, <1>6 DEF r

LEMMA EvaluatesKeeps ==
  ASSUME NEW f, WellMade(f), NEW b \in DOMAIN f, NEW v \in DOMAIN f[b],
         Evaluates(f, f[b][v]), NEW operand,
         operand = [o \in DOMAIN f[b][v].args |-> ConstOf(f, f[b][v].args[o])]
  PROVE  Keeps(f, AsConst(f, b, v, Computed(f[b][v].op, operand[1], Last(operand))))
<1> DEFINE x == f[b][v]
<1>1. x \in ValuesOf(f) BY DEF ValuesOf
<1>2. Evaluates(f, x) /\ operand = [o \in DOMAIN x.args |-> ConstOf(f, x.args[o])] OBVIOUS
<1>3. ValuesOk(ValuesOf(f)) BY WellMadeValues
<1> DEFINE n == Computed(x.op, operand[1], Last(operand))
<1> HIDE DEF x
<1>4. Len(operand) = Len(x.args)
  <2>1. DOMAIN operand = 1 .. Len(x.args) /\ Len(x.args) \in Nat BY <1>1, <1>2, OperandsOfRule
  <2> QED BY <2>1
<1>5. n \in Int /\ x.op \notin Terminators \cup Effects
      /\ \A input \in Int : ResultsOf(f, input)[x.id] = <<n>>
  <2>1. CASE /\ x.op \in Arithmetic \cup Relations
             /\ Len(x.args) >= 2
             /\ IsConst(f, x.args[1]) /\ IsConst(f, x.args[2])
             /\ ~DividesByZero(x.op, ConstOf(f, x.args[2]))
    <3>1. x.op \in Binary /\ Len(x.args) = 2 /\ DOMAIN x.args = 1 .. 2
      BY <1>1, <2>1, OperandsOfRule
    <3>2. operand[1] = ConstOf(f, x.args[1]) /\ operand[2] = ConstOf(f, x.args[2])
      BY <1>2, <3>1
    <3>3. Last(operand) = operand[2] BY <1>4, <3>1 DEF Last
    <3>4. n = Computed(x.op, ConstOf(f, x.args[1]), ConstOf(f, x.args[2])) BY <3>2, <3>3
    <3>5. ConstOf(f, x.args[1]) \in Int /\ ConstOf(f, x.args[2]) \in Int BY <1>3, <2>1, ConstIs
    <3>6. n \in Int BY <2>1, <3>4, <3>5, ComputedIsInt
    <3>7. x.op \notin Terminators \cup Effects
      BY <2>1 DEF Arithmetic, Relations, Terminators, Effects
    <3> HIDE DEF n
    <3>8. ASSUME NEW input \in Int PROVE ResultsOf(f, input)[x.id] = <<n>>
      <4> DEFINE r == ResultsOf(f, input)
      <4>1. r[x.id] = Applied(x.op, r[x.args[1]], r[x.args[2]]) BY <1>1, <3>1, BinaryYields
      <4>2. IsResult(ValuesOf(f), input, r) BY <1>1, OperandsOfRule
      <4> HIDE DEF r
      <4>3. r[x.args[1]] = <<ConstOf(f, x.args[1])>> /\ r[x.args[2]] = <<ConstOf(f, x.args[2])>>
        BY <1>3, <2>1, <4>2, ConstIs
      <4>4. r[x.id] = <<n>> BY <2>1, <3>4, <4>1, <4>3 DEF Applied
      <4> QED BY <4>4 DEF r
    <3> QED BY <3>6, <3>7, <3>8
  <2>2. CASE x.op = "NEG" /\ x.args # << >> /\ IsConst(f, x.args[1])
    <3>1. x.op \in Unary BY <2>2 DEF Unary
    <3>2. Len(x.args) = 1 /\ DOMAIN x.args = 1 .. 1
      <4>1. ValueOk(x, IdsOf(f)) /\ DOMAIN x.args = 1 .. Len(x.args) BY <1>1, OperandsOfRule
      <4> QED BY <3>1, <4>1 DEF ValueOk
    <3>3. operand[1] = ConstOf(f, x.args[1]) BY <1>2, <3>2
    <3>4. Last(operand) = operand[1] BY <1>4, <3>2 DEF Last
    <3>5. n = Computed(x.op, ConstOf(f, x.args[1]), ConstOf(f, x.args[1])) BY <3>3, <3>4
    <3>6. ConstOf(f, x.args[1]) \in Int BY <1>3, <2>2, ConstIs
    <3>7. ~DividesByZero(x.op, ConstOf(f, x.args[1])) BY <2>2 DEF DividesByZero
    <3>8. x.op \in Arithmetic \cup Relations BY <2>2 DEF Arithmetic
    <3>9. n \in Int BY <3>5, <3>6, <3>7, <3>8, ComputedIsInt
    <3>10. x.op \notin Terminators \cup Effects BY <2>2 DEF Terminators, Effects
    <3> HIDE DEF n
    <3>11. ASSUME NEW input \in Int PROVE ResultsOf(f, input)[x.id] = <<n>>
      <4> DEFINE r == ResultsOf(f, input)
      <4>1. IsResult(ValuesOf(f), input, r) BY <1>1, OperandsOfRule
      <4> HIDE DEF r
      <4>2. x.op # "CONST" /\ x.op \notin Binary BY <2>2 DEF Binary, Unary, Arithmetic, Relations
      <4>3. r[x.id] = Applied(x.op, r[x.args[1]], r[x.args[1]])
        BY <1>1, <3>1, <4>1, <4>2 DEF IsResult, Yields
      <4>4. r[x.args[1]] = <<ConstOf(f, x.args[1])>> BY <1>3, <2>2, <4>1, ConstIs
      <4>5. r[x.id] = <<n>> BY <3>5, <3>7, <4>3, <4>4 DEF Applied
      <4> QED BY <4>5 DEF r
    <3> QED BY <3>9, <3>10, <3>11
  <2> QED BY <1>2, <2>1, <2>2 DEF Evaluates
<1> HIDE DEF n
<1>6. Keeps(f, AsConst(f, b, v, n)) BY <1>5, AsConstKeeps DEF x
<1> QED BY <1>6 DEF n, x

\* x + 0, x - 0, x * 1 and their mirror images are the other operand.
LEMMA IdentityIs ==
  ASSUME NEW f, WellMade(f), NEW x \in ValuesOf(f), NEW input \in Int
  PROVE  /\ KeepsLeft(f, x) => ResultsOf(f, input)[x.id] = ResultsOf(f, input)[x.args[1]]
         /\ KeepsRight(f, x) => ResultsOf(f, input)[x.id] = ResultsOf(f, input)[x.args[2]]
         /\ Vanishes(f, x) => ResultsOf(f, input)[x.id] \in {<< >>, <<0>>}
<1> DEFINE r == ResultsOf(f, input)
<1>1. IsResult(ValuesOf(f), input, r) /\ ValuesOk(ValuesOf(f)) BY OperandsOfRule, WellMadeValues
<1>2. ASSUME KeepsLeft(f, x) \/ KeepsRight(f, x) \/ Vanishes(f, x)
      PROVE  x.op \in {"ADD", "SUB", "MUL"} /\ x.op \in Binary
  <2>1. x.op \in {"ADD", "SUB", "MUL"} /\ Len(x.args) >= 2
    BY <1>2 DEF KeepsLeft, KeepsRight, Vanishes
  <2>2. x.op \in Arithmetic \cup Relations BY <2>1 DEF Arithmetic
  <2> QED BY <2>1, <2>2, OperandsOfRule
<1>3. ASSUME x.op \in {"ADD", "SUB", "MUL"}, x.op \in Binary
      PROVE  /\ r[x.args[1]] \in Numeric /\ r[x.args[2]] \in Numeric
             /\ r[x.id] = Applied(x.op, r[x.args[1]], r[x.args[2]])
             /\ ~\E m : DividesByZero(x.op, m)
  BY <1>3, BinaryYields DEF DividesByZero
<1> HIDE DEF r
<1>4. \A i, m : ArgIs(f, x, i, m) => r[x.args[i]] = <<m>> BY <1>1, ConstIs DEF ArgIs
<1>5. \A a \in Numeric : a = << >> \/ \E m \in Int : a = <<m>> BY DEF Numeric
<1>6. ASSUME KeepsLeft(f, x) PROVE r[x.id] = r[x.args[1]]
  <2>1. /\ r[x.args[1]] \in Numeric
        /\ r[x.id] = Applied(x.op, r[x.args[1]], r[x.args[2]])
        /\ ~\E m : DividesByZero(x.op, m)
    BY <1>2, <1>3, <1>6
  <2>2. CASE r[x.args[1]] = << >> BY <2>1, <2>2 DEF Applied
  <2>3. CASE r[x.args[1]] # << >>
    <3>1. PICK m \in Int : r[x.args[1]] = <<m>> BY <1>5, <2>1, <2>3
    <3>2. CASE x.op \in {"ADD", "SUB"} /\ ArgIs(f, x, 2, 0)
      <4>1. r[x.args[2]] = <<0>> BY <1>4, <3>2
      <4>2. r[x.id] = <<Computed(x.op, m, 0)>> BY <2>1, <3>1, <4>1 DEF Applied
      <4>3. Computed(x.op, m, 0) = m BY <3>2 DEF Computed
      <4> QED BY <3>1, <4>2, <4>3
    <3>3. CASE x.op = "MUL" /\ ArgIs(f, x, 2, 1)
      <4>1. r[x.args[2]] = <<1>> BY <1>4, <3>3
      <4>2. r[x.id] = <<Computed(x.op, m, 1)>> BY <2>1, <3>1, <4>1 DEF Applied
      <4>3. Computed(x.op, m, 1) = m BY <3>3 DEF Computed
      <4> QED BY <3>1, <4>2, <4>3
    <3> QED BY <1>6, <3>2, <3>3 DEF KeepsLeft
  <2> QED BY <2>2, <2>3
<1>7. ASSUME KeepsRight(f, x) PROVE r[x.id] = r[x.args[2]]
  <2>1. /\ r[x.args[2]] \in Numeric
        /\ r[x.id] = Applied(x.op, r[x.args[1]], r[x.args[2]])
        /\ ~\E m : DividesByZero(x.op, m)
    BY <1>2, <1>3, <1>7
  <2>2. CASE r[x.args[2]] = << >> BY <2>1, <2>2 DEF Applied
  <2>3. CASE r[x.args[2]] # << >>
    <3>1. PICK m \in Int : r[x.args[2]] = <<m>> BY <1>5, <2>1, <2>3
    <3>2. CASE x.op = "ADD" /\ ArgIs(f, x, 1, 0)
      <4>1. r[x.args[1]] = <<0>> BY <1>4, <3>2
      <4>2. r[x.id] = <<Computed(x.op, 0, m)>> BY <2>1, <3>1, <4>1 DEF Applied
      <4>3. Computed(x.op, 0, m) = m BY <3>2 DEF Computed
      <4> QED BY <3>1, <4>2, <4>3
    <3>3. CASE x.op = "MUL" /\ ArgIs(f, x, 1, 1)
      <4>1. r[x.args[1]] = <<1>> BY <1>4, <3>3
      <4>2. r[x.id] = <<Computed(x.op, 1, m)>> BY <2>1, <3>1, <4>1 DEF Applied
      <4>3. Computed(x.op, 1, m) = m BY <3>3 DEF Computed
      <4> QED BY <3>1, <4>2, <4>3
    <3> QED BY <1>7, <3>2, <3>3 DEF KeepsRight
  <2> QED BY <2>2, <2>3
<1>8. ASSUME Vanishes(f, x) PROVE r[x.id] \in {<< >>, <<0>>}
  <2>1. /\ r[x.args[1]] \in Numeric /\ r[x.args[2]] \in Numeric
        /\ r[x.id] = Applied(x.op, r[x.args[1]], r[x.args[2]])
        /\ ~\E m : DividesByZero(x.op, m)
    BY <1>2, <1>3, <1>8
  <2>2. CASE r[x.args[1]] = << >> \/ r[x.args[2]] = << >> BY <2>1, <2>2 DEF Applied
  <2>3. CASE r[x.args[1]] # << >> /\ r[x.args[2]] # << >>
    <3>1. PICK m \in Int, n \in Int : r[x.args[1]] = <<m>> /\ r[x.args[2]] = <<n>>
      BY <1>5, <2>1, <2>3
    <3>2. m = 0 \/ n = 0
      <4>1. r[x.args[1]] = <<0>> \/ r[x.args[2]] = <<0>> BY <1>4, <1>8 DEF Vanishes
      <4> QED BY <3>1, <4>1
    <3>3. r[x.id] = <<Computed(x.op, m, n)>> BY <2>1, <3>1 DEF Applied
    <3>4. Computed(x.op, m, n) = 0 BY <1>8, <3>2 DEF Computed, Vanishes
    <3> QED BY <3>3, <3>4
  <2> QED BY <2>2, <2>3
<1> QED BY <1>6, <1>7, <1>8 DEF r

\* Whatever rule applies to a value.
LEMMA FoldKeeps ==
  ASSUME NEW f, WellMade(f), NEW b \in DOMAIN f, NEW v \in DOMAIN f[b]
  PROVE  Keeps(f, Folded(f, b, v))
<1> DEFINE x == f[b][v]
           operand == [o \in DOMAIN x.args |-> ConstOf(f, x.args[o])]
<1>1. x \in ValuesOf(f) /\ x \in ValueType
  <2>1. x \in ValuesOf(f) BY DEF ValuesOf
  <2> QED BY <2>1, OperandsOfRule
<1>2. CASE Evaluates(f, x) /\ Folded(f, b, v) = AsConst(f, b, v, Computed(x.op, operand[1], Last(operand)))
  <2>1. operand = [o \in DOMAIN f[b][v].args |-> ConstOf(f, f[b][v].args[o])]
        /\ Evaluates(f, f[b][v])
    BY <1>2
  <2> HIDE DEF operand
  <2>2. Keeps(f, AsConst(f, b, v, Computed(f[b][v].op, operand[1], Last(operand))))
    BY <2>1, EvaluatesKeeps
  <2> QED BY <1>2, <2>2
<1>3. CASE KeepsLeft(f, x) /\ Folded(f, b, v) = ReplaceUses(f, x.id, x.args[1])
  <2> HIDE DEF x
  <2>1. Len(x.args) >= 2 /\ x.op \in Arithmetic \cup Relations
    BY <1>3 DEF KeepsLeft, Arithmetic
  <2>2. x.op \in Binary BY <1>1, <2>1, OperandsOfRule
  <2>3. 0 \in Int /\ x.id \in Ids BY <1>1 DEF ValueType
  <2>4. x.args[1] \in IdsOf(f) \cap Ids /\ x.args[1] < x.id BY <1>1, <2>2, <2>3, BinaryYields
  <2>5. \A input \in Int : ResultsOf(f, input)[x.id] = ResultsOf(f, input)[x.args[1]]
    BY <1>1, <1>3, IdentityIs
  <2> QED BY <1>3, <2>3, <2>4, <2>5, ReplaceKeeps
<1>4. CASE KeepsRight(f, x) /\ Folded(f, b, v) = ReplaceUses(f, x.id, x.args[2])
  <2> HIDE DEF x
  <2>1. Len(x.args) >= 2 /\ x.op \in Arithmetic \cup Relations
    BY <1>4 DEF KeepsRight, Arithmetic
  <2>2. x.op \in Binary BY <1>1, <2>1, OperandsOfRule
  <2>3. 0 \in Int /\ x.id \in Ids BY <1>1 DEF ValueType
  <2>4. x.args[2] \in IdsOf(f) \cap Ids /\ x.args[2] < x.id BY <1>1, <2>2, <2>3, BinaryYields
  <2>5. \A input \in Int : ResultsOf(f, input)[x.id] = ResultsOf(f, input)[x.args[2]]
    BY <1>1, <1>4, IdentityIs
  <2> QED BY <1>4, <2>3, <2>4, <2>5, ReplaceKeeps
<1>5. CASE Vanishes(f, x) /\ Folded(f, b, v) = AsConst(f, b, v, 0)
  <2>1. \A input \in Int : ResultsOf(f, input)[f[b][v].id] \in {<< >>, <<0>>}
    BY <1>1, <1>5, IdentityIs
  <2>2. f[b][v].op \notin Terminators \cup Effects BY <1>5 DEF Vanishes, Terminators, Effects
  <2>3. 0 \in Int OBVIOUS
  <2> QED BY <1>5, <2>1, <2>2, <2>3, AsConstKeeps
<1>6. CASE Folded(f, b, v) = f BY <1>6, SelfKeeps
<1>7. \/ Evaluates(f, x) /\ Folded(f, b, v) = AsConst(f, b, v, Computed(x.op, operand[1], Last(operand)))
      \/ KeepsLeft(f, x) /\ Folded(f, b, v) = ReplaceUses(f, x.id, x.args[1])
      \/ KeepsRight(f, x) /\ Folded(f, b, v) = ReplaceUses(f, x.id, x.args[2])
      \/ Vanishes(f, x) /\ Folded(f, b, v) = AsConst(f, b, v, 0)
      \/ Folded(f, b, v) = f
  BY DEF Folded
<1> QED BY <1>2, <1>3, <1>4, <1>5, <1>6, <1>7

-----------------------------------------------------------------------------
(* The sweep.                                                              *)

\* Where the value at place w of block c was before value v of block b went.
Before(b, v, c, w) == IF c = b /\ w >= v THEN w + 1 ELSE w

LEMMA WithoutIs ==
  ASSUME NEW f, WellMade(f), NEW b \in DOMAIN f, NEW v \in DOMAIN f[b], NEW g,
         g = Without(f, b, v)
  PROVE  /\ g \in Seq(Seq(ValueType)) /\ DOMAIN g = DOMAIN f /\ Len(g) = Len(f)
         /\ \A c \in DOMAIN f : Len(g[c]) = IF c = b THEN Len(f[c]) - 1 ELSE Len(f[c])
         /\ \A c \in DOMAIN f : \A w \in DOMAIN g[c] :
               /\ Before(b, v, c, w) \in DOMAIN f[c]
               /\ g[c][w] = f[c][Before(b, v, c, w)]
         /\ \A c \in DOMAIN f : \A u \in DOMAIN f[c] :
               \/ c = b /\ u = v
               \/ \E w \in DOMAIN g[c] : Before(b, v, c, w) = u
<1>1. f \in Seq(Seq(ValueType)) BY DEF WellMade
<1>2. f[b] \in Seq(ValueType) /\ v \in Nat /\ DOMAIN f[b] = 1 .. Len(f[b]) /\ Len(f[b]) \in Nat
  BY <1>1, PlacesAre
<1> DEFINE block == RemoveAt(f[b], v)
<1>3. /\ block \in Seq(ValueType) /\ Len(block) = Len(f[b]) - 1
      /\ \A j \in 1 .. Len(f[b]) - 1 : block[j] = IF j < v THEN f[b][j] ELSE f[b][j + 1]
  BY <1>2, RemoveAtOk
<1>4. g = [f EXCEPT ![b] = block] BY DEF Without
<1> HIDE DEF block
<1>5. /\ DOMAIN g = DOMAIN f /\ g[b] = block
      /\ \A c \in DOMAIN f : c # b => g[c] = f[c]
  BY <1>4
<1>6. g \in Seq(Seq(ValueType)) /\ Len(g) = Len(f)
  <2>1. g \in [DOMAIN f -> Seq(ValueType)] BY <1>1, <1>3, <1>4
  <2> QED BY <1>1, <2>1, SameLength
<1>7. DOMAIN block = 1 .. Len(f[b]) - 1 BY <1>2, <1>3
<1>8. \A c \in DOMAIN f : Len(g[c]) = IF c = b THEN Len(f[c]) - 1 ELSE Len(f[c])
  BY <1>3, <1>5
<1>9. ASSUME NEW c \in DOMAIN f, NEW w \in DOMAIN g[c]
      PROVE  Before(b, v, c, w) \in DOMAIN f[c] /\ g[c][w] = f[c][Before(b, v, c, w)]
  <2>1. CASE c = b
    <3>1. w \in 1 .. Len(f[b]) - 1 /\ g[c][w] = block[w] BY <1>5, <1>7, <2>1
    <3>2. w \in Nat /\ w \in 1 .. Len(f[b]) /\ w + 1 \in 1 .. Len(f[b]) BY <1>2, <3>1
    <3>3. CASE w < v
      <4>1. Before(b, v, c, w) = w BY <1>2, <3>2, <3>3 DEF Before
      <4> QED BY <1>2, <1>3, <2>1, <3>1, <3>2, <3>3, <4>1
    <3>4. CASE ~(w < v)
      <4>1. Before(b, v, c, w) = w + 1 BY <1>2, <2>1, <3>2, <3>4 DEF Before
      <4> QED BY <1>2, <1>3, <2>1, <3>1, <3>2, <3>4, <4>1
    <3> QED BY <3>3, <3>4
  <2>2. CASE c # b BY <1>5, <1>9, <2>2 DEF Before
  <2> QED BY <2>1, <2>2
<1>10. ASSUME NEW c \in DOMAIN f, NEW u \in DOMAIN f[c], ~(c = b /\ u = v)
       PROVE  \E w \in DOMAIN g[c] : Before(b, v, c, w) = u
  <2>1. CASE c # b BY <1>5, <2>1 DEF Before
  <2>2. CASE c = b
    <3>1. u \in Nat /\ 1 <= u /\ u <= Len(f[b]) /\ u # v BY <1>2, <1>10, <2>2
    <3>2. DOMAIN g[c] = 1 .. Len(f[b]) - 1 BY <1>5, <1>7, <2>2
    <3>3. v <= Len(f[b]) /\ 1 <= v BY <1>2
    <3>4. CASE u < v
      <4>1. u \in 1 .. Len(f[b]) - 1 BY <1>2, <3>1, <3>3, <3>4
      <4>2. Before(b, v, c, u) = u BY <1>2, <3>1, <3>4 DEF Before
      <4> QED BY <3>2, <4>1, <4>2
    <3>5. CASE u > v
      <4>1. u - 1 \in 1 .. Len(f[b]) - 1 BY <1>2, <3>1, <3>3, <3>5
      <4>2. Before(b, v, c, u - 1) = u BY <1>2, <2>2, <3>1, <3>5 DEF Before
      <4> QED BY <3>2, <4>1, <4>2
    <3> QED BY <1>2, <3>1, <3>4, <3>5
  <2> QED BY <2>1, <2>2
<1> QED BY <1>5, <1>6, <1>8, <1>9, <1>10

\* What is used stays defined, and what is seen stays.
LEMMA SweepKeeps ==
  ASSUME Plain, NEW f, WellMade(f), NEW b \in DOMAIN f, NEW v \in DOMAIN f[b],
         IsDead(f, f[b][v]), NEW g, g = Without(f, b, v)
  PROVE  /\ WellMade(g) /\ DOMAIN g = DOMAIN f /\ Len(g) = Len(f)
         /\ \A r : Carries(f, g, r)
         /\ \A c \in DOMAIN f : Sealed(f[c]) => Sealed(g[c])
         /\ Valid(f) => Valid(g)
<1>1. f \in Seq(Seq(ValueType)) /\ InLine(f) BY DEF WellMade
<1>2. /\ g \in Seq(Seq(ValueType)) /\ DOMAIN g = DOMAIN f /\ Len(g) = Len(f)
      /\ \A c \in DOMAIN f : Len(g[c]) = IF c = b THEN Len(f[c]) - 1 ELSE Len(f[c])
  BY WithoutIs
<1>3. \A c \in DOMAIN f : \A w \in DOMAIN g[c] :
         /\ Before(b, v, c, w) \in DOMAIN f[c]
         /\ g[c][w] = f[c][Before(b, v, c, w)]
  BY WithoutIs
<1>4. \A c \in DOMAIN f : \A u \in DOMAIN f[c] :
         \/ c = b /\ u = v
         \/ \E w \in DOMAIN g[c] : Before(b, v, c, w) = u
  BY WithoutIs
<1>5. \A c \in DOMAIN f : \A w \in DOMAIN g[c] : w \in Nat BY <1>2, PlacesAre
<1>6. v \in Nat BY <1>1, PlacesAre
<1>7. InLine(g)
  <2>1. ASSUME NEW c \in DOMAIN g, NEW d \in DOMAIN g, NEW u \in DOMAIN g[c],
               NEW w \in DOMAIN g[d], c < d \/ (c = d /\ u < w)
        PROVE  g[c][u].id < g[d][w].id
    <3>1. c \in DOMAIN f /\ d \in DOMAIN f BY <1>2
    <3>2. u \in Nat /\ w \in Nat BY <1>5, <3>1
    <3>3. c = d /\ u < w => Before(b, v, c, u) < Before(b, v, d, w)
      BY <1>6, <3>2 DEF Before
    <3>4. c < d \/ (c = d /\ Before(b, v, c, u) < Before(b, v, d, w)) BY <2>1, <3>3
    <3>5. f[c][Before(b, v, c, u)].id < f[d][Before(b, v, d, w)].id
      BY <1>1, <1>3, <3>1, <3>4 DEF InLine
    <3> QED BY <1>3, <3>1, <3>5
  <2> QED BY <2>1 DEF InLine
<1>8. ValuesOf(g) \subseteq ValuesOf(f)
  <2> SUFFICES ASSUME NEW y \in ValuesOf(g) PROVE y \in ValuesOf(f)
    OBVIOUS
  <2>1. PICK c \in DOMAIN g : \E w \in DOMAIN g[c] : y = g[c][w] BY PlaceOf
  <2>2. PICK w \in DOMAIN g[c] : y = g[c][w] BY <2>1
  <2>3. c \in DOMAIN f BY <1>2
  <2>4. Before(b, v, c, w) \in DOMAIN f[c] /\ y = f[c][Before(b, v, c, w)] BY <1>3, <2>2, <2>3
  <2> QED BY <1>1, <2>3, <2>4, PlacesAre
<1>9. ASSUME NEW i \in IdsOf(f), i # f[b][v].id PROVE i \in IdsOf(g)
  <2>1. PICK x \in ValuesOf(f) : i = x.id BY DEF IdsOf
  <2>2. PICK c \in DOMAIN f : \E u \in DOMAIN f[c] : x = f[c][u] BY PlaceOf
  <2>3. PICK u \in DOMAIN f[c] : x = f[c][u] BY <2>2
  <2>4. PICK w \in DOMAIN g[c] : Before(b, v, c, w) = u BY <1>4, <1>9, <2>1, <2>3
  <2>5. g[c][w] = x BY <1>3, <2>3, <2>4
  <2>6. x \in ValuesOf(g) BY <1>2, <2>5, PlacesAre
  <2> QED BY <2>1, <2>6 DEF IdsOf
<1>10. ASSUME NEW y \in ValuesOf(g) PROVE ValueOk(y, IdsOf(g))
  <2>1. y \in ValuesOf(f) /\ ValueOk(y, IdsOf(f)) BY <1>8 DEF WellMade
  <2>2. \A o \in DOMAIN y.args : y.args[o] # f[b][v].id BY <2>1 DEF IsDead, IsUsed
  <2>3. \A o \in DOMAIN y.args : y.args[o] \in IdsOf(g) BY <1>9, <2>1, <2>2 DEF ValueOk
  <2> QED BY <2>1, <2>3 DEF ValueOk
<1>11. WellMade(g) BY <1>2, <1>7, <1>10 DEF WellMade
<1>12. f[b][v].op \notin Terminators \cup Effects BY DEF IsDead
<1>13. ASSUME NEW c \in DOMAIN f PROVE Seen(g[c]) = Seen(f[c])
  <2>1. ASSUME NEW y \in Seen(g[c]) PROVE y \in Seen(f[c])
    <3>1. PICK w \in DOMAIN g[c] : y = g[c][w] /\ y.op \in Terminators \cup Effects BY DEF Seen
    <3>2. Before(b, v, c, w) \in DOMAIN f[c] /\ y = f[c][Before(b, v, c, w)] BY <1>3, <3>1
    <3> QED BY <3>1, <3>2 DEF Seen
  <2>2. ASSUME NEW x \in Seen(f[c]) PROVE x \in Seen(g[c])
    <3>1. PICK u \in DOMAIN f[c] : x = f[c][u] /\ x.op \in Terminators \cup Effects BY DEF Seen
    <3>2. PICK w \in DOMAIN g[c] : Before(b, v, c, w) = u BY <1>4, <1>12, <3>1
    <3>3. x = g[c][w] BY <1>3, <3>1, <3>2
    <3> QED BY <3>1, <3>3 DEF Seen
  <2> QED BY <2>1, <2>2
<1>14. \A r : Carries(f, g, r)
  <2> TAKE r
  <2>1. \A x : ComesFrom(x, x, r) /\ Follows(x, x, r) BY DEF ComesFrom, Follows
  <2> QED BY <1>2, <1>8, <1>13, <2>1 DEF Carries
<1>15. ASSUME NEW c \in DOMAIN f, Sealed(f[c]) PROVE Sealed(g[c])
  <2>1. PICK u \in DOMAIN f[c] : f[c][u].op \in Terminators BY <1>15 DEF Sealed
  <2>2. PICK w \in DOMAIN g[c] : Before(b, v, c, w) = u BY <1>4, <1>12, <2>1
  <2> QED BY <1>3, <2>1, <2>2 DEF Sealed
<1>16. ASSUME Valid(f) PROVE Valid(g)
  <2>1. g # << >>
    <3>1. Len(f) # 0 BY <1>1, <1>16 DEF Valid
    <3> QED BY <1>2, <3>1
  <2>2. ASSUME NEW c \in DOMAIN g
        PROVE  \E last \in DOMAIN g[c] :
                  /\ last = Len(g[c])
                  /\ \A w \in DOMAIN g[c] : g[c][w].op \in Terminators <=> w = last
    <3>1. c \in DOMAIN f BY <1>2
    <3>2. PICK end \in DOMAIN f[c] :
             /\ end = Len(f[c])
             /\ \A u \in DOMAIN f[c] : f[c][u].op \in Terminators <=> u = end
      BY <1>16, <3>1 DEF Valid
    <3>3. ~(c = b /\ end = v) BY <1>12, <3>2
    <3>4. PICK last \in DOMAIN g[c] : Before(b, v, c, last) = end BY <1>4, <3>1, <3>3
    <3>5. /\ g[c] \in Seq(ValueType) /\ DOMAIN g[c] = 1 .. Len(g[c]) /\ last \in Nat
          /\ Len(f[c]) \in Nat
      BY <1>1, <1>2, <3>1, PlacesAre
    <3>6. Len(g[c]) = IF c = b THEN Len(f[c]) - 1 ELSE Len(f[c]) BY <1>2, <3>1
    <3>7. last = Len(g[c])
      <4>1. v \in 1 .. Len(f[b]) BY <1>1, PlacesAre
      <4>2. last <= Len(g[c]) BY <3>5
      <4> QED BY <1>6, <3>2, <3>3, <3>4, <3>5, <3>6, <4>1, <4>2 DEF Before
    <3>8. ASSUME NEW w \in DOMAIN g[c] PROVE g[c][w].op \in Terminators <=> w = last
      <4>1. /\ Before(b, v, c, w) \in DOMAIN f[c]
            /\ g[c][w] = f[c][Before(b, v, c, w)]
        BY <1>3, <3>1
      <4>2. g[c][w].op \in Terminators <=> Before(b, v, c, w) = end BY <3>2, <4>1
      <4>3. w \in Nat BY <1>5, <3>1
      <4>4. Before(b, v, c, w) = Before(b, v, c, last) <=> w = last
        BY <1>6, <3>5, <4>3 DEF Before
      <4> QED BY <3>4, <4>2, <4>4
    <3> QED BY <3>7, <3>8
  <2>3. \A y \in ValuesOf(g) : y.op # "BRANCH" BY <1>2, NoBranches
  <2> QED BY <1>2, <1>8, <1>16, <2>1, <2>2, <2>3 DEF Valid
<1> QED BY <1>2, <1>11, <1>14, <1>15, <1>16

-----------------------------------------------------------------------------
(* Building.                                                               *)

\* The IDs follow from the places; only the last block is unfinished.
Building(f) ==
    /\ Len(f) <= BlockMax
    /\ \A b \in DOMAIN f :
          /\ Len(f[b]) <= ValueMax
          /\ \A v \in DOMAIN f[b] : f[b][v].id = (b - 1) * ValueMax + v - 1
          /\ b < Len(f) => Sealed(f[b])

LEMMA TimesUp ==
  ASSUME NEW a \in Nat, NEW b \in Nat, a <= b, NEW m \in Nat
  PROVE  a * m <= b * m /\ a * m \in Nat
<1>1. b - a \in Nat OBVIOUS
<1>2. (b - a) * m \in Nat /\ a * m \in Nat /\ b * m \in Nat BY <1>1
<1>3. (b - a) * m = b * m - a * m OBVIOUS
<1> QED BY <1>2, <1>3

\* A new value has an ID above all others.
LEMMA NewIdIs ==
  ASSUME NEW f, WellMade(f), Building(f), f # << >>, Len(f[Len(f)]) < ValueMax,
         NEW id, id = (Len(f) - 1) * ValueMax + Len(f[Len(f)])
  PROVE  /\ id \in Ids /\ id \in Nat
         /\ \A x \in ValuesOf(f) : x.id < id /\ x.id \in Int
<1>1. f \in Seq(Seq(ValueType)) BY DEF WellMade
<1>2. BlockMax \in Nat /\ ValueMax \in Nat BY FirAssumption
<1> DEFINE l == Len(f)
           k == Len(f[l])
<1>3. l \in Nat \ {0} /\ l \in DOMAIN f /\ l <= BlockMax BY <1>1 DEF Building
<1>4. k \in Nat /\ k < ValueMax BY <1>1, <1>3, PlacesAre
<1> HIDE DEF l, k
<1>5. id = (l - 1) * ValueMax + k BY DEF l, k
<1>6. l - 1 \in Nat /\ l - 1 <= BlockMax - 1 /\ BlockMax - 1 \in Nat BY <1>2, <1>3
<1>7. (l - 1) * ValueMax \in Nat /\ (l - 1) * ValueMax <= (BlockMax - 1) * ValueMax
  BY <1>2, <1>6, TimesUp
<1>8. (BlockMax - 1) * ValueMax = BlockMax * ValueMax - ValueMax /\ BlockMax * ValueMax \in Nat
  BY <1>2
<1>9. id \in Nat /\ id <= BlockMax * ValueMax - 1
  <2>1. PICK p \in Nat : p = (l - 1) * ValueMax BY <1>7
  <2>2. PICK q \in Nat : q = BlockMax * ValueMax BY <1>8
  <2>3. p <= q - ValueMax BY <1>7, <1>8, <2>1, <2>2
  <2>4. p + k \in Nat /\ p + k <= q - 1 BY <1>2, <1>4, <2>3
  <2> QED BY <1>5, <2>1, <2>2, <2>4
<1>10. id \in Ids BY <1>8, <1>9 DEF Ids
<1>11. ASSUME NEW x \in ValuesOf(f) PROVE x.id < id /\ x.id \in Int
  <2>1. PICK c \in DOMAIN f : \E u \in DOMAIN f[c] : x = f[c][u] BY PlaceOf
  <2>2. PICK u \in DOMAIN f[c] : x = f[c][u] BY <2>1
  <2>3. x.id = (c - 1) * ValueMax + u - 1 BY <2>2 DEF Building
  <2>4. /\ c \in Nat /\ 1 <= c /\ c <= l
        /\ u \in Nat /\ u <= Len(f[c]) /\ Len(f[c]) \in Nat
    <3>1. c \in 1 .. Len(f) /\ Len(f) \in Nat BY <1>1
    <3>2. u \in 1 .. Len(f[c]) /\ Len(f[c]) \in Nat BY <1>1, PlacesAre
    <3> QED BY <3>1, <3>2 DEF l
  <2>5. Len(f[c]) <= ValueMax BY DEF Building
  <2>6. CASE c = l
    <3>1. PICK p \in Nat : p = (l - 1) * ValueMax BY <1>7
    <3>2. x.id = p + u - 1 /\ id = p + k BY <1>5, <2>3, <2>6, <3>1
    <3>3. u <= k
      <4>1. k = Len(f[c]) BY <2>6 DEF k, l
      <4> QED BY <2>4, <4>1
    <3> QED BY <1>4, <2>4, <3>1, <3>2, <3>3
  <2>7. CASE c # l
    <3>1. c \in Nat /\ c <= l - 1 BY <1>3, <2>4, <2>7
    <3>2. c * ValueMax <= (l - 1) * ValueMax /\ c * ValueMax \in Nat BY <1>2, <1>6, <3>1, TimesUp
    <3>3. (c - 1) * ValueMax = c * ValueMax - ValueMax BY <1>2, <3>1
    <3>4. PICK p \in Nat : p = (l - 1) * ValueMax BY <1>7
    <3>5. PICK q \in Nat : q = c * ValueMax BY <3>2
    <3>6. x.id = q - ValueMax + u - 1 /\ id = p + k /\ q <= p
      BY <1>5, <2>3, <3>2, <3>3, <3>4, <3>5
    <3>7. u <= ValueMax BY <1>2, <2>4, <2>5
    <3>8. q - ValueMax + u - 1 < p + k /\ q - ValueMax + u - 1 \in Int
      BY <1>2, <1>4, <2>4, <3>6, <3>7
    <3> QED BY <3>6, <3>8
  <2> QED BY <2>6, <2>7
<1> QED BY <1>9, <1>10, <1>11

\* The front end gives an operation the operands it takes.
LEMMA OperandsAre ==
  ASSUME Plain, NEW f, WellMade(f), NEW op \in Ops, NEW args \in OperandsOf(f, op)
  PROVE  /\ args \in Seq(Ids) /\ \A o \in DOMAIN args : args[o] \in IdsOf(f)
         /\ op \in Binary => Len(args) = 2
         /\ op \in Unary => Len(args) = 1
<1>1. IdsOf(f) \subseteq Ids
  <2>1. ValuesOf(f) \subseteq ValueType BY WellMadeValues DEF ValuesOk
  <2> QED BY <2>1 DEF IdsOf, ValueType
<1> DEFINE ids == IdsOf(f)
<1>2. op # "BRANCH" BY DEF Plain
<1> HIDE DEF ids
<1>3. CASE op \in Binary
  <2>1. args \in {<<i, j>> : i, j \in ids}
    BY <1>3 DEF OperandsOf, Binary, Unary, Arithmetic, Relations, Effects, ids
  <2>2. PICK i \in ids, j \in ids : args = <<i, j>> BY <2>1
  <2>3. op \notin Unary BY <1>3 DEF Binary, Unary, Arithmetic, Relations
  <2> QED BY <1>1, <2>2, <2>3 DEF ids
<1>4. CASE op \in {"NEG", "ABS", "RETURN"} \cup Effects
  <2>1. args \in {<<i>> : i \in ids}
    BY <1>4 DEF OperandsOf, Arithmetic, Relations, Effects, ids
  <2>2. PICK i \in ids : args = <<i>> BY <2>1
  <2>3. op \notin Binary BY <1>4 DEF Binary, Unary, Arithmetic, Relations, Effects
  <2> QED BY <1>1, <2>2, <2>3 DEF ids
<1>5. CASE op \notin Binary /\ op \notin {"NEG", "ABS", "RETURN"} \cup Effects
  <2>1. op \notin Unary BY <1>5 DEF Unary
  <2>2. args = << >> BY <1>2, <1>5 DEF OperandsOf, Binary, Unary
  <2> QED BY <1>5, <2>1, <2>2
<1> QED BY <1>3, <1>4, <1>5

LEMMA BlockMade ==
  ASSUME NEW f, WellMade(f), Building(f), Len(f) < BlockMax,
         f # << >> => Sealed(Last(f)), NEW g, g = Append(f, << >>)
  PROVE  WellMade(g) /\ Building(g)
<1>1. f \in Seq(Seq(ValueType)) BY DEF WellMade
<1>2. /\ g \in Seq(Seq(ValueType)) /\ Len(g) = Len(f) + 1 /\ Len(f) \in Nat
      /\ DOMAIN f = 1 .. Len(f) /\ DOMAIN g = 1 .. Len(f) + 1
      /\ g[Len(f) + 1] = << >> /\ \A b \in DOMAIN f : g[b] = f[b]
  BY <1>1
<1>3. \A b \in DOMAIN g : b \in DOMAIN f \/ g[b] = << >>
  <2>1. \A b \in DOMAIN g : b \in DOMAIN f \/ b = Len(f) + 1 BY <1>2
  <2> QED BY <1>2, <2>1
<1>4. ASSUME NEW b \in DOMAIN g, NEW v \in DOMAIN g[b]
      PROVE  b \in DOMAIN f /\ v \in DOMAIN f[b] /\ g[b] = f[b]
  BY <1>2, <1>3
<1>5. ValuesOf(g) = ValuesOf(f)
  <2>1. ASSUME NEW x \in ValuesOf(g) PROVE x \in ValuesOf(f)
    <3>1. PICK b \in DOMAIN g : \E v \in DOMAIN g[b] : x = g[b][v] BY PlaceOf
    <3>2. PICK v \in DOMAIN g[b] : x = g[b][v] BY <3>1
    <3>3. b \in DOMAIN f /\ v \in DOMAIN f[b] /\ x = f[b][v] BY <1>4, <3>2
    <3> QED BY <1>1, <3>3, PlacesAre
  <2>2. ASSUME NEW x \in ValuesOf(f) PROVE x \in ValuesOf(g)
    <3>1. PICK b \in DOMAIN f : \E v \in DOMAIN f[b] : x = f[b][v] BY PlaceOf
    <3>2. PICK v \in DOMAIN f[b] : x = f[b][v] BY <3>1
    <3>3. b \in DOMAIN g BY <1>2
    <3>4. v \in DOMAIN g[b] /\ x = g[b][v] BY <1>2, <3>2
    <3> QED BY <1>2, <3>3, <3>4, PlacesAre
  <2> QED BY <2>1, <2>2
<1>6. InLine(g) BY <1>4 DEF WellMade, InLine
<1>7. WellMade(g) BY <1>2, <1>5, <1>6 DEF WellMade, IdsOf
<1>8. ASSUME NEW b \in DOMAIN g
      PROVE  /\ Len(g[b]) <= ValueMax
             /\ \A v \in DOMAIN g[b] : g[b][v].id = (b - 1) * ValueMax + v - 1
             /\ b < Len(g) => Sealed(g[b])
  <2>1. Len(g[b]) <= ValueMax
    <3>1. CASE b \in DOMAIN f BY <1>2, <3>1 DEF Building
    <3>2. CASE g[b] = << >> BY <3>2, FirAssumption
    <3> QED BY <1>3, <3>1, <3>2
  <2>2. \A v \in DOMAIN g[b] : g[b][v].id = (b - 1) * ValueMax + v - 1
    BY <1>4 DEF Building
  <2>3. ASSUME b < Len(g) PROVE Sealed(g[b])
    <3>1. b \in DOMAIN f /\ b \in Nat /\ b <= Len(f) BY <1>2, <2>3
    <3>2. CASE b < Len(f) BY <1>2, <3>1, <3>2 DEF Building
    <3>3. CASE b = Len(f)
      <4>1. f # << >> BY <3>1
      <4>2. Last(f) = f[b] BY <3>3 DEF Last
      <4> QED BY <1>2, <3>1, <4>1, <4>2
    <3> QED BY <1>2, <3>1, <3>2, <3>3
  <2> QED BY <2>1, <2>2, <2>3
<1>9. Building(g) BY <1>2, <1>8, FirAssumption DEF Building
<1> QED BY <1>7, <1>9

Grown(f, b, x) == [f EXCEPT ![b] = Append(@, x)]

LEMMA ValueMade ==
  ASSUME Plain, NEW f, WellMade(f), Building(f), f # << >>, ~Sealed(Last(f)),
         Len(f[Len(f)]) < ValueMax, NEW op \in Ops, NEW num \in Numbers,
         NEW args \in OperandsOf(f, op), NEW b, b = Len(f), NEW x,
         x = [id |-> (b - 1) * ValueMax + Len(f[b]), op |-> op, num |-> num, args |-> args],
         NEW g, g = Grown(f, b, x)
  PROVE  WellMade(g) /\ Building(g)
<1>1. f \in Seq(Seq(ValueType)) /\ InLine(f) BY DEF WellMade
<1>2. x.id \in Ids /\ x.id \in Nat /\ \A y \in ValuesOf(f) : y.id < x.id /\ y.id \in Int
  <2>1. x.id = (Len(f) - 1) * ValueMax + Len(f[Len(f)]) OBVIOUS
  <2> QED BY <2>1, NewIdIs
<1>3. x.op = op /\ x.num = num /\ x.args = args OBVIOUS
<1>4. /\ args \in Seq(Ids) /\ \A o \in DOMAIN args : args[o] \in IdsOf(f)
      /\ op \in Binary => Len(args) = 2
      /\ op \in Unary => Len(args) = 1
  BY OperandsAre
<1>5. x \in ValueType
  <2>1. num \in Int BY FirAssumption
  <2>2. (b - 1) * ValueMax + Len(f[b]) \in Ids BY <1>2
  <2> QED BY <1>4, <2>1, <2>2 DEF ValueType
<1>6. b \in Nat \ {0} /\ b \in DOMAIN f /\ f[b] \in Seq(ValueType) /\ Len(f[b]) \in Nat
      /\ DOMAIN f[b] = 1 .. Len(f[b])
  <2>1. b \in Nat \ {0} /\ b \in DOMAIN f BY <1>1
  <2> QED BY <1>1, <2>1, PlacesAre
<1>7. x.id = (b - 1) * ValueMax + Len(f[b]) OBVIOUS
<1> DEFINE k == Len(f[b])
           block == Append(f[b], x)
<1>8. /\ block \in Seq(ValueType) /\ DOMAIN block = 1 .. k + 1 /\ Len(block) = k + 1
      /\ block[k + 1] = x /\ \A v \in DOMAIN f[b] : block[v] = f[b][v]
  BY <1>5, <1>6
<1>9. g = [f EXCEPT ![b] = block] BY DEF Grown
<1> HIDE DEF block, k
<1>10. DOMAIN g = DOMAIN f /\ g[b] = block /\ \A c \in DOMAIN f : c # b => g[c] = f[c]
  BY <1>6, <1>9
<1>11. g \in Seq(Seq(ValueType)) /\ Len(g) = Len(f)
  <2>1. g \in [DOMAIN f -> Seq(ValueType)] BY <1>1, <1>8, <1>9
  <2>2. \A h \in [DOMAIN f -> Seq(ValueType)] : h \in Seq(Seq(ValueType)) /\ Len(h) = Len(f)
    BY <1>1, SameLength
  <2> QED BY <2>1, <2>2
<1>12. k \in Nat /\ DOMAIN f[b] = 1 .. k BY <1>6 DEF k
\* A value of g is one of f or the new one.
<1>13. ASSUME NEW c \in DOMAIN g, NEW v \in DOMAIN g[c]
       PROVE  /\ c \in DOMAIN f
              /\ \/ v \in DOMAIN f[c] /\ g[c][v] = f[c][v]
                 \/ c = b /\ v = k + 1 /\ g[c][v] = x
  <2>1. CASE c # b BY <1>10, <2>1
  <2>2. CASE c = b
    <3>1. v \in 1 .. k + 1 BY <1>8, <1>10, <2>2
    <3>2. v \in 1 .. k \/ v = k + 1 BY <1>12, <3>1
    <3> QED BY <1>8, <1>10, <1>12, <2>2, <3>2
  <2> QED BY <2>1, <2>2
<1>14. ASSUME NEW c \in DOMAIN f, NEW v \in DOMAIN f[c]
       PROVE  v \in DOMAIN g[c] /\ g[c][v] = f[c][v]
  <2>1. CASE c # b BY <1>10, <2>1
  <2>2. CASE c = b
    <3>1. v \in 1 .. k + 1 BY <1>12, <2>2
    <3> QED BY <1>8, <1>10, <2>2, <3>1
  <2> QED BY <2>1, <2>2
<1>15. \A c \in DOMAIN f : c \in Nat /\ c <= b
  BY <1>1
<1>16. InLine(g)
  <2>1. ASSUME NEW c \in DOMAIN g, NEW d \in DOMAIN g, NEW u \in DOMAIN g[c],
               NEW w \in DOMAIN g[d], c < d \/ (c = d /\ u < w)
        PROVE  g[c][u].id < g[d][w].id
    <3>1. c \in DOMAIN f /\ d \in DOMAIN f BY <1>13
    <3>2. CASE w \in DOMAIN f[d] /\ g[d][w] = f[d][w]
      <4>1. u \in DOMAIN f[c] /\ g[c][u] = f[c][u]
        <5>1. CASE u \in DOMAIN f[c] /\ g[c][u] = f[c][u] BY <5>1
        <5>2. CASE c = b /\ u = k + 1
          <6>1. d = b BY <1>6, <1>15, <2>1, <3>1, <5>2
          <6>2. w <= k BY <1>12, <3>2, <6>1
          <6>3. u < w BY <1>6, <2>1, <5>2, <6>1
          <6>4. w \in Nat BY <1>12, <3>2, <6>1
          <6> QED BY <1>12, <5>2, <6>2, <6>3, <6>4
        <5> QED BY <1>13, <5>1, <5>2
      <4> QED BY <1>1, <2>1, <3>1, <3>2, <4>1 DEF InLine
    <3>3. CASE d = b /\ w = k + 1 /\ g[d][w] = x
      <4>1. u \in DOMAIN f[c] /\ g[c][u] = f[c][u]
        <5>1. ~(c = b /\ u = k + 1) BY <1>6, <1>12, <2>1, <3>3
        <5> QED BY <1>13, <5>1
      <4>2. f[c][u] \in ValuesOf(f) BY <1>1, <3>1, <4>1, PlacesAre
      <4> QED BY <1>2, <3>3, <4>1, <4>2
    <3> QED BY <1>13, <3>2, <3>3
  <2> QED BY <2>1 DEF InLine
<1>17. IdsOf(f) \subseteq IdsOf(g)
  <2> SUFFICES ASSUME NEW y \in ValuesOf(f) PROVE y \in ValuesOf(g)
    BY DEF IdsOf
  <2>1. PICK c \in DOMAIN f : \E v \in DOMAIN f[c] : y = f[c][v] BY PlaceOf
  <2>2. PICK v \in DOMAIN f[c] : y = f[c][v] BY <2>1
  <2>3. c \in DOMAIN g /\ v \in DOMAIN g[c] /\ y = g[c][v] BY <1>10, <1>14, <2>2
  <2> QED BY <1>11, <2>3, PlacesAre
<1>18. ValueOk(x, IdsOf(f))
  <2>1. \A i \in IdsOf(f) : i < x.id BY <1>2 DEF IdsOf
  <2> QED BY <1>3, <1>4, <2>1 DEF ValueOk
<1>19. ASSUME NEW y \in ValuesOf(g) PROVE ValueOk(y, IdsOf(g))
  <2>1. PICK c \in DOMAIN g : \E v \in DOMAIN g[c] : y = g[c][v] BY PlaceOf
  <2>2. PICK v \in DOMAIN g[c] : y = g[c][v] BY <2>1
  <2>3. ValueOk(y, IdsOf(f))
    <3>1. CASE c \in DOMAIN f /\ v \in DOMAIN f[c] /\ y = f[c][v]
      <4>1. y \in ValuesOf(f) BY <1>1, <3>1, PlacesAre
      <4> QED BY <4>1 DEF WellMade
    <3> QED BY <1>13, <1>18, <2>2, <3>1
  <2> QED BY <1>17, <2>3 DEF ValueOk
<1>20. WellMade(g) BY <1>11, <1>16, <1>19 DEF WellMade
<1>21. ASSUME NEW c \in DOMAIN g
       PROVE  /\ Len(g[c]) <= ValueMax
              /\ \A v \in DOMAIN g[c] : g[c][v].id = (c - 1) * ValueMax + v - 1
              /\ c < Len(g) => Sealed(g[c])
  <2>1. c \in DOMAIN f BY <1>10
  <2>2. Len(g[c]) <= ValueMax
    <3>1. CASE c = b
      <4>1. Len(g[c]) = k + 1 /\ k < ValueMax BY <1>8, <1>10, <3>1 DEF k
      <4> QED BY <1>12, <4>1, FirAssumption
    <3>2. CASE c # b BY <1>10, <2>1, <3>2 DEF Building
    <3> QED BY <3>1, <3>2
  <2>3. ASSUME NEW v \in DOMAIN g[c]
        PROVE  g[c][v].id = (c - 1) * ValueMax + v - 1
    <3>1. CASE v \in DOMAIN f[c] /\ g[c][v] = f[c][v] BY <2>1, <3>1 DEF Building
    <3>2. CASE c = b /\ v = k + 1 /\ g[c][v] = x
      <4>1. x.id = (b - 1) * ValueMax + k BY <1>7 DEF k
      <4>2. (b - 1) * ValueMax \in Int BY <1>6, FirAssumption
      <4>3. PICK p \in Int : p = (b - 1) * ValueMax BY <4>2
      <4>4. p + k = p + v - 1 BY <1>12, <3>2, <4>3
      <4> QED BY <3>2, <4>1, <4>3, <4>4
    <3> QED BY <1>13, <3>1, <3>2
  <2>4. ASSUME c < Len(g) PROVE Sealed(g[c])
    <3>1. c # b BY <1>6, <1>11, <2>4
    <3> QED BY <1>10, <1>11, <2>1, <2>4, <3>1 DEF Building
  <2> QED BY <2>2, <2>3, <2>4
<1>22. Building(g) BY <1>11, <1>21 DEF Building
<1> QED BY <1>20, <1>22

-----------------------------------------------------------------------------
(* The invariant.                                                          *)

\* g is what the rounds so far have made of f.
Reached(f, g) ==
    /\ WellMade(f) /\ DOMAIN g = DOMAIN f
    /\ \A input \in Inputs : SeesTheSame(f, g, input)
    /\ \A b \in DOMAIN g : Sealed(g[b])
    /\ Valid(f) => Valid(g)

\* The value a loop visits is there.
IsPlace(f, place) ==
    place \in (Nat \ {0}) \X Nat
    /\ (place[1] <= Len(f) => place[1] \in DOMAIN f /\ place[2] \in DOMAIN f[place[1]])

FirInv ==
    /\ phase \in {"build", "fold", "sweep", "done"} /\ WellMade(func)
    /\ phase = "build" => Building(func) /\ at = FirstPlace
    /\ phase # "build" => Reached(source, func)
    /\ phase \in {"fold", "sweep"} => IsPlace(func, at)

LEMMA ReachedOn ==
  ASSUME NEW f, NEW g, NEW h, Reached(f, g), WellMade(g), WellMade(h), DOMAIN h = DOMAIN g,
         \A input \in Int : Carries(g, h, ResultsOf(g, input)),
         \A b \in DOMAIN g : Sealed(g[b]) => Sealed(h[b]),
         Valid(g) => Valid(h)
  PROVE  Reached(f, h)
<1>1. ValuesOk(ValuesOf(g)) /\ ValuesOk(ValuesOf(h)) BY WellMadeValues
<1>2. ASSUME NEW input \in Inputs PROVE SeesTheSame(f, h, input)
  <2>1. input \in Int BY FirAssumption
  <2>2. SeesTheSame(g, h, input) BY <1>1, <2>1, Carried
  <2>3. SeesTheSame(f, g, input) /\ DOMAIN f = DOMAIN g BY DEF Reached
  <2> QED BY <2>2, <2>3, SeesTheSameOn
<1> QED BY <1>2 DEF Reached

\* A finished block has a first and a last value.
LEMMA EndsArePlaces ==
  ASSUME NEW f, WellMade(f), \A b \in DOMAIN f : Sealed(f[b])
  PROVE  /\ \A b \in Nat \ {0} : IsPlace(f, <<b, 1>>) /\ IsPlace(f, <<b, LastOf(f, b)>>)
         /\ Len(f) \in Nat /\ DOMAIN f = 1 .. Len(f)
<1>1. f \in Seq(Seq(ValueType)) BY DEF WellMade
<1>2. Len(f) \in Nat /\ DOMAIN f = 1 .. Len(f) BY <1>1
<1>3. ASSUME NEW b \in Nat \ {0}
      PROVE  IsPlace(f, <<b, 1>>) /\ IsPlace(f, <<b, LastOf(f, b)>>)
  <2>1. CASE b \in DOMAIN f
    <3>1. PICK v \in DOMAIN f[b] : f[b][v].op \in Terminators BY <2>1 DEF Sealed
    <3>2. DOMAIN f[b] = 1 .. Len(f[b]) /\ Len(f[b]) \in Nat BY <1>1, <2>1, PlacesAre
    <3>3. 1 \in DOMAIN f[b] /\ Len(f[b]) \in DOMAIN f[b] BY <3>1, <3>2
    <3>4. LastOf(f, b) = Len(f[b]) BY <2>1 DEF LastOf
    <3> QED BY <2>1, <3>2, <3>3, <3>4 DEF IsPlace
  <2>2. CASE b \notin DOMAIN f
    <3>1. ~(b <= Len(f)) BY <1>2, <2>2
    <3>2. LastOf(f, b) = 0 BY <2>2 DEF LastOf
    <3> QED BY <3>1, <3>2 DEF IsPlace
  <2> QED BY <2>1, <2>2
<1> QED BY <1>2, <1>3

LEMMA FirInvInit == FirInit => FirInv
<1> SUFFICES ASSUME FirInit PROVE FirInv
  OBVIOUS
<1>1. func = << >> /\ phase = "build" /\ at = <<1, 1>> BY DEF FirInit
<1>2. func \in Seq(Seq(ValueType)) /\ DOMAIN func = {} BY <1>1
<1>3. ValuesOf(func) = {} BY <1>2 DEF ValuesOf
<1>4. WellMade(func) BY <1>2, <1>3 DEF WellMade, InLine
<1>5. Building(func) BY <1>1, <1>2, FirAssumption DEF Building
<1> QED BY <1>1, <1>4, <1>5 DEF FirInv, FirstPlace

\* A value is built, or a block, or the call begins.
LEMMA BuildSteps ==
  ASSUME Plain, FirInv,
         \/ CreateBlock
         \/ \E op \in Ops, num \in Numbers : CreateValue(op, num)
         \/ \E level \in Levels : Optimize(level)
  PROVE  FirInv'
<1>1. phase = "build" /\ WellMade(func) /\ Building(func) /\ at = FirstPlace
  BY DEF CreateBlock, CreateValue, Optimize, FirInv
<1>2. CASE CreateBlock
  <2>1. /\ Len(func) < BlockMax /\ (func # << >> => Sealed(Last(func)))
        /\ func' = Append(func, << >>) /\ UNCHANGED <<phase, at>>
    BY <1>2 DEF CreateBlock
  <2>2. WellMade(func') /\ Building(func') BY <1>1, <2>1, BlockMade
  <2> QED BY <1>1, <2>1, <2>2 DEF FirInv, FirstPlace
<1>3. ASSUME NEW op \in Ops, NEW num \in Numbers, CreateValue(op, num) PROVE FirInv'
  <2>1. PICK args \in OperandsOf(func, op) :
           func' = [func EXCEPT ![Len(func)] = Append(@,
               [id |-> (Len(func) - 1) * ValueMax + Len(@), op |-> op,
                num |-> num, args |-> args])]
    BY <1>3 DEF CreateValue
  <2>2. /\ func # << >> /\ ~Sealed(Last(func)) /\ Len(func[Len(func)]) < ValueMax
        /\ UNCHANGED <<phase, at>>
    BY <1>3 DEF CreateValue
  <2>3. PICK x : x = [id |-> (Len(func) - 1) * ValueMax + Len(func[Len(func)]),
                      op |-> op, num |-> num, args |-> args]
    OBVIOUS
  <2>4. func' = Grown(func, Len(func), x) BY <2>1, <2>3 DEF Grown
  <2>5. WellMade(func') /\ Building(func') BY <1>1, <2>2, <2>3, <2>4, ValueMade
  <2> QED BY <1>1, <2>2, <2>5 DEF FirInv, FirstPlace
<1>4. ASSUME NEW level \in Levels, Optimize(level) PROVE FirInv'
  <2>1. /\ func # << >> /\ Sealed(Last(func)) /\ source' = func /\ phase' = "fold"
        /\ UNCHANGED <<func, at>>
    BY <1>4 DEF Optimize
  <2>2. func \in Seq(Seq(ValueType)) BY <1>1 DEF WellMade
  <2>3. ASSUME NEW b \in DOMAIN func PROVE Sealed(func[b])
    <3>1. b \in Nat /\ Len(func) \in Nat /\ b <= Len(func) BY <2>2
    <3>2. CASE b = Len(func) BY <2>1, <3>2 DEF Last
    <3>3. CASE b < Len(func) BY <1>1, <3>3 DEF Building
    <3> QED BY <3>1, <3>2, <3>3
  <2>4. Reached(func, func) BY <1>1, <2>3, SeesTheSameSelf DEF Reached
  <2>5. IsPlace(func, <<1, 1>>)
    <3>1. 1 \in Nat \ {0} OBVIOUS
    <3> QED BY <1>1, <2>3, <3>1, EndsArePlaces
  <2> QED BY <1>1, <2>1, <2>4, <2>5 DEF FirInv, FirstPlace
<1> QED BY <1>2, <1>3, <1>4

\* The visit of a value by fir_constant_fold.
LEMMA FoldStep ==
  ASSUME Plain, FirInv, FoldVisit
  PROVE  FirInv'
<1>1. /\ phase = "fold" /\ WellMade(func) /\ Reached(source, func) /\ IsPlace(func, at)
      /\ func' = Folded(func, at[1], at[2]) /\ UNCHANGED <<source, phase>>
      /\ at[1] <= Len(func)
      /\ at' = IF at[2] < Len(func[at[1]]) THEN <<at[1], at[2] + 1>> ELSE <<at[1] + 1, 1>>
  BY DEF FoldVisit, FirInv, Visiting
<1>2. at[1] \in DOMAIN func /\ at[2] \in DOMAIN func[at[1]] /\ at[1] \in Nat \ {0} /\ at[2] \in Nat
  BY <1>1 DEF IsPlace
<1>3. Keeps(func, func') BY <1>1, <1>2, FoldKeeps
<1>4. InPlace(func, func') BY <1>3 DEF Keeps
<1>5. WellMade(func') BY <1>1, <1>4, InPlaceWellMade
<1>6. /\ DOMAIN func' = DOMAIN func
      /\ \A b \in DOMAIN func : DOMAIN (func'[b]) = DOMAIN func[b]
  BY <1>4 DEF InPlace
<1>7. Reached(source, func')
  <2>1. /\ Valid(func) => Valid(func')
        /\ \A b \in DOMAIN func : Sealed(func[b]) => Sealed(func'[b])
    BY <1>1, <1>4, InPlaceValid
  <2> QED BY <1>1, <1>3, <1>5, <1>6, <2>1, ReachedOn DEF Keeps
<1>8. IsPlace(func', at')
  <2>1. CASE at[2] < Len(func[at[1]])
    <3>1. at' = <<at[1], at[2] + 1>> BY <1>1, <2>1
    <3>2. func \in Seq(Seq(ValueType)) BY <1>1 DEF WellMade
    <3>3. DOMAIN func[at[1]] = 1 .. Len(func[at[1]]) /\ Len(func[at[1]]) \in Nat
      BY <1>2, <3>2, PlacesAre
    <3>4. at[2] + 1 \in DOMAIN func[at[1]] BY <1>2, <2>1, <3>3
    <3>5. at[1] \in DOMAIN func' /\ at[2] + 1 \in DOMAIN (func'[at[1]]) BY <1>2, <1>6, <3>4
    <3> QED BY <1>2, <3>1, <3>5 DEF IsPlace
  <2>2. CASE ~(at[2] < Len(func[at[1]]))
    <3>1. at' = <<at[1] + 1, 1>> BY <1>1, <2>2
    <3>2. at[1] + 1 \in Nat \ {0} BY <1>2
    <3>3. \A b \in DOMAIN func' : Sealed(func'[b]) BY <1>7 DEF Reached
    <3> QED BY <1>5, <3>1, <3>2, <3>3, EndsArePlaces
  <2> QED BY <2>1, <2>2
<1> QED BY <1>1, <1>5, <1>7, <1>8 DEF FirInv

\* The visit of a value by fir_dead_code_elim.
LEMMA SweepStep ==
  ASSUME Plain, FirInv, SweepVisit
  PROVE  FirInv'
<1>1. /\ phase = "sweep" /\ WellMade(func) /\ Reached(source, func) /\ IsPlace(func, at)
      /\ func' = IF IsDead(func, func[at[1]][at[2]]) THEN Without(func, at[1], at[2]) ELSE func
      /\ UNCHANGED <<source, phase>> /\ at[1] <= Len(func)
      /\ at' = IF at[2] > 1 THEN <<at[1], at[2] - 1>>
                            ELSE <<at[1] + 1, LastOf(func, at[1] + 1)>>
  BY DEF SweepVisit, FirInv, Visiting
<1>2. at[1] \in DOMAIN func /\ at[2] \in DOMAIN func[at[1]] /\ at[1] \in Nat \ {0} /\ at[2] \in Nat
  BY <1>1 DEF IsPlace
<1>3. func \in Seq(Seq(ValueType)) BY <1>1 DEF WellMade
<1>4. /\ WellMade(func') /\ Reached(source, func') /\ DOMAIN func' = DOMAIN func
      /\ func'[at[1]] \in Seq(ValueType) /\ Len(func'[at[1]]) >= at[2] - 1
      /\ \A b \in DOMAIN func : b # at[1] => Len(func'[b]) = Len(func[b])
  <2>1. CASE IsDead(func, func[at[1]][at[2]])
    <3>1. func' = Without(func, at[1], at[2]) BY <1>1, <2>1
    <3>2. /\ WellMade(func') /\ DOMAIN func' = DOMAIN func
          /\ \A r : Carries(func, func', r)
          /\ \A b \in DOMAIN func : Sealed(func[b]) => Sealed(func'[b])
          /\ Valid(func) => Valid(func')
      BY <1>1, <1>2, <2>1, <3>1, SweepKeeps
    <3>3. Reached(source, func') BY <1>1, <3>2, ReachedOn
    <3>4. \A b \in DOMAIN func :
             Len(func'[b]) = IF b = at[1] THEN Len(func[b]) - 1 ELSE Len(func[b])
      BY <1>1, <1>2, <3>1, WithoutIs
    <3>5. func'[at[1]] \in Seq(ValueType)
      <4>1. func' \in Seq(Seq(ValueType)) BY <3>2 DEF WellMade
      <4> QED BY <1>2, <3>2, <4>1, PlacesAre
    <3>6. at[2] \in 1 .. Len(func[at[1]]) /\ Len(func[at[1]]) \in Nat BY <1>2, <1>3, PlacesAre
    <3>7. Len(func'[at[1]]) = Len(func[at[1]]) - 1 BY <1>2, <3>4
    <3>8. Len(func'[at[1]]) >= at[2] - 1 BY <3>6, <3>7
    <3> QED BY <3>2, <3>3, <3>4, <3>5, <3>8
  <2>2. CASE ~IsDead(func, func[at[1]][at[2]])
    <3>1. func' = func BY <1>1, <2>2
    <3>2. at[2] \in 1 .. Len(func[at[1]]) /\ Len(func[at[1]]) \in Nat BY <1>2, <1>3, PlacesAre
    <3>3. func[at[1]] \in Seq(ValueType) BY <1>2, <1>3, PlacesAre
    <3>4. Len(func[at[1]]) >= at[2] - 1 BY <3>2
    <3> QED BY <1>1, <3>1, <3>3, <3>4
  <2> QED BY <2>1, <2>2
<1>5. IsPlace(func', at')
  <2>1. CASE at[2] > 1
    <3>1. at' = <<at[1], at[2] - 1>> BY <1>1, <2>1
    <3>2. DOMAIN (func'[at[1]]) = 1 .. Len(func'[at[1]]) /\ Len(func'[at[1]]) \in Nat BY <1>4
    <3>3. at[2] - 1 \in DOMAIN (func'[at[1]]) /\ at[2] - 1 \in Nat BY <1>2, <1>4, <2>1, <3>2
    <3>4. at[1] \in DOMAIN func' BY <1>2, <1>4
    <3> QED BY <1>2, <3>1, <3>3, <3>4 DEF IsPlace
  <2>2. CASE ~(at[2] > 1)
    <3>1. at' = <<at[1] + 1, LastOf(func, at[1] + 1)>> BY <1>1, <2>2
    <3>2. at[1] + 1 \in Nat \ {0} /\ at[1] + 1 # at[1] BY <1>2
    <3>3. LastOf(func', at[1] + 1) = LastOf(func, at[1] + 1) BY <1>4, <3>2 DEF LastOf
    <3>4. \A b \in DOMAIN func' : Sealed(func'[b]) BY <1>4 DEF Reached
    <3>5. IsPlace(func', <<at[1] + 1, LastOf(func', at[1] + 1)>>)
      BY <1>4, <3>2, <3>4, EndsArePlaces
    <3> QED BY <3>1, <3>3, <3>5
  <2> QED BY <2>1, <2>2
<1> QED BY <1>1, <1>4, <1>5 DEF FirInv

\* The end of a loop.
LEMMA EndStep ==
  ASSUME FirInv, RoundEnd
  PROVE  FirInv'
<1>1. /\ phase \in {"fold", "sweep"} /\ WellMade(func) /\ Reached(source, func)
      /\ UNCHANGED <<func, source>>
  BY DEF RoundEnd, FoldLoop, SweepLoop, FirInv
<1>2. phase' \in {"fold", "sweep", "done"}
  BY DEF RoundEnd, FoldLoop, SweepLoop, NextRound
<1>3. at' \in {FirstPlace, <<1, LastOf(func, 1)>>}
  BY DEF RoundEnd, FoldLoop, SweepLoop
<1>4. IsPlace(func, at')
  <2>1. 1 \in Nat \ {0} OBVIOUS
  <2>2. IsPlace(func, <<1, 1>>) /\ IsPlace(func, <<1, LastOf(func, 1)>>)
    BY <1>1, <2>1, EndsArePlaces DEF Reached
  <2> QED BY <1>3, <2>2 DEF FirstPlace
<1> QED BY <1>1, <1>2, <1>4 DEF FirInv

LEMMA FirInvKept ==
  ASSUME Plain, FirInv, [FirNext]_firVars
  PROVE  FirInv'
<1>1. CASE UNCHANGED firVars
  BY <1>1 DEF firVars, FirInv
<1> QED BY <1>1, BuildSteps, FoldStep, SweepStep, EndStep DEF FirNext, OptimizeStep

LEMMA WellMadeInOrder ==
  ASSUME NEW f, WellMade(f)
  PROVE  InOrder(f)
<1>1. \A b \in DOMAIN f : \A u, v \in DOMAIN f[b] : u < v => f[b][u].id < f[b][v].id
  BY DEF WellMade, InLine
<1> QED BY <1>1 DEF InOrder

\* In the regime of MeaningKept, for functions of every size, whatever the
\* operations and the numbers the front end emits: fir_optimize keeps the
\* effects of a function, their operands' numbers and the ends of its blocks,
\* and a valid function stays valid.
THEOREM MeaningStays ==
  ASSUME Plain
  PROVE  FirSpec => []MeaningKept
<1>1. FirInit => FirInv BY FirInvInit
<1>2. FirInv /\ [FirNext]_firVars => FirInv' BY FirInvKept
<1>3. FirInv => MeaningKept
  BY WellMadeInOrder DEF FirInv, Reached, MeaningKept
<1> QED BY <1>1, <1>2, <1>3, PTL DEF FirSpec
=============================================================================
