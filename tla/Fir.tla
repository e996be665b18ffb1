-------------------------------- MODULE Fir --------------------------------
(***************************************************************************)
(* The intermediate representation of fluxc/fir.c: a function is built     *)
(* value by value, then fir_optimize folds constants and removes what is   *)
(* not used.                                                               *)
(*                                                                         *)
(* A block is the sequence of its values; the block with ID i is number    *)
(* i + 1.  "num" is the union of a constant, a jump's target and an        *)
(* unknown input.  Numbers are mathematical integers: what overflows is    *)
(* left open by C.  Left out: names, types, floating point and the bitwise *)
(* operators, which fold by the same rule; PHI sources, since nothing      *)
(* calls fir_phi_add_source; inlining, which copies nothing.               *)
(***************************************************************************)
EXTENDS Integers, Sequences, SequencesExt, FiniteSets

CONSTANTS BlockMax,   \* FIR_MAX_BLOCKS
          ValueMax,   \* FIR_MAX_VALUES, of a block
          MoreRounds, \* 3: rounds of level 2 and up
          MaxValues,  \* bound on the values of a function
          Ops,        \* the operations the front end emits
          Numbers,    \* the constants it emits
          Levels,     \* the levels fir_optimize is called with, 1 to 3
          Inputs      \* what a load may find

ASSUME FirAssumption ==
    BlockMax \in Nat \ {0} /\ ValueMax \in Nat \ {0}
    /\ MoreRounds \in Nat /\ MaxValues \in Nat
    /\ Numbers \subseteq Int /\ Inputs \subseteq Int

VARIABLES func,    \* the blocks
          source,  \* the blocks when fir_optimize was called
          phase,   \* "build", "fold", "sweep" or "done"
          at,      \* block and value the loop under way visits
          changed, \* the loop's flag
          rounds   \* rounds of fold and sweep left after this one

firVars == <<func, source, phase, at, changed, rounds>>

FirInit ==
    /\ func = << >> /\ source = << >>
    /\ phase = "build" /\ at = <<1, 1>> /\ changed = FALSE /\ rounds = 0

Arithmetic == {"ADD", "SUB", "MUL", "DIV", "MOD", "NEG", "ABS"}
Relations == {"EQ", "NE", "LT", "GT", "LE", "GE"}
Terminators == {"JUMP", "BRANCH", "RETURN"}
Effects == {"CALL", "STORE", "SYSCALL", "INTRINSIC", "TRAP",
            "DELEGATE", "TELL", "ASK", "SPAWN", "BARRIER"}

ValuesOf(f) == UNION {{f[b][v] : v \in DOMAIN f[b]} : b \in DOMAIN f}
IdsOf(f) == {x.id : x \in ValuesOf(f)}

\* The operands the front end may give an operation in f: values defined
\* before; a branch also names two blocks.
OperandsOf(f, op) ==
    LET ids == IdsOf(f)
        blockIds == 0 .. BlockMax - 1
    IN  CASE op \in (Arithmetic \ {"NEG", "ABS"}) \cup Relations -> {<<i, j>> : i, j \in ids}
          [] op \in {"NEG", "ABS", "RETURN"} \cup Effects -> {<<i>> : i \in ids}
          [] op = "BRANCH" -> {<<i, b, c>> : i \in ids, b, c \in blockIds}
          [] OTHER -> {<< >>}

Sealed(block) == \E v \in DOMAIN block : block[v].op \in Terminators

----------------------------------------------------------------------------
(* Building *)

\* fir_block_create, once the block before is finished.
CreateBlock ==
    /\ phase = "build" /\ Len(func) < BlockMax
    /\ func # << >> => Sealed(Last(func))
    /\ func' = Append(func, << >>)
    /\ UNCHANGED <<source, phase, at, changed, rounds>>

\* fir_value_create.  A terminator's target may not exist.
CreateValue(op, num) ==
    LET b == Len(func)
    IN  /\ phase = "build" /\ func # << >> /\ ~Sealed(Last(func))
        /\ Len(func[b]) < ValueMax /\ Cardinality(IdsOf(func)) < MaxValues
        /\ num # 0 => op \in {"CONST", "JUMP"}
        /\ \E args \in OperandsOf(func, op) :
               func' = [func EXCEPT ![b] = Append(@,
                   [id |-> (b - 1) * ValueMax + Len(@), op |-> op,
                    num |-> num, args |-> args])]
        /\ UNCHANGED <<source, phase, at, changed, rounds>>

\* fir_validate_func finds no error.
Valid(f) ==
    /\ f # << >>
    /\ \A b \in DOMAIN f : \E last \in DOMAIN f[b] :
           /\ last = Len(f[b])
           /\ \A v \in DOMAIN f[b] : f[b][v].op \in Terminators <=> v = last
    /\ \A x \in ValuesOf(f) :
           /\ x.op = "JUMP" => x.num + 1 \in DOMAIN f
           /\ x.op = "BRANCH" /\ Len(x.args) >= 2 =>
                  /\ Len(x.args) >= 3
                  /\ x.args[2] + 1 \in DOMAIN f /\ x.args[3] + 1 \in DOMAIN f

----------------------------------------------------------------------------
(* Folding *)

\* get_const_int.
IsConst(f, id) == \E x \in ValuesOf(f) : x.id = id /\ x.op = "CONST"
ConstOf(f, id) == (CHOOSE x \in ValuesOf(f) : x.id = id /\ x.op = "CONST").num

\* The division of C rounds to zero.
Magnitude(n) == IF n < 0 THEN -n ELSE n
Quotient(m, n) ==
    LET q == Magnitude(m) \div Magnitude(n) IN IF (m < 0) = (n < 0) THEN q ELSE -q

Truth(p) == IF p THEN 1 ELSE 0

\* What an operation yields for its operands; one operand counts twice.
Computed(op, m, n) ==
    CASE op = "ADD" -> m + n
      [] op = "SUB" -> m - n
      [] op = "MUL" -> m * n
      [] op = "DIV" -> Quotient(m, n)
      [] op = "MOD" -> m - n * Quotient(m, n)
      [] op = "NEG" -> -m
      [] op = "ABS" -> Magnitude(m)
      [] op = "EQ" -> Truth(m = n)
      [] op = "NE" -> Truth(m # n)
      [] op = "LT" -> Truth(m < n)
      [] op = "GT" -> Truth(m > n)
      [] op = "LE" -> Truth(m <= n)
      [] op = "GE" -> Truth(m >= n)

DividesByZero(op, n) == op \in {"DIV", "MOD"} /\ n = 0

\* Whether a value of f has an operand at place i that is the constant n.
ArgIs(f, x, i, n) == IsConst(f, x.args[i]) /\ ConstOf(f, x.args[i]) = n

\* Both operands are constants; NEG has one.
Evaluates(f, x) ==
    \/ /\ x.op \in Arithmetic \cup Relations
       /\ Len(x.args) >= 2
       /\ IsConst(f, x.args[1]) /\ IsConst(f, x.args[2])
       /\ ~DividesByZero(x.op, ConstOf(f, x.args[2]))
    \/ x.op = "NEG" /\ x.args # << >> /\ IsConst(f, x.args[1])

\* x + 0, x - 0 and x * 1; 0 + x and 1 * x; x * 0 and 0 * x.
KeepsLeft(f, x) ==
    /\ Len(x.args) >= 2
    /\ \/ x.op \in {"ADD", "SUB"} /\ ArgIs(f, x, 2, 0)
       \/ x.op = "MUL" /\ ArgIs(f, x, 2, 1)

KeepsRight(f, x) ==
    /\ Len(x.args) >= 2
    /\ \/ x.op = "ADD" /\ ArgIs(f, x, 1, 0)
       \/ x.op = "MUL" /\ ArgIs(f, x, 1, 1)

Vanishes(f, x) ==
    Len(x.args) >= 2 /\ x.op = "MUL" /\ (ArgIs(f, x, 1, 0) \/ ArgIs(f, x, 2, 0))

\* A rule of fir_constant_fold applies.
Applies(f, x) == Evaluates(f, x) \/ KeepsLeft(f, x) \/ KeepsRight(f, x) \/ Vanishes(f, x)

AsConst(f, b, v, n) ==
    [f EXCEPT ![b][v] = [@ EXCEPT !.op = "CONST", !.num = n, !.args = << >>]]

\* replace_uses: every operand, a branch's targets included.
ReplaceUses(f, old, new) ==
    [b \in DOMAIN f |-> [v \in DOMAIN f[b] |->
        [f[b][v] EXCEPT !.args = [o \in DOMAIN @ |-> IF @[o] = old THEN new ELSE @[o]]]]]

\* The loop body of fir_constant_fold for value v of block b.
Folded(f, b, v) ==
    LET x == f[b][v]
        operand == [o \in DOMAIN x.args |-> ConstOf(f, x.args[o])]
    IN  CASE Evaluates(f, x) -> AsConst(f, b, v, Computed(x.op, operand[1], Last(operand)))
          [] KeepsLeft(f, x) -> ReplaceUses(f, x.id, x.args[1])
          [] KeepsRight(f, x) -> ReplaceUses(f, x.id, x.args[2])
          [] Vanishes(f, x) -> AsConst(f, b, v, 0)
          [] OTHER -> f

----------------------------------------------------------------------------
(* Removing what is not used *)

\* Variant: only the first operand is looked at.
IsUsedFirst(f, id) ==
    \E x \in ValuesOf(f) : x.args # << >> /\ x.args[1] = id

\* value_is_used.
IsUsed(f, id) ==
    \E x \in ValuesOf(f) : \E o \in DOMAIN x.args : x.args[o] = id

\* What fir_dead_code_elim may remove.
IsDead(f, x) == x.op \notin Terminators \cup Effects /\ ~IsUsed(f, x.id)

\* Shifting the values behind it over a value.
Without(f, b, v) == [f EXCEPT ![b] = RemoveAt(@, v)]

----------------------------------------------------------------------------
(* fir_optimize: a step is the visit of a value in one of the two loops, or *)
(* the test of "changed" at the end of a round.                            *)

Visiting == at[1] <= Len(func)
FirstPlace == <<1, 1>>
LastOf(f, b) == IF b \in DOMAIN f THEN Len(f[b]) ELSE 0

\* Folding goes through the blocks from the first value to the last.
FoldVisit ==
    /\ phase = "fold" /\ Visiting
    /\ func' = Folded(func, at[1], at[2])
    /\ changed' = (changed \/ Applies(func, func[at[1]][at[2]]))
    /\ at' = IF at[2] < Len(func[at[1]]) THEN <<at[1], at[2] + 1>> ELSE <<at[1] + 1, 1>>
    /\ UNCHANGED <<source, phase, rounds>>

\* Sweeping goes through each block from its last value to its first.
SweepVisit ==
    LET dead == IsDead(func, func[at[1]][at[2]])
    IN  /\ phase = "sweep" /\ Visiting
        /\ func' = IF dead THEN Without(func, at[1], at[2]) ELSE func
        /\ changed' = (changed \/ dead)
        /\ at' = IF at[2] > 1 THEN <<at[1], at[2] - 1>>
                              ELSE <<at[1] + 1, LastOf(func, at[1] + 1)>>
        /\ UNCHANGED <<source, phase, rounds>>

\* The while loop of folding.
FoldLoop ==
    /\ phase = "fold" /\ ~Visiting
    /\ phase' = IF changed THEN "fold" ELSE "sweep"
    /\ at' = IF changed THEN FirstPlace ELSE <<1, LastOf(func, 1)>>
    /\ UNCHANGED rounds

\* Variant: the rounds left are not counted.
NextRoundForever == phase' = "fold" /\ UNCHANGED rounds

\* fir_optimize after a fold and a sweep: again, or done.
NextRound ==
    /\ phase' = IF rounds > 0 THEN "fold" ELSE "done"
    /\ rounds' = IF rounds > 0 THEN rounds - 1 ELSE 0

\* The while loop of sweeping.
SweepLoop ==
    /\ phase = "sweep" /\ ~Visiting
    /\ IF changed THEN UNCHANGED <<phase, rounds>> ELSE NextRound
    /\ at' = IF phase' = "fold" THEN FirstPlace ELSE <<1, LastOf(func, 1)>>

RoundEnd ==
    /\ FoldLoop \/ SweepLoop
    /\ changed' = FALSE
    /\ UNCHANGED <<func, source>>

\* The call, once the function is finished.  Level 1 folds and sweeps once,
\* level 2 and up MoreRounds times more.
Optimize(level) ==
    /\ phase = "build" /\ func # << >> /\ Sealed(Last(func))
    /\ source' = func
    /\ phase' = "fold"
    /\ rounds' = IF level >= 2 THEN MoreRounds ELSE 0
    /\ UNCHANGED <<func, changed, at>>

OptimizeStep == FoldVisit \/ SweepVisit \/ RoundEnd

FirNext ==
    \/ CreateBlock
    \/ \E op \in Ops, num \in Numbers : CreateValue(op, num)
    \/ \E level \in Levels : Optimize(level)
    \/ OptimizeStep

\* fir_optimize, once called, is a loop of the calling thread.
FirSpec == FirInit /\ [][FirNext]_firVars /\ WF_firVars(OptimizeStep)

----------------------------------------------------------------------------
(* Properties *)

\* What the values of f are when a load of value i finds input + i: the
\* sequence of the number, or the empty one if it divides by zero.
ResultsOf(f, input) ==
    LET result[i \in 0 .. BlockMax * ValueMax - 1] ==
            IF i \notin IdsOf(f) THEN << >>
            ELSE LET x == CHOOSE x \in ValuesOf(f) : x.id = i
                     operand == [o \in DOMAIN x.args |-> result[x.args[o]]]
                 IN  IF x.op = "CONST" THEN <<x.num>>
                     ELSE IF x.op \notin Arithmetic \cup Relations THEN <<input + i>>
                     ELSE IF \E o \in DOMAIN operand : operand[o] = << >> THEN << >>
                     ELSE IF DividesByZero(x.op, Last(operand)[1]) THEN << >>
                     ELSE <<Computed(x.op, operand[1][1], Last(operand)[1])>>
    IN  result

\* What a caller sees of a block: its effects and its end.
Seen(block) ==
    {block[v] : v \in {w \in DOMAIN block : block[w].op \in Terminators \cup Effects}}

\* y does what x does, given the same numbers where the operands of x have any.
SameEffect(x, before, y, after) ==
    /\ y.id = x.id /\ y.op = x.op /\ y.num = x.num /\ DOMAIN y.args = DOMAIN x.args
    /\ \A o \in DOMAIN x.args : before[x.args[o]] \in {<< >>, after[y.args[o]]}

\* g has the effects and the ends of f, block by block, and no others.
SeesTheSame(f, g, input) ==
    LET before == ResultsOf(f, input)
        after == ResultsOf(g, input)
    IN  \A b \in DOMAIN f :
           /\ \A x \in Seen(f[b]) : \E y \in Seen(g[b]) : SameEffect(x, before, y, after)
           /\ \A y \in Seen(g[b]) : \E x \in Seen(f[b]) : x.id = y.id

\* The values of a block are in the order of their IDs.
InOrder(f) ==
    \A b \in DOMAIN f : \A u, v \in DOMAIN f[b] : u < v => f[b][u].id < f[b][v].id

\* Regime: no parameters and no BRANCH.  However the rounds of folding and
\* sweeping follow each other, the function has the effects and the ends it
\* had, in their order and with the same numbers, whatever its loads find,
\* where the source does not divide by zero; and a valid function stays valid
\* (fir_constant_fold, fir_dead_code_elim, fir_validate_func).
MeaningKept ==
    phase # "build" =>
        /\ DOMAIN func = DOMAIN source /\ InOrder(source) /\ InOrder(func)
        /\ \A input \in Inputs : SeesTheSame(source, func, input)
        /\ Valid(source) => Valid(func)

HasIdentity == \E x \in ValuesOf(func) : KeepsLeft(func, x) \/ KeepsRight(func, x)

\* fir_optimize returns, after as many rounds as its level asks for, unless an
\* addition of 0 or a multiplication by 1 is left in the function.
OptimizeReturns == phase = "fold" ~> (phase = "done" \/ HasIdentity)
=============================================================================
