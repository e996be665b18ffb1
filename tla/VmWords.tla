------------------------------ MODULE VmWords ------------------------------
(***************************************************************************)
(* The word operations of vm/vm.c that are algorithms of their own: bit    *)
(* counting by halving, the rotations, the flags of a comparison and the   *)
(* conditions of the jumps.  They have no state; the variable holds the    *)
(* two operands of an instruction, which may be any.  Words have Width     *)
(* bits: 64 in the code, 8 where every word is tried.                      *)
(***************************************************************************)
EXTENDS Integers, Sequences, FiniteSets

CONSTANTS Width,    \* bits of a machine word
          Seconds   \* the second operands tried with every first one

ASSUME WidthAssumption == Width \in {8, 64}

VARIABLE operands  \* the two registers an instruction reads

BitPlaces == 0 .. Width - 1

Pow2[k \in 0 .. Width] == IF k = 0 THEN 1 ELSE 2 * Pow2[k - 1]

Word == 0 .. Pow2[Width] - 1

WordsInit == operands \in Word \X (Word \cap Seconds)

\* An instruction computes its result from them.
WordsSpec == WordsInit /\ [][UNCHANGED operands]_operands

\* A word read as a signed number.
Signed(w) == IF w < Pow2[Width - 1] THEN w ELSE w - Pow2[Width]

\* The result of an unsigned addition, subtraction or multiplication.
Wrap(x) == x % Pow2[Width]

ShiftLeft(w, k) == Wrap(w * Pow2[k])
ShiftRight(w, k) == w \div Pow2[k]

Bit(x, i) == ShiftRight(x, i) % 2

\* The places where a word has a 1, and the word that has its ones there.
Ones(x) == {i \in BitPlaces : Bit(x, i) = 1}

Number(S) ==
    LET from[i \in 0 .. Width] ==
            IF i = Width THEN 0
            ELSE (IF i \in S THEN 1 ELSE 0) + 2 * from[i + 1]
    IN  from[0]

Or(x, y) == Number(Ones(x) \cup Ones(y))
Masked(x, S) == Number(Ones(x) \cap S)

\* The steps of the halving loops, written out in the code: Width/2 ... 1.
Steps == IF Width = 8 THEN <<4, 2, 1>> ELSE <<32, 16, 8, 4, 2, 1>>

\* Variant: a half is skipped when its lowest bit is set.
LeadingClearStrict(x, k) == x < Pow2[Width - k] - 1

\* The test of a step of clz64: the k highest bits are clear.
LeadingClear(x, k) == x <= Pow2[Width - k] - 1

\* The test of a step of ctz64: the k lowest bits are clear.
TrailingClear(x, k) == x % Pow2[k] = 0

\* clz64: n[i] bits have been shifted out after i steps.
Clz(x) ==
    LET n[i \in 0 .. Len(Steps)] ==
            IF i = 0 THEN 0
            ELSE IF LeadingClear(ShiftLeft(x, n[i - 1]), Steps[i])
                 THEN n[i - 1] + Steps[i]
                 ELSE n[i - 1]
    IN  IF x = 0 THEN Width ELSE n[Len(Steps)]

\* ctz64.
Ctz(x) ==
    LET n[i \in 0 .. Len(Steps)] ==
            IF i = 0 THEN 0
            ELSE IF TrailingClear(ShiftRight(x, n[i - 1]), Steps[i])
                 THEN n[i - 1] + Steps[i]
                 ELSE n[i - 1]
    IN  IF x = 0 THEN Width ELSE n[Len(Steps)]

\* 0x55..., 0x33... and 0x0F...: every other group of k bits.
Groups(k) == {i \in BitPlaces : (i \div k) % 2 = 0}

\* popcount64: pairs, nibbles and bytes are added up in place, the bytes by
\* the multiplication.
PopCount(x) ==
    LET pairs == Wrap(x - Masked(ShiftRight(x, 1), Groups(1)))
        quads == Wrap(Masked(pairs, Groups(2)) + Masked(ShiftRight(pairs, 2), Groups(2)))
        bytes == Masked(Wrap(quads + ShiftRight(quads, 4)), Groups(4))
        ones == (Pow2[Width] - 1) \div 255
    IN  ShiftRight(Wrap(bytes * ones), Width - 8)

\* rotl64 and rotr64.  For n = 0 the code shifts by 64, which C leaves open:
\* the processors it is built for take the count modulo 64.
Rotl(x, n) == Or(ShiftLeft(x, n), ShiftRight(x, (Width - n) % Width))
Rotr(x, n) == Or(ShiftRight(x, n), ShiftLeft(x, (Width - n) % Width))

\* flux_vm_set_flags: the comparison is unsigned.
FlagsOf(a, b) ==
    {f \in {"EQUAL", "LESS", "GREATER", "ZERO", "NEGATIVE"} :
        \/ f = "EQUAL" /\ a = b
        \/ f = "LESS" /\ a < b
        \/ f = "GREATER" /\ a > b
        \/ f = "ZERO" /\ a = 0
        \/ f = "NEGATIVE" /\ Signed(a) < 0}

\* CMP_EQ ... CMP_GE, opcodes 0x35 to 0x3A: signed.
FlagsOfRelation(op, a, b) ==
    LET x == Signed(a)
        y == Signed(b)
    IN  CASE op = "EQ" -> IF a = b THEN {"EQUAL"} ELSE {}
          [] op = "NE" -> IF a = b THEN {} ELSE {"EQUAL"}
          [] op = "LT" -> IF x < y THEN {"LESS"} ELSE {}
          [] op = "GT" -> IF x > y THEN {"GREATER"} ELSE {}
          [] op = "LE" -> IF x <= y THEN {"LESS", "EQUAL"} ELSE {}
          [] op = "GE" -> IF x >= y THEN {"GREATER", "EQUAL"} ELSE {}

\* The conditions of the jumps on flags.
Taken(op, flags) ==
    CASE op = "JE"  -> "EQUAL" \in flags
      [] op = "JNE" -> "EQUAL" \notin flags
      [] op = "JG"  -> "GREATER" \in flags
      [] op = "JL"  -> "LESS" \in flags
      [] op = "JGE" -> flags \cap {"GREATER", "EQUAL"} # {}
      [] op = "JLE" -> flags \cap {"LESS", "EQUAL"} # {}
      [] op = "JA"  -> flags \cap {"CARRY", "EQUAL"} = {}
      [] op = "JB"  -> "CARRY" \in flags
      [] op = "JAE" -> "CARRY" \notin flags
      [] op = "JBE" -> flags \cap {"CARRY", "EQUAL"} # {}

----------------------------------------------------------------------------
\* The halving loops and the in-place additions of vm.c count what their names
\* say, and the rotations move each bit by n and undo each other.
BitsCounted(x, n) ==
    /\ PopCount(x) = Cardinality(Ones(x))
    /\ IF x = 0 THEN Clz(x) = Width /\ Ctz(x) = Width
       ELSE \E low, high \in Ones(x) :
                /\ \A i \in Ones(x) : low <= i /\ i <= high
                /\ Ctz(x) = low /\ Clz(x) = Width - 1 - high
    /\ \A i \in BitPlaces : Bit(Rotl(x, n), (i + n) % Width) = Bit(x, i)
    /\ Rotr(Rotl(x, n), n) = x

\* A jump after CMP is taken exactly when its relation holds between the
\* operands as unsigned numbers; after a CMP_xx of the same relation, when it
\* holds between them as signed ones.
JumpsDecide(a, b) ==
    LET flags == FlagsOf(a, b)
        x == Signed(a)
        y == Signed(b)
    IN  /\ Taken("JE", flags) = (a = b)  /\ Taken("JNE", flags) = (a # b)
        /\ Taken("JG", flags) = (a > b)  /\ Taken("JL", flags) = (a < b)
        /\ Taken("JGE", flags) = (a >= b) /\ Taken("JLE", flags) = (a <= b)
        /\ Taken("JG", FlagsOfRelation("GT", a, b)) = (x > y)
        /\ Taken("JL", FlagsOfRelation("LT", a, b)) = (x < y)
        /\ Taken("JGE", FlagsOfRelation("GE", a, b)) = (x >= y)
        /\ Taken("JLE", FlagsOfRelation("LE", a, b)) = (x <= y)

\* Whatever two words an instruction reads, POPCOUNT, CLZ, CTZ, ROTATE_L and
\* ROTATE_R compute what they are named for, and a jump behind a comparison
\* decides as the comparison does.
WordsRight ==
    /\ BitsCounted(operands[1], operands[2] % Width)
    /\ JumpsDecide(operands[1], operands[2])
=============================================================================
