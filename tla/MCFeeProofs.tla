---------------------------- MODULE MCFeeProofs ----------------------------
(***************************************************************************)
(* The fee calculator, called with any operands of any width: the theorem  *)
(* about what the run fee_math enumerates.                                 *)
(***************************************************************************)
EXTENDS MCFeeMath, MathProofs

TypeOK == operands \in {<< >>} \cup (U64 \X U64 \X U64)

\* Away from the corner where both operands are the largest that the narrow
\* branch takes, both multiply-and-divide helpers (math.rs:13-36) return the
\* floor of the exact quotient, in every width.
THEOREM MulDivIsExactOffTheSplit == Spec => []ExactOffTheSplit
<1>1. Init => TypeOK
  BY DEF Init, TypeOK
<1>2. TypeOK /\ [Next]_vars => TypeOK'
  BY DEF TypeOK, Next, Call, Return, vars
<1>3. TypeOK => ExactOffTheSplit
  <2> SUFFICES ASSUME TypeOK, operands # << >>
               PROVE  ExactOffTheSplit
    BY DEF ExactOffTheSplit
  <2> DEFINE a == operands[1]
             b == operands[2]
             c == operands[3]
  <2>1. a \in U64 /\ b \in U64 /\ c \in U64
    BY DEF TypeOK
  <2>2. /\ ~ AtSplit(a, b, MAX, MAX) => mul_div(a, b, c) = Reference(a, b, c)
        /\ ~ AtSplit(a, b, MAX_BIG, MAX_SMALL)
              => mul_div_imbalanced(a, b, c) = Reference(a, b, c)
    BY <2>1, MulDivExact DEF AtSplit, Reference
  <2> QED
    BY <2>2 DEF ExactOffTheSplit
<1> QED
  BY <1>1, <1>2, <1>3, PTL DEF Spec

=============================================================================
