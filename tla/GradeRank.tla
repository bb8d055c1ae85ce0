------------------------------ MODULE GradeRank ------------------------------
(***************************************************************************)
(* The two ways in which a worst case becomes a grade, both in             *)
(* app/services/risk_ingest_service.py: derive_grade compares with         *)
(* thresholds, reassign_grades_by_rank goes by the place of the ticker in  *)
(* its load.                                                               *)
(*                                                                         *)
(* worst_case_pct is Numeric(6, 4), here in units of 0.0001.               *)
(***************************************************************************)
EXTENDS Integers, FiniteSets

Grades == {"HIGH", "MID", "LOW"}

\* Grades by the risk they stand for.
Severity(g) == IF g = "HIGH" THEN 2 ELSE IF g = "MID" THEN 1 ELSE 0

\* derive_grade: HIGH up to -0.08, MID up to -0.05.
Derive(w) == IF w <= -800 THEN "HIGH" ELSE IF w <= -500 THEN "MID" ELSE "LOW"

AtLeast(m, x) == IF x < m THEN m ELSE x

\* Python's round of x tenths, x in Nat: to the nearest, a half to the even side.
RoundTenths(x) ==
  LET q == x \div 10
      r == x % 10
  IN IF r > 5 \/ (r = 5 /\ q % 2 = 1) THEN q + 1 ELSE q

\* How many of n tickers are HIGH (a tenth), and how many HIGH or MID (three).
HighCutoff(n) == AtLeast(1, RoundTenths(n))
MidCutoff(n)  == AtLeast(HighCutoff(n) + 1, RoundTenths(3 * n))

\* The places 0, 1, ... that sorting the tickers S by their worst cases w can
\* give them; the order of the input decides among equal ones.
Places(S, w) ==
  {p \in [S -> 0..(Cardinality(S) - 1)] :
     \A s, t \in S : s # t => p[s] # p[t] /\ (w[s] < w[t] => p[s] < p[t])}

\* reassign_grades_by_rank; a single ticker keeps the grade of derive_grade.
Reassign(S, w, p) ==
  LET n == Cardinality(S) IN
  [t \in S |-> IF n <= 1 THEN Derive(w[t])
               ELSE IF p[t] < HighCutoff(n) THEN "HIGH"
               ELSE IF p[t] < MidCutoff(n) THEN "MID" ELSE "LOW"]
==============================================================================
