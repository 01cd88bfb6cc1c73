----------------------------- MODULE CostProofs -----------------------------
(***************************************************************************)
(* Proofs about the cost of a loan in Redline: the running totals of npv,  *)
(* the bisection of irr_monthly and the two schedules, for every loan and  *)
(* every Grid and Halvings.                                                *)
(*                                                                         *)
(* Induction is over sets of numbers, of which LeastNumber speaks, and a   *)
(* recursive function is known by its equations (Recursion).               *)
(***************************************************************************)
EXTENDS EvaluationLaws, EvaluationProofs

-----------------------------------------------------------------------------
(* Numbers, and functions that are defined by recursion on them.             *)

(* Induction over the natural numbers.                                       *)
LEMMA Induction ==
  ASSUME NEW S, 0 \in S, \A n \in Nat : n \in S => n + 1 \in S
  PROVE  Nat \subseteq S
<1> DEFINE T == Nat \ S
<1>1. SUFFICES ASSUME T # {} PROVE FALSE
  OBVIOUS
<1>2. \E x \in T : \A y \in T : x <= y
  <2>1. T \subseteq Nat
    OBVIOUS
  <2> HIDE DEF T
  <2> QED
    BY <1>1, <2>1, LeastNumber
<1>3. PICK x \in T : \A y \in T : x <= y
  BY <1>2
<1>4. x \in Nat /\ x # 0 /\ x \notin S
  OBVIOUS
<1>5. x - 1 \in Nat /\ ~(x <= x - 1)
  BY <1>4
<1>6. x - 1 \in S
  BY <1>3, <1>5
<1>7. (x - 1) + 1 = x
  BY <1>4
<1> QED
  BY <1>4, <1>5, <1>6, <1>7

(* From one number to a later one.                                           *)
LEMMA InductionTo ==
  ASSUME NEW n \in Nat, NEW S, 0 \in S, \A k \in 0 .. n - 1 : k \in S => k + 1 \in S
  PROVE  0 .. n \subseteq S
<1> DEFINE T == {k \in Nat : k <= n => k \in S}
<1>1. 0 \in T
  OBVIOUS
<1>2. ASSUME NEW k \in Nat, k \in T PROVE k + 1 \in T
  BY <1>2
<1>3. Nat \subseteq T
  <2> HIDE DEF T
  <2> QED
    BY <1>1, <1>2, Induction
<1> QED
  BY <1>3

(* The equations of a recursive function are those of some function: step    *)
(* takes <<k, the value at k - 1>> to the value at k.                        *)
Follows(f, n, V, first, step) ==
    /\ f \in [0 .. n -> V]
    /\ f[0] = first
    /\ \A k \in 1 .. n : f[k] = step[<<k, f[k - 1]>>]

LEMMA Recursion ==
  ASSUME NEW n \in Nat, NEW V, NEW first \in V, NEW step \in [Nat \X V -> V]
  PROVE  \E f : Follows(f, n, V, first, step)
<1> DEFINE S == {m \in Nat : \E f : Follows(f, m, V, first, step)}
<1>1. 0 \in S
  <2> DEFINE f == [k \in 0 .. 0 |-> first]
  <2>1. Follows(f, 0, V, first, step)
    BY DEF Follows
  <2> QED
    BY <2>1
<1>2. ASSUME NEW m \in Nat, m \in S PROVE m + 1 \in S
  <2>1. PICK f : Follows(f, m, V, first, step)
    BY <1>2
  <2> DEFINE g == [k \in 0 .. m + 1 |-> IF k = m + 1 THEN step[<<m + 1, f[m]>>] ELSE f[k]]
  <2>2. f[m] \in V /\ step[<<m + 1, f[m]>>] \in V
    BY <2>1 DEF Follows
  <2>3. g \in [0 .. m + 1 -> V]
    BY <2>1, <2>2 DEF Follows
  <2>4. \A k \in 0 .. m : g[k] = f[k]
    OBVIOUS
  <2>5. g[m + 1] = step[<<m + 1, f[m]>>]
    OBVIOUS
  <2> HIDE DEF g
  <2>6. ASSUME NEW k \in 1 .. m + 1 PROVE g[k] = step[<<k, g[k - 1]>>]
    <3>1. CASE k = m + 1
      <4>1. k - 1 = m /\ m \in 0 .. m
        BY <3>1
      <4> QED
        BY <3>1, <4>1, <2>4, <2>5
    <3>2. CASE k # m + 1
      <4>1. k \in 1 .. m /\ k \in 0 .. m /\ k - 1 \in 0 .. m
        BY <3>2
      <4> QED
        BY <4>1, <2>1, <2>4 DEF Follows
    <3> QED
      BY <3>1, <3>2
  <2>7. g[0] = first
    BY <2>1, <2>4 DEF Follows
  <2>8. Follows(g, m + 1, V, first, step)
    BY <2>3, <2>6, <2>7 DEF Follows
  <2> QED
    BY <2>8
<1>3. Nat \subseteq S
  <2> HIDE DEF S
  <2> QED
    BY <1>1, <1>2, Induction
<1> QED
  BY <1>3

(* Two functions that start and step alike.                                  *)
StepAlike(f, g, n) ==
    f[0] = g[0] /\ \A k \in 1 .. n : f[k - 1] = g[k - 1] => f[k] = g[k]

(* They end alike.                                                           *)
LEMMA RecursionUnique ==
  ASSUME NEW n \in Nat, NEW f, NEW g, StepAlike(f, g, n)
  PROVE  f[n] = g[n]
<1> DEFINE S == {k \in 0 .. n : f[k] = g[k]}
<1>1. 0 \in S
  BY DEF StepAlike
<1>2. ASSUME NEW k \in 0 .. n - 1, k \in S PROVE k + 1 \in S
  <2>1. k + 1 \in 1 .. n /\ (k + 1) - 1 = k
    OBVIOUS
  <2>2. f[(k + 1) - 1] = g[(k + 1) - 1] => f[k + 1] = g[k + 1]
    BY <2>1 DEF StepAlike
  <2>3. f[k] = g[k] /\ k + 1 \in 0 .. n
    BY <1>2, <2>1
  <2> QED
    BY <2>1, <2>2, <2>3
<1>3. 0 .. n \subseteq S
  <2> HIDE DEF S
  <2> QED
    BY <1>1, <1>2, InductionTo
<1>4. n \in 0 .. n
  OBVIOUS
<1> QED
  BY <1>3, <1>4

-----------------------------------------------------------------------------
(* Powers.                                                                   *)

IsPower(p, b, n) ==
    p \in [0 .. n -> Int] /\ p[0] = 1 /\ \A k \in 1 .. n : p[k] = b * p[k - 1]

(* There is such a function for every base and exponent.                     *)
LEMMA PowersExist == ASSUME NEW b \in Int, NEW n \in Nat PROVE \E p : IsPower(p, b, n)
<1> DEFINE step == [x \in Nat \X Int |-> b * x[2]]
<1>1. 1 \in Int /\ step \in [Nat \X Int -> Int]
  OBVIOUS
<1>2. PICK p : Follows(p, n, Int, 1, step)
  <2> HIDE DEF step
  <2> QED
    BY <1>1, Recursion, Zenon
<1>3. ASSUME NEW k \in 1 .. n PROVE p[k] = b * p[k - 1]
  <2>1. k \in Nat /\ k - 1 \in 0 .. n
    OBVIOUS
  <2>2. p[k - 1] \in Int
    BY <1>2, <2>1 DEF Follows
  <2> QED
    BY <1>2, <2>1, <2>2 DEF Follows
<1> QED
  BY <1>2, <1>3 DEF Follows, IsPower

(* Power follows its equations.                                              *)
LEMMA PowerIs ==
  ASSUME NEW b \in Int, NEW n \in Nat, NEW p, IsPower(p, b, n)
  PROVE  Power(b, n) = p[n]
<1> DEFINE power == CHOOSE q : q = [k \in 0 .. n |-> IF k = 0 THEN 1 ELSE b * q[k - 1]]
<1>1. p = [k \in 0 .. n |-> IF k = 0 THEN 1 ELSE b * p[k - 1]]
  BY DEF IsPower
<1>2. power = [k \in 0 .. n |-> IF k = 0 THEN 1 ELSE b * power[k - 1]]
  BY <1>1
<1>3. Power(b, n) = power[n]
  BY DEF Power
<1> HIDE DEF power
<1>4. StepAlike(power, p, n)
  <2>1. 0 \in 0 .. n /\ \A k \in 1 .. n : k \in 0 .. n /\ k # 0
    OBVIOUS
  <2>2. power[0] = 1 /\ \A k \in 1 .. n : power[k] = b * power[k - 1]
    BY <1>2, <2>1
  <2> QED
    BY <2>2 DEF IsPower, StepAlike
<1>5. power[n] = p[n]
  BY <1>4, RecursionUnique, Zenon
<1> QED
  BY <1>3, <1>5

(* The zeroth power.                                                         *)
LEMMA PowerZero == ASSUME NEW b \in Int PROVE Power(b, 0) = 1
<1>1. PICK p : IsPower(p, b, 0)
  BY PowersExist
<1> QED
  BY <1>1, PowerIs DEF IsPower

(* One more factor.                                                          *)
LEMMA PowerStep ==
  ASSUME NEW b \in Int, NEW n \in Nat
  PROVE  Power(b, n) \in Int /\ Power(b, n + 1) = b * Power(b, n)
<1>1. PICK p : IsPower(p, b, n + 1)
  BY PowersExist
<1> DEFINE q == [k \in 0 .. n |-> p[k]]
<1>2. IsPower(q, b, n)
  BY <1>1 DEF IsPower
<1>3. Power(b, n) = p[n]
  BY <1>2, PowerIs
<1>4. Power(b, n + 1) = p[n + 1]
  BY <1>1, PowerIs
<1>5. n \in 0 .. n + 1 /\ n + 1 \in 1 .. n + 1 /\ (n + 1) - 1 = n
  OBVIOUS
<1> QED
  BY <1>1, <1>3, <1>4, <1>5 DEF IsPower

(* Products of numbers that are in order.                                    *)
LEMMA Times ==
  ASSUME NEW x \in Int, NEW y \in Int, NEW c \in Nat
  PROVE  /\ x <= y => x * c <= y * c
         /\ x < y /\ c > 0 => x * c < y * c
  OBVIOUS

(* Products of factors in order are in order.                                *)
LEMMA Products ==
  ASSUME NEW x \in Nat, NEW y \in Nat, NEW c \in Nat, NEW d \in Nat
  PROVE  /\ x <= y /\ c <= d => x * c <= y * d
         /\ x < y /\ c <= d /\ d > 0 => x * c < y * d
         /\ x > 0 /\ c > 0 => x * c > 0
  OBVIOUS

(* Two comparisons of ratios, added up.                                      *)
LEMMA Blend ==
  ASSUME NEW x \in Int, NEW y \in Int, NEW p \in Int, NEW q \in Int,
         NEW a \in Nat, NEW b \in Nat, NEW c \in Nat, NEW d \in Nat,
         x * b <= y * a, p * b <= q * a
  PROVE  (x * c + p * d) * b <= (y * c + q * d) * a
<1>1. (x * b) * c <= (y * a) * c /\ (p * b) * d <= (q * a) * d
  <2> DEFINE xb == x * b  ya == y * a  pb == p * b  qa == q * a
  <2>1. xb \in Int /\ ya \in Int /\ pb \in Int /\ qa \in Int /\ xb <= ya /\ pb <= qa
    OBVIOUS
  <2> HIDE DEF xb, ya, pb, qa
  <2>2. xb * c <= ya * c /\ pb * d <= qa * d
    BY <2>1, Times
  <2> QED
    BY <2>2 DEF xb, ya, pb, qa
<1>2. (x * c + p * d) * b = (x * b) * c + (p * b) * d
  OBVIOUS
<1>3. (y * c + q * d) * a = (y * a) * c + (q * a) * d
  OBVIOUS
<1>4. /\ (x * b) * c \in Int /\ (p * b) * d \in Int
      /\ (y * a) * c \in Int /\ (q * a) * d \in Int
  OBVIOUS
<1> QED
  BY <1>1, <1>2, <1>3, <1>4

(* Powers are positive, and in the order of their bases.                     *)
LEMMA PowerOrder ==
  ASSUME NEW a \in Nat, NEW b \in Nat, 0 < a, a <= b
  PROVE  \A n \in Nat : /\ Power(a, n) \in Nat \ {0} /\ Power(b, n) \in Nat \ {0}
                        /\ Power(a, n) <= Power(b, n)
                        /\ a < b /\ n > 0 => Power(a, n) < Power(b, n)
<1> DEFINE S == {n \in Nat : /\ Power(a, n) \in Nat \ {0} /\ Power(b, n) \in Nat \ {0}
                             /\ Power(a, n) <= Power(b, n)
                             /\ a < b /\ n > 0 => Power(a, n) < Power(b, n)}
<1>1. 0 \in S
  BY PowerZero
<1>2. ASSUME NEW n \in Nat, n \in S PROVE n + 1 \in S
  <2>1. /\ Power(a, n) \in Nat /\ Power(a, n) > 0 /\ Power(b, n) \in Nat /\ Power(b, n) > 0
        /\ Power(a, n) <= Power(b, n)
    BY <1>2
  <2>2. Power(a, n + 1) = a * Power(a, n) /\ Power(b, n + 1) = b * Power(b, n)
    BY PowerStep
  <2>3. /\ a * Power(a, n) \in Nat /\ a * Power(a, n) > 0
        /\ b * Power(b, n) \in Nat /\ b * Power(b, n) > 0
    BY <2>1, Products
  <2>4. a * Power(a, n) <= b * Power(b, n)
    BY <2>1, Products
  <2>5. a < b => a * Power(a, n) < b * Power(b, n)
    BY <2>1, Products
  <2> QED
    BY <2>2, <2>3, <2>4, <2>5
<1>3. Nat \subseteq S
  <2> HIDE DEF S
  <2> QED
    BY <1>1, <1>2, Induction
<1> QED
  BY <1>3

-----------------------------------------------------------------------------
(* The running total of npv.                                                 *)

IsTotal(t, flows, r) ==
    /\ t \in [0 .. Len(flows) -> Int] /\ t[0] = 0
    /\ \A i \in 1 .. Len(flows) :
          t[i] = t[i - 1] * (Grid + r) + flows[i] * Power(Grid, i - 1)

(* The units of the grid are positive.                                       *)
LEMMA GridPower ==
  ASSUME NEW r \in Nat, NEW n \in Nat
  PROVE  Power(Grid + r, n) \in Nat \ {0} /\ Power(Grid, n) \in Nat \ {0}
<1>1. Grid \in Nat /\ Grid + r \in Nat /\ 0 < Grid /\ Grid <= Grid + r
  BY GridAssumption
<1> QED
  BY <1>1, PowerOrder

LEMMA SumOfProducts ==
  ASSUME NEW a \in Int, NEW b \in Int, NEW c \in Int, NEW d \in Int
  PROVE  a * b + c * d \in Int
OBVIOUS

(* Npv is the last of running totals that follow their equations.            *)
LEMMA NpvTotal ==
  ASSUME NEW flows \in Seq(Int), NEW r \in Nat
  PROVE  \E t : IsTotal(t, flows, r) /\ Npv(flows, r) = t[Len(flows)]
<1> DEFINE n == Len(flows)
           flow(i) == IF i \in 1 .. n THEN flows[i] ELSE 0
           power(i) == IF i \in 1 .. n THEN Power(Grid, i - 1) ELSE 0
           step == [x \in Nat \X Int |-> x[2] * (Grid + r) + flow(x[1]) * power(x[1])]
           total == CHOOSE t : t = [i \in 0 .. n |->
                       IF i = 0 THEN 0 ELSE t[i - 1] * (Grid + r) + flows[i] * Power(Grid, i - 1)]
<1>1. n \in Nat /\ Grid \in Nat
  BY GridAssumption
<1>2. ASSUME NEW i \in Nat PROVE flow(i) \in Int /\ power(i) \in Int
  <2>1. i \in 1 .. n => i - 1 \in Nat /\ flows[i] \in Int
    OBVIOUS
  <2>2. i - 1 \in Nat => Power(Grid, i - 1) \in Int
    <3>1. i - 1 \in Nat => Power(Grid, i - 1) \in Nat \ {0}
      BY GridPower
    <3> QED
      BY <3>1
  <2>3. flow(i) \in Int
    BY <2>1
  <2>4. power(i) \in Int
    BY <2>2
  <2> QED
    BY <2>3, <2>4
<1>3. 0 \in Int /\ step \in [Nat \X Int -> Int]
  <2> HIDE DEF flow, power
  <2>1. Grid + r \in Int
    BY <1>1
  <2>2. ASSUME NEW x \in Nat \X Int
        PROVE  x[2] * (Grid + r) + flow(x[1]) * power(x[1]) \in Int
    <3>1. flow(x[1]) \in Int /\ power(x[1]) \in Int /\ x[2] \in Int
      BY <1>2
    <3> QED
      BY <2>1, <3>1, SumOfProducts
  <2>3. step \in [Nat \X Int -> Int]
    BY <2>2, Zenon
  <2> QED
    BY <2>3
<1>4. PICK t : Follows(t, n, Int, 0, step)
  <2> HIDE DEF step, n
  <2> QED
    BY <1>1, <1>3, Recursion, Zenon
<1>5. ASSUME NEW i \in 1 .. n
      PROVE  t[i] = t[i - 1] * (Grid + r) + flows[i] * Power(Grid, i - 1)
  <2>1. i \in Nat /\ i - 1 \in 0 .. n
    BY <1>1
  <2>2. t[i - 1] \in Int
    BY <1>4, <2>1 DEF Follows
  <2>3. t[i] = step[<<i, t[i - 1]>>]
    BY <1>4 DEF Follows
  <2>4. step[<<i, t[i - 1]>>] = t[i - 1] * (Grid + r) + flow(i) * power(i)
    <3> HIDE DEF flow, power
    <3> QED
      BY <2>1, <2>2
  <2> QED
    BY <2>3, <2>4
<1>6. IsTotal(t, flows, r)
  BY <1>4, <1>5 DEF Follows, IsTotal
<1>7. t = [i \in 0 .. n |->
             IF i = 0 THEN 0 ELSE t[i - 1] * (Grid + r) + flows[i] * Power(Grid, i - 1)]
  BY <1>6 DEF IsTotal
<1>8. total = [i \in 0 .. n |->
             IF i = 0 THEN 0 ELSE total[i - 1] * (Grid + r) + flows[i] * Power(Grid, i - 1)]
  BY <1>7
<1>9. PICK whole : /\ Npv(flows, r) = whole[n]
                   /\ whole = [i \in 0 .. n |->
                        IF i = 0 THEN 0
                        ELSE whole[i - 1] * (Grid + r) + flows[i] * Power(Grid, i - 1)]
  BY <1>8 DEF Npv
<1> HIDE DEF total, step, flow, power, n
<1>10. StepAlike(whole, t, n)
  <2>1. 0 \in 0 .. n /\ \A i \in 1 .. n : i \in 0 .. n /\ i # 0
    BY <1>1
  <2>2. whole[0] = 0 /\ t[0] = 0
    BY <1>7, <1>9, <2>1
  <2>3. ASSUME NEW i \in 1 .. n
        PROVE  /\ whole[i] = whole[i - 1] * (Grid + r) + flows[i] * Power(Grid, i - 1)
               /\ t[i] = t[i - 1] * (Grid + r) + flows[i] * Power(Grid, i - 1)
    BY <1>7, <1>9, <2>1
  <2>4. \A i \in 1 .. n : whole[i - 1] = t[i - 1] => whole[i] = t[i]
    BY <2>3
  <2> QED
    BY <2>2, <2>4 DEF StepAlike
<1>11. whole[n] = t[n]
  BY <1>1, <1>10, RecursionUnique, Zenon
<1> QED
  BY <1>6, <1>9, <1>11 DEF n

(* A present value is an integer.                                            *)
LEMMA NpvType == ASSUME NEW flows \in Seq(Int), NEW r \in Nat PROVE Npv(flows, r) \in Int
<1>1. PICK t : IsTotal(t, flows, r) /\ Npv(flows, r) = t[Len(flows)]
  BY NpvTotal
<1>2. Len(flows) \in 0 .. Len(flows)
  OBVIOUS
<1> QED
  BY <1>1, <1>2 DEF IsTotal

(* Flows that are higher, each in units of its own, are worth more.          *)
LEMMA HigherFlows ==
  ASSUME NEW f \in Seq(Int), NEW g \in Seq(Int), Len(f) = Len(g), NEW a \in Nat, NEW b \in Nat,
         \A i \in 1 .. Len(f) : f[i] * b <= g[i] * a, NEW r \in Nat
  PROVE  Npv(f, r) * b <= Npv(g, r) * a
<1>1. PICK t : IsTotal(t, f, r) /\ Npv(f, r) = t[Len(f)]
  BY NpvTotal
<1>2. PICK u : IsTotal(u, g, r) /\ Npv(g, r) = u[Len(g)]
  BY NpvTotal
<1> DEFINE n == Len(f)
           S == {i \in 0 .. n : t[i] * b <= u[i] * a}
<1>3. n \in Nat /\ Grid + r \in Nat
  BY GridAssumption
<1>4. 0 \in S
  BY <1>1, <1>2, <1>3 DEF IsTotal
<1>5. ASSUME NEW i \in 0 .. n - 1, i \in S PROVE i + 1 \in S
  <2>1. i \in 0 .. n /\ i + 1 \in 1 .. n /\ i + 1 \in 0 .. n /\ (i + 1) - 1 = i /\ i \in Nat
    BY <1>3
  <2>2. t[i] \in Int /\ u[i] \in Int
    BY <1>1, <1>2, <2>1 DEF IsTotal
  <2>3. f[i + 1] \in Int /\ g[i + 1] \in Int
    BY <2>1
  <2> DEFINE c == Grid + r
             p == Power(Grid, i)
  <2>4. p \in Nat /\ c \in Nat
    BY <1>3, <2>1, GridPower
  <2>5. t[i + 1] = t[i] * c + f[i + 1] * p /\ u[i + 1] = u[i] * c + g[i + 1] * p
    BY <1>1, <1>2, <2>1 DEF IsTotal
  <2> HIDE DEF c, p
  <2>6. t[i] * b <= u[i] * a /\ f[i + 1] * b <= g[i + 1] * a
    BY <1>5, <2>1
  <2>7. (t[i] * c + f[i + 1] * p) * b <= (u[i] * c + g[i + 1] * p) * a
    BY <2>2, <2>3, <2>4, <2>6, Blend
  <2> QED
    BY <2>1, <2>5, <2>7
<1>6. 0 .. n \subseteq S
  <2> HIDE DEF S, n
  <2> QED
    BY <1>3, <1>4, <1>5, InductionTo
<1>7. n \in S
  BY <1>3, <1>6
<1> QED
  BY <1>1, <1>2, <1>7

(* The higher the rate, the less the later flows are worth against the       *)
(* first one: one more flow, with u and t the totals at the two rates.       *)
LEMMA DiscountStep ==
  ASSUME NEW u \in Int, NEW t \in Int, NEW f \in Nat, NEW g \in Nat,
         NEW a \in Nat, NEW b \in Nat, NEW p \in Nat, NEW q \in Nat,
         u * p <= t * q, a * p <= b * q
  PROVE  /\ (u * b + f * g) * (a * p) <= (t * a + f * g) * (b * q)
         /\ f > 0 /\ g > 0 /\ a * p < b * q =>
               (u * b + f * g) * (a * p) < (t * a + f * g) * (b * q)
<1> DEFINE up == u * p  tq == t * q  ap == a * p  bq == b * q  fg == f * g  ab == a * b
<1>1. /\ up \in Int /\ tq \in Int /\ ap \in Nat /\ bq \in Nat /\ fg \in Nat /\ ab \in Nat
      /\ up <= tq /\ ap <= bq
  OBVIOUS
<1>2. f > 0 /\ g > 0 => fg > 0
  BY Products
<1>3. (u * b + f * g) * (a * p) = up * ab + ap * fg
  OBVIOUS
<1>4. (t * a + f * g) * (b * q) = tq * ab + bq * fg
  OBVIOUS
<1> HIDE DEF up, tq, ap, bq, fg, ab
<1>5. up * ab <= tq * ab /\ ap * fg <= bq * fg /\ (ap < bq /\ fg > 0 => ap * fg < bq * fg)
  BY <1>1, Times
<1>6. up * ab \in Int /\ tq * ab \in Int /\ ap * fg \in Int /\ bq * fg \in Int
  BY <1>1
<1>7. /\ up * ab + ap * fg <= tq * ab + bq * fg
      /\ ap < bq /\ fg > 0 => up * ab + ap * fg < tq * ab + bq * fg
  BY <1>5, <1>6
<1> QED
  BY <1>2, <1>3, <1>4, <1>7 DEF ap, bq

(* Flows that are paid back, or nothing, after the first one.                *)
PaidBack(flows) ==
    flows \in Seq(Int) /\ Len(flows) > 0 /\ \A i \in 2 .. Len(flows) : flows[i] >= 0

PaidBackEach(flows) ==
    flows \in Seq(Int) /\ Len(flows) > 1 /\ \A i \in 2 .. Len(flows) : flows[i] > 0

(* The totals of such flows at two rates.                                    *)
LEMMA Discounting ==
  ASSUME NEW flows, PaidBack(flows), NEW r \in Nat, NEW s \in Nat, r <= s
  PROVE  /\ Npv(flows, s) * Power(Grid + r, Len(flows) - 1)
              <= Npv(flows, r) * Power(Grid + s, Len(flows) - 1)
         /\ PaidBackEach(flows) /\ r < s =>
               Npv(flows, s) * Power(Grid + r, Len(flows) - 1)
                  < Npv(flows, r) * Power(Grid + s, Len(flows) - 1)
<1> DEFINE n == Len(flows) - 1
           a == Grid + r
           b == Grid + s
<1>1. PICK t : IsTotal(t, flows, r) /\ Npv(flows, r) = t[Len(flows)]
  BY NpvTotal DEF PaidBack
<1>2. PICK u : IsTotal(u, flows, s) /\ Npv(flows, s) = u[Len(flows)]
  BY NpvTotal DEF PaidBack
<1>3. /\ n \in Nat /\ Len(flows) = n + 1 /\ flows \in Seq(Int)
      /\ a \in Nat /\ b \in Nat /\ 0 < a /\ a <= b /\ (r < s => a < b) /\ Grid \in Nat
  BY GridAssumption DEF PaidBack
<1> HIDE DEF a, b
<1>4. ASSUME NEW k \in Nat
      PROVE  /\ Power(a, k) \in Nat /\ Power(b, k) \in Nat
             /\ Power(a, k + 1) = a * Power(a, k) /\ Power(b, k + 1) = b * Power(b, k)
             /\ Power(a, k + 1) <= Power(b, k + 1)
             /\ r < s => Power(a, k + 1) < Power(b, k + 1)
  <2>1. /\ Power(a, k) \in Nat /\ Power(b, k) \in Nat
        /\ Power(a, k + 1) <= Power(b, k + 1)
        /\ a < b => Power(a, k + 1) < Power(b, k + 1)
    <3>1. a \in Nat /\ b \in Nat /\ 0 < a /\ a <= b /\ k + 1 \in Nat /\ k + 1 > 0
      BY <1>3
    <3> QED
      BY <3>1, PowerOrder
  <2>2. Power(a, k + 1) = a * Power(a, k) /\ Power(b, k + 1) = b * Power(b, k)
    <3>1. a \in Int /\ b \in Int
      BY <1>3
    <3> QED
      BY <3>1, PowerStep
  <2> QED
    BY <1>3, <2>1, <2>2
<1> DEFINE S == {k \in 0 .. n :
                  /\ u[k + 1] * Power(a, k) <= t[k + 1] * Power(b, k)
                  /\ PaidBackEach(flows) /\ r < s /\ k > 0 =>
                        u[k + 1] * Power(a, k) < t[k + 1] * Power(b, k)}
<1>5. 0 \in S
  <2>1. 1 \in 1 .. Len(flows) /\ 1 - 1 = 0 /\ 0 + 1 = 1
    BY <1>3
  <2>2. u[1] = u[0] * b + flows[1] * Power(Grid, 0) /\ u[0] = 0
    BY <1>2, <2>1 DEF IsTotal, b
  <2>3. t[1] = t[0] * a + flows[1] * Power(Grid, 0) /\ t[0] = 0
    BY <1>1, <2>1 DEF IsTotal, a
  <2>4. u[1] = t[1] /\ u[1] \in Int
    <3>1. 1 \in 0 .. Len(flows)
      BY <2>1
    <3>2. u[1] \in Int
      BY <1>2, <3>1 DEF IsTotal
    <3>3. 0 * b = 0 * a
      BY <1>3
    <3> QED
      BY <2>2, <2>3, <3>2, <3>3
  <2>5. Power(a, 0) = 1 /\ Power(b, 0) = 1
    BY <1>3, PowerZero
  <2> QED
    BY <1>3, <2>1, <2>4, <2>5
<1>6. ASSUME NEW k \in 0 .. n - 1, k \in S PROVE k + 1 \in S
  <2> DEFINE p == Power(a, k)
             q == Power(b, k)
             f == flows[(k + 1) + 1]
             g == Power(Grid, k + 1)
             x == u[k + 1]
             y == t[k + 1]
  <2>1. /\ k \in Nat /\ k + 1 \in 0 .. n /\ (k + 1) + 1 \in 1 .. Len(flows)
        /\ k + 1 \in 0 .. Len(flows)
        /\ ((k + 1) + 1) - 1 = k + 1 /\ (k + 1) + 1 \in 2 .. Len(flows) /\ k + 1 \in Nat
    BY <1>3
  <2>2. p \in Nat /\ q \in Nat
    BY <1>4, <2>1
  <2>3. g \in Nat /\ g > 0
    <3>1. k + 1 \in Nat
      BY <2>1
    <3>2. Power(Grid, k + 1) \in Nat \ {0}
      BY <3>1, GridPower, Zenon
    <3> QED
      BY <3>2
  <2>4. /\ Power(a, k + 1) = a * p /\ Power(b, k + 1) = b * q
        /\ a * p <= b * q /\ (r < s => a * p < b * q)
    BY <1>4, <2>1
  <2>5. x \in Int /\ y \in Int
    BY <1>1, <1>2, <2>1 DEF IsTotal
  <2>6. f \in Nat /\ (PaidBackEach(flows) => f > 0)
    <3>1. f \in Int
      BY <1>3, <2>1
    <3> QED
      BY <2>1, <3>1 DEF PaidBack, PaidBackEach
  <2>7. u[(k + 1) + 1] = x * b + f * g /\ t[(k + 1) + 1] = y * a + f * g
    BY <1>1, <1>2, <2>1 DEF IsTotal, a, b
  <2>8. x * p <= y * q
    BY <1>6
  <2> HIDE DEF p, q, f, g, x, y, n
  <2>9. /\ (x * b + f * g) * (a * p) <= (y * a + f * g) * (b * q)
        /\ f > 0 /\ g > 0 /\ a * p < b * q =>
              (x * b + f * g) * (a * p) < (y * a + f * g) * (b * q)
    BY <1>3, <2>2, <2>3, <2>4, <2>5, <2>6, <2>8, DiscountStep
  <2> QED
    BY <2>1, <2>2, <2>3, <2>4, <2>6, <2>7, <2>9
<1>7. 0 .. n \subseteq S
  <2> HIDE DEF S, n
  <2> QED
    BY <1>3, <1>5, <1>6, InductionTo
<1>8. n \in S
  <2> HIDE DEF S
  <2> QED
    BY <1>3, <1>7
<1>9. PaidBackEach(flows) => n > 0
  BY DEF PaidBackEach
<1> QED
  BY <1>1, <1>2, <1>3, <1>8, <1>9 DEF a, b

(* What is worth something at one rate is worth something at any lower one.  *)
LEMMA WorthAtLower ==
  ASSUME NEW flows, PaidBack(flows), NEW r \in Nat, NEW s \in Nat, r <= s,
         Npv(flows, s) > 0
  PROVE  Npv(flows, r) > 0
<1> DEFINE x == Npv(flows, s)  y == Npv(flows, r)
           p == Power(Grid + r, Len(flows) - 1)  q == Power(Grid + s, Len(flows) - 1)
<1>1. x \in Int /\ y \in Int /\ x > 0
  BY NpvType DEF PaidBack
<1>2. p \in Nat \ {0} /\ q \in Nat \ {0}
  <2>1. Len(flows) - 1 \in Nat
    BY DEF PaidBack
  <2> QED
    BY <2>1, GridPower
<1>3. x * p <= y * q
  BY Discounting
<1> HIDE DEF x, y, p, q
<1>4. x * p > 0
  BY <1>1, <1>2, Products
<1>5. ASSUME y <= 0 PROVE FALSE
  <2>1. y * q <= 0 * q
    BY <1>1, <1>2, <1>5, Times
  <2>2. x * p \in Int /\ y * q \in Int
    BY <1>1, <1>2
  <2> QED
    BY <1>2, <1>3, <1>4, <2>1, <2>2
<1> QED
  BY <1>1, <1>5 DEF y

(* Around the rate of such flows.                                            *)
LEMMA WorthAroundRate ==
  ASSUME NEW flows, PaidBackEach(flows), NEW z \in Nat, Npv(flows, z) = 0, NEW r \in Nat
  PROVE  Npv(flows, r) > 0 <=> r < z
<1> DEFINE n == Len(flows) - 1
           y == Npv(flows, r)
           p == Power(Grid + z, n)  q == Power(Grid + r, n)
<1>1. PaidBack(flows) /\ n \in Nat
  BY DEF PaidBack, PaidBackEach
<1>2. y \in Int /\ p \in Nat /\ p > 0 /\ q \in Nat /\ q > 0
  <2>1. y \in Int
    BY NpvType DEF PaidBackEach
  <2>2. p \in Nat \ {0} /\ q \in Nat \ {0}
    BY <1>1, GridPower
  <2> HIDE DEF p, q
  <2> QED
    BY <2>1, <2>2
<1>3. ASSUME r < z PROVE y > 0
  <2>1. 0 * q < y * p
    BY <1>1, <1>3, Discounting
  <2> HIDE DEF y, p, q
  <2>2. ASSUME y <= 0 PROVE FALSE
    <3>1. y * p <= 0 * p
      BY <1>2, <2>2, Times
    <3> QED
      BY <1>2, <2>1, <3>1
  <2> QED
    BY <1>2, <2>2
<1>4. ASSUME z <= r PROVE y <= 0
  <2>1. y * p <= 0 * q
    BY <1>1, <1>4, Discounting
  <2> HIDE DEF y, p, q
  <2>2. ASSUME y > 0 PROVE FALSE
    <3>1. y * p > 0
      BY <1>2, <2>2, Products
    <3> QED
      BY <1>2, <2>1, <3>1
  <2> QED
    BY <1>2, <2>2
<1> QED
  BY <1>2, <1>3, <1>4

-----------------------------------------------------------------------------
(* The bisection of irr_monthly.                                             *)

IsSearch(h, flows) ==
    /\ h \in [0 .. Halvings -> Nat \X Nat] /\ h[0] = <<0, Grid \div 2>>
    /\ \A k \in 1 .. Halvings : h[k] = Halve(flows, h[k - 1])

(* A halved interval is one.                                                 *)
LEMMA HalveType ==
  ASSUME NEW flows, NEW b \in Nat \X Nat
  PROVE  Halve(flows, b) \in Nat \X Nat
<1>1. (b[1] + b[2]) \div 2 \in Nat
  OBVIOUS
<1> QED
  BY <1>1 DEF Halve

(* The bisection is a run of halvings.                                       *)
LEMMA Search ==
  ASSUME NEW flows
  PROVE  \E h : /\ IsSearch(h, flows)
                /\ TwiceIrr(flows) = IF Npv(flows, 0) <= 0 THEN 0
                                     ELSE h[Halvings][1] + h[Halvings][2]
<1> DEFINE first == <<0, Grid \div 2>>
           V == Nat \X Nat
           step == [x \in Nat \X V |-> Halve(flows, x[2])]
           search == CHOOSE h : h = [k \in 0 .. Halvings |->
                        IF k = 0 THEN <<0, Grid \div 2>> ELSE Halve(flows, h[k - 1])]
<1>1. Halvings \in Nat /\ Grid \div 2 \in Nat
  BY GridAssumption
<1>2. first \in V
  BY <1>1
<1>3. step \in [Nat \X V -> V]
  BY HalveType
<1>4. PICK h : Follows(h, Halvings, V, first, step)
  <2> HIDE DEF step, first, V
  <2> QED
    BY <1>1, <1>2, <1>3, Recursion, Zenon
<1>5. ASSUME NEW k \in 1 .. Halvings PROVE h[k] = Halve(flows, h[k - 1])
  <2>1. k \in Nat /\ k - 1 \in 0 .. Halvings
    BY <1>1
  <2>2. h[k - 1] \in V
    BY <1>4, <2>1 DEF Follows
  <2>3. h[k] = step[<<k, h[k - 1]>>]
    BY <1>4 DEF Follows
  <2> HIDE DEF V
  <2> QED
    BY <2>1, <2>2, <2>3
<1>6. IsSearch(h, flows)
  BY <1>4, <1>5 DEF Follows, IsSearch
<1>7. h = [k \in 0 .. Halvings |->
             IF k = 0 THEN <<0, Grid \div 2>> ELSE Halve(flows, h[k - 1])]
  BY <1>6 DEF IsSearch
<1>8. search = [k \in 0 .. Halvings |->
             IF k = 0 THEN <<0, Grid \div 2>> ELSE Halve(flows, search[k - 1])]
  BY <1>7
<1>9. PICK g : /\ TwiceIrr(flows) = IF Npv(flows, 0) <= 0 THEN 0
                                    ELSE g[Halvings][1] + g[Halvings][2]
               /\ g = [k \in 0 .. Halvings |->
                         IF k = 0 THEN <<0, Grid \div 2>> ELSE Halve(flows, g[k - 1])]
  BY <1>8 DEF TwiceIrr
<1> HIDE DEF search, step
<1>10. StepAlike(g, h, Halvings)
  <2>1. 0 \in 0 .. Halvings /\ \A k \in 1 .. Halvings : k \in 0 .. Halvings /\ k # 0
    BY <1>1
  <2> HIDE DEF first, V
  <2>2. g[0] = <<0, Grid \div 2>> /\ h[0] = <<0, Grid \div 2>>
    BY <1>7, <1>9, <2>1
  <2>3. ASSUME NEW k \in 1 .. Halvings
        PROVE  g[k] = Halve(flows, g[k - 1]) /\ h[k] = Halve(flows, h[k - 1])
    BY <1>7, <1>9, <2>1
  <2>4. \A k \in 1 .. Halvings : g[k - 1] = h[k - 1] => g[k] = h[k]
    BY <2>3
  <2> QED
    BY <2>2, <2>4 DEF StepAlike
<1>11. g[Halvings] = h[Halvings]
  BY <1>1, <1>10, RecursionUnique, Zenon
<1> QED
  BY <1>6, <1>9, <1>11

(* The grid is wide enough for every midpoint.                               *)
LEMMA WidthFits ==
  /\ Width \in Nat \ {0}
  /\ Grid \div 2 = Width * Power(2, Halvings)
<1> DEFINE w == Width  p == Power(2, Halvings)  q == Power(2, Halvings + 1)
<1>1. Halvings \in Nat /\ Halvings + 1 \in Nat /\ Grid \in Nat /\ Grid > 0 /\ Grid % q = 0
  BY GridAssumption
<1>2. p \in Nat /\ q \in Nat /\ q > 0 /\ q = 2 * p
  <2>1. p \in Nat /\ q \in Nat \ {0}
    <3>1. 2 \in Nat /\ 0 < 2 /\ 2 <= 2
      OBVIOUS
    <3> QED
      BY <1>1, <3>1, PowerOrder
  <2>2. q = 2 * p
    BY <1>1, PowerStep
  <2> HIDE DEF p, q
  <2> QED
    BY <2>1, <2>2
<1>3. w = Grid \div q
  BY DEF Width
<1> HIDE DEF p, q, w
<1>4. w \in Nat /\ Grid = q * w
  BY <1>1, <1>2, <1>3
<1>5. Grid = 2 * (w * p)
  BY <1>2, <1>4
<1>6. w * p \in Nat
  BY <1>2, <1>4
<1>7. w # 0
  BY <1>1, <1>2, <1>4
<1> QED
  BY <1>4, <1>5, <1>6, <1>7 DEF p, w

(* The interval halves, and keeps the sign of the value at its bounds.       *)
LEMMA Bracket ==
  ASSUME NEW flows \in Seq(Int), Npv(flows, 0) > 0, NEW h, IsSearch(h, flows)
  PROVE  \A k \in 0 .. Halvings :
            /\ h[k][2] - h[k][1] = Width * Power(2, Halvings - k)
            /\ h[k][2] <= Grid \div 2
            /\ Npv(flows, h[k][1]) > 0
            /\ h[k][2] = Grid \div 2 \/ Npv(flows, h[k][2]) <= 0
<1> DEFINE Kept(b, d) == /\ b[2] - b[1] = d /\ b[2] <= Grid \div 2
                         /\ Npv(flows, b[1]) > 0
                         /\ b[2] = Grid \div 2 \/ Npv(flows, b[2]) <= 0
           S == {k \in 0 .. Halvings : Kept(h[k], Width * Power(2, Halvings - k))}
<1>1. Halvings \in Nat /\ Grid \div 2 \in Nat
  BY GridAssumption
<1>2. 0 \in S
  <2>1. h[0][1] = 0 /\ h[0][2] = Grid \div 2 /\ Halvings - 0 = Halvings
    BY <1>1 DEF IsSearch
  <2> QED
    BY <1>1, <2>1, WidthFits
<1>3. ASSUME NEW k \in 0 .. Halvings - 1, k \in S PROVE k + 1 \in S
  <2> DEFINE m == Halvings - (k + 1)
             e == Width * Power(2, m)
             b == h[k]
             mid == (b[1] + b[2]) \div 2
  <2>1. /\ m \in Nat /\ m + 1 = Halvings - k /\ k \in 0 .. Halvings
        /\ k + 1 \in 1 .. Halvings /\ k + 1 \in 0 .. Halvings /\ (k + 1) - 1 = k
    BY <1>1
  <2>2. b \in Nat \X Nat /\ h[k + 1] = Halve(flows, b)
    BY <2>1 DEF IsSearch
  <2>3. e \in Nat /\ Width * Power(2, m + 1) = 2 * e
    <3>1. Power(2, m) \in Nat
      <4>1. 2 \in Nat /\ 0 < 2 /\ 2 <= 2
        OBVIOUS
      <4> QED
        BY <2>1, <4>1, PowerOrder
    <3>2. Power(2, m + 1) = 2 * Power(2, m)
      BY <2>1, PowerStep
    <3> DEFINE p == Power(2, m)
    <3> HIDE DEF p, m
    <3> QED
      BY <3>1, <3>2, WidthFits DEF p
  <2>4. Kept(b, 2 * e)
    BY <1>3, <2>1, <2>3
  <2>5. b[1] \in Nat /\ b[2] \in Nat /\ b[2] - b[1] = 2 * e
    BY <2>2, <2>4
  <2>6. mid \in Nat /\ mid - b[1] = e /\ b[2] - mid = e
    <3> DEFINE x == b[1]
    <3> HIDE DEF e, b
    <3>1. x \in Nat /\ b[2] = x + 2 * e /\ e \in Nat
      BY <2>3, <2>5
    <3>2. mid = (x + (x + 2 * e)) \div 2
      BY <3>1
    <3> HIDE DEF x, mid
    <3>3. mid = x + e
      BY <3>1, <3>2
    <3>4. mid \in Nat /\ mid - x = e /\ b[2] - mid = e
      BY <3>1, <3>3
    <3> QED
      BY <3>4 DEF x
  <2>7. mid <= b[2]
    <3> HIDE DEF e, mid
    <3> QED
      BY <2>3, <2>5, <2>6
  <2>8. Npv(flows, mid) \in Int
    BY <2>6, NpvType
  <2>9. Halve(flows, b) = IF Npv(flows, mid) > 0 THEN <<mid, b[2]>> ELSE <<b[1], mid>>
    BY DEF Halve
  <2>10. Kept(h[k + 1], e)
    <3> HIDE DEF e, mid, b
    <3>1. CASE Npv(flows, mid) > 0
      <4>1. h[k + 1][1] = mid /\ h[k + 1][2] = b[2]
        BY <2>2, <2>9, <3>1
      <4> QED
        BY <2>4, <2>6, <3>1, <4>1
    <3>2. CASE ~(Npv(flows, mid) > 0)
      <4>1. h[k + 1][1] = b[1] /\ h[k + 1][2] = mid
        BY <2>2, <2>9, <3>2
      <4>2. Npv(flows, mid) <= 0
        BY <2>8, <3>2
      <4>3. mid <= Grid \div 2
        BY <1>1, <2>4, <2>5, <2>6, <2>7
      <4> QED
        BY <2>4, <2>6, <4>1, <4>2, <4>3
    <3> QED
      BY <3>1, <3>2
  <2> QED
    BY <2>1, <2>10
<1>4. 0 .. Halvings \subseteq S
  <2> HIDE DEF S
  <2> QED
    BY <1>1, <1>2, <1>3, InductionTo
<1> QED
  BY <1>4

(* Between which rates the cost is.                                          *)
LEMMA CostBetween ==
  ASSUME NEW flows \in Seq(Int), Npv(flows, 0) > 0
  PROVE  \E l, u \in Nat :
            /\ TwiceIrr(flows) = l + u /\ u = l + Width /\ u <= Grid \div 2
            /\ Npv(flows, l) > 0 /\ (u = Grid \div 2 \/ Npv(flows, u) <= 0)
<1>1. PICK h : /\ IsSearch(h, flows)
               /\ TwiceIrr(flows) = IF Npv(flows, 0) <= 0 THEN 0
                                    ELSE h[Halvings][1] + h[Halvings][2]
  BY Search
<1> DEFINE l == h[Halvings][1]
           u == h[Halvings][2]
<1>2. Halvings \in 0 .. Halvings /\ Halvings - Halvings = 0
  BY GridAssumption
<1>3. l \in Nat /\ u \in Nat
  BY <1>1, <1>2 DEF IsSearch
<1>4. Npv(flows, 0) \in Int
  BY NpvType
<1>5. TwiceIrr(flows) = l + u
  BY <1>1, <1>4
<1>6. /\ u - l = Width * Power(2, 0) /\ u <= Grid \div 2
      /\ Npv(flows, l) > 0 /\ (u = Grid \div 2 \/ Npv(flows, u) <= 0)
  BY <1>1, <1>2, Bracket
<1>7. Power(2, 0) = 1 /\ Width \in Nat
  BY PowerZero, WidthFits
<1> HIDE DEF l, u
<1>8. u = l + Width
  BY <1>3, <1>6, <1>7
<1> QED
  BY <1>3, <1>5, <1>6, <1>8

(* The midpoint lies between the bounds.                                     *)
LEMMA Midpoint ==
  ASSUME NEW x \in Nat, NEW y \in Nat, x <= y
  PROVE  (x + y) \div 2 \in Nat /\ x <= (x + y) \div 2 /\ (x + y) \div 2 <= y
  OBVIOUS

(* What is worth more at every rate costs more.                              *)
LEMMA CostOrder ==
  ASSUME NEW f \in Seq(Int), NEW g \in Seq(Int),
         \A r \in Nat : Npv(f, r) > 0 => Npv(g, r) > 0
  PROVE  TwiceIrr(f) \in Nat /\ TwiceIrr(g) \in Nat /\ TwiceIrr(f) <= TwiceIrr(g)
<1>1. PICK h : /\ IsSearch(h, f)
               /\ TwiceIrr(f) = IF Npv(f, 0) <= 0 THEN 0 ELSE h[Halvings][1] + h[Halvings][2]
  BY Search
<1>2. PICK i : /\ IsSearch(i, g)
               /\ TwiceIrr(g) = IF Npv(g, 0) <= 0 THEN 0 ELSE i[Halvings][1] + i[Halvings][2]
  BY Search
<1> DEFINE Below(a, b) == /\ a[1] <= a[2] /\ b[1] <= b[2]
                          /\ a = b \/ a[2] <= b[1]
           S == {k \in 0 .. Halvings : Below(h[k], i[k])}
<1>3. Halvings \in Nat /\ Halvings \in 0 .. Halvings /\ Grid \div 2 \in Nat
  BY GridAssumption
<1>4. 0 \in S
  <2>1. h[0] = <<0, Grid \div 2>> /\ i[0] = <<0, Grid \div 2>>
    BY <1>1, <1>2 DEF IsSearch
  <2>2. h[0] = i[0] /\ h[0][1] = 0 /\ h[0][2] = Grid \div 2
    BY <2>1
  <2>3. 0 <= Grid \div 2 /\ 0 \in 0 .. Halvings
    BY <1>3
  <2> QED
    BY <2>2, <2>3
<1>5. ASSUME NEW k \in 0 .. Halvings - 1, k \in S PROVE k + 1 \in S
  <2> DEFINE a == h[k]  b == i[k]
             m == (a[1] + a[2]) \div 2
             n == (b[1] + b[2]) \div 2
  <2>1. /\ k \in 0 .. Halvings /\ k + 1 \in 1 .. Halvings /\ k + 1 \in 0 .. Halvings
        /\ (k + 1) - 1 = k
    BY <1>3
  <2>2. /\ a \in Nat \X Nat /\ h[k + 1] = Halve(f, a)
        /\ b \in Nat \X Nat /\ i[k + 1] = Halve(g, b)
    BY <1>1, <1>2, <2>1 DEF IsSearch
  <2>3. Halve(f, a) = IF Npv(f, m) > 0 THEN <<m, a[2]>> ELSE <<a[1], m>>
    BY DEF Halve
  <2>4. Halve(g, b) = IF Npv(g, n) > 0 THEN <<n, b[2]>> ELSE <<b[1], n>>
    BY DEF Halve
  <2>5. Below(a, b)
    BY <1>5
  <2>6. /\ a[1] \in Nat /\ a[2] \in Nat /\ b[1] \in Nat /\ b[2] \in Nat
        /\ m \in Nat /\ a[1] <= m /\ m <= a[2]
        /\ n \in Nat /\ b[1] <= n /\ n <= b[2]
    <3>1. a[1] \in Nat /\ a[2] \in Nat /\ b[1] \in Nat /\ b[2] \in Nat
      BY <2>2
    <3>2. a[1] <= a[2] /\ b[1] <= b[2]
      BY <2>5
    <3> QED
      BY <3>1, <3>2, Midpoint
  <2>7. a = b => m = n /\ (Npv(f, m) > 0 => Npv(g, n) > 0)
    BY <2>6
  <2> HIDE DEF a, b, m, n
  <2>8. Below(h[k + 1], i[k + 1])
    <3>1. CASE Npv(f, m) > 0 /\ Npv(g, n) > 0
      <4>1. h[k + 1] = <<m, a[2]>> /\ i[k + 1] = <<n, b[2]>>
        BY <2>2, <2>3, <2>4, <3>1
      <4> QED
        BY <2>5, <2>6, <2>7, <4>1
    <3>2. CASE Npv(f, m) > 0 /\ ~(Npv(g, n) > 0)
      <4>1. h[k + 1] = <<m, a[2]>> /\ i[k + 1] = <<b[1], n>>
        BY <2>2, <2>3, <2>4, <3>2
      <4> QED
        BY <2>5, <2>6, <2>7, <3>2, <4>1
    <3>3. CASE ~(Npv(f, m) > 0) /\ Npv(g, n) > 0
      <4>1. h[k + 1] = <<a[1], m>> /\ i[k + 1] = <<n, b[2]>>
        BY <2>2, <2>3, <2>4, <3>3
      <4> QED
        BY <2>5, <2>6, <2>7, <4>1
    <3>4. CASE ~(Npv(f, m) > 0) /\ ~(Npv(g, n) > 0)
      <4>1. h[k + 1] = <<a[1], m>> /\ i[k + 1] = <<b[1], n>>
        BY <2>2, <2>3, <2>4, <3>4
      <4> QED
        BY <2>5, <2>6, <2>7, <4>1
    <3> QED
      BY <3>1, <3>2, <3>3, <3>4
  <2> QED
    BY <2>1, <2>8
<1>6. Halvings \in S
  <2>1. 0 .. Halvings \subseteq S
    <3> HIDE DEF S
    <3> QED
      BY <1>3, <1>4, <1>5, InductionTo
  <2> QED
    BY <1>3, <2>1
<1> DEFINE a == h[Halvings]  b == i[Halvings]
<1>7. a[1] \in Nat /\ a[2] \in Nat /\ b[1] \in Nat /\ b[2] \in Nat /\ Below(a, b)
  BY <1>1, <1>2, <1>3, <1>6 DEF IsSearch
<1>8. a[1] + a[2] <= b[1] + b[2] /\ a[1] + a[2] \in Nat /\ b[1] + b[2] \in Nat
  <2> HIDE DEF a, b
  <2>1. a[1] <= a[2] /\ b[1] <= b[2]
    BY <1>7
  <2>2. CASE a = b
    BY <1>7, <2>2
  <2>3. CASE a[2] <= b[1]
    BY <1>7, <2>1, <2>3
  <2> QED
    BY <1>7, <2>2, <2>3
<1>9. Npv(f, 0) \in Int /\ Npv(g, 0) \in Int /\ (Npv(f, 0) > 0 => Npv(g, 0) > 0)
  BY NpvType
<1> HIDE DEF a, b
<1>10. TwiceIrr(f) = IF Npv(f, 0) <= 0 THEN 0 ELSE a[1] + a[2]
  BY <1>1 DEF a
<1>11. TwiceIrr(g) = IF Npv(g, 0) <= 0 THEN 0 ELSE b[1] + b[2]
  BY <1>2 DEF b
<1> QED
  BY <1>8, <1>9, <1>10, <1>11

-----------------------------------------------------------------------------
(* The two schedules.                                                        *)

Ones(n) == [k \in 1 .. n |-> 1]

(* An annuity of ones.                                                       *)
LEMMA OnesType ==
  ASSUME NEW n \in Nat \ {0}
  PROVE  /\ Ones(n) \in Seq(Int) /\ Len(Ones(n)) = n /\ \A k \in 1 .. n : Ones(n)[k] = 1
         /\ PaidBack(Ones(n))
  BY DEF Ones, PaidBack

(* The present value of an annuity of ones.                                  *)
LEMMA OnesWorth ==
  ASSUME NEW n \in Nat \ {0}, NEW r \in Nat
  PROVE  Npv(Ones(n), r) \in Nat \ {0}
<1>1. PICK t : IsTotal(t, Ones(n), r) /\ Npv(Ones(n), r) = t[n]
  <2>1. Ones(n) \in Seq(Int) /\ Len(Ones(n)) = n
    BY OnesType
  <2>2. \E t : IsTotal(t, Ones(n), r) /\ Npv(Ones(n), r) = t[Len(Ones(n))]
    BY <2>1, NpvTotal
  <2> QED
    BY <2>1, <2>2
<1> DEFINE S == {i \in 0 .. n : t[i] \in Nat /\ (i > 0 => t[i] > 0)}
<1>2. 0 \in S
  BY <1>1 DEF IsTotal
<1>3. ASSUME NEW i \in 0 .. n - 1, i \in S PROVE i + 1 \in S
  <2> DEFINE x == t[i]  c == Grid + r  p == Power(Grid, i)
  <2>1. i + 1 \in 1 .. n /\ (i + 1) - 1 = i /\ i + 1 \in 0 .. n /\ i \in Nat
    OBVIOUS
  <2>2. t[i + 1] = x * c + 1 * p
    BY <1>1, <2>1, OnesType DEF IsTotal
  <2>3. p \in Nat \ {0} /\ c \in Nat /\ x \in Nat
    BY <1>3, <2>1, GridPower, GridAssumption
  <2> HIDE DEF x, c, p
  <2>4. x * c \in Nat
    BY <2>3
  <2>5. t[i + 1] \in Nat /\ t[i + 1] > 0
    BY <2>2, <2>3, <2>4
  <2> QED
    BY <2>1, <2>5
<1>4. 0 .. n \subseteq S
  <2> HIDE DEF S
  <2> QED
    BY <1>2, <1>3, InductionTo
<1>5. n \in S
  BY <1>4
<1> QED
  BY <1>1, <1>5

(* An annuity of one is worth less the higher the rate.                      *)
LEMMA AnnuityOrder ==
  ASSUME NEW n \in Nat \ {0}, NEW r \in Nat, NEW s \in Nat, r <= s
  PROVE  Npv(Ones(n), s) * Power(Grid + r, n) <= Npv(Ones(n), r) * Power(Grid + s, n)
<1> DEFINE x == Npv(Ones(n), s)  y == Npv(Ones(n), r)
           p == Power(Grid + r, n - 1)  q == Power(Grid + s, n - 1)
           a == Grid + r  b == Grid + s
<1>1. x \in Nat /\ y \in Nat
  BY OnesWorth
<1>2. n - 1 \in Nat /\ (n - 1) + 1 = n /\ a \in Nat /\ b \in Nat /\ a <= b
  BY GridAssumption
<1>3. p \in Nat /\ q \in Nat
  BY <1>2, GridPower
<1>4. x * p <= y * q
  <2>1. PaidBack(Ones(n)) /\ Len(Ones(n)) = n
    BY OnesType
  <2>2. Npv(Ones(n), s) * Power(Grid + r, Len(Ones(n)) - 1)
          <= Npv(Ones(n), r) * Power(Grid + s, Len(Ones(n)) - 1)
    BY <2>1, Discounting
  <2> QED
    BY <2>1, <2>2
<1>5. Power(a, n) = a * p /\ Power(b, n) = b * q
  <2>1. a \in Int /\ b \in Int
    BY <1>2
  <2> QED
    BY <1>2, <2>1, PowerStep
<1> HIDE DEF x, y, p, q, a, b
<1>6. x * p \in Nat /\ y * q \in Nat
  BY <1>1, <1>3
<1>7. (x * p) * a <= (y * q) * b
  BY <1>2, <1>4, <1>6, Products
<1>8. x * (a * p) = (x * p) * a /\ y * (b * q) = (y * q) * b
  BY <1>1, <1>2, <1>3
<1> QED
  BY <1>5, <1>7, <1>8 DEF x, y, a, b

(* A schedule of n payments, scaled.                                         *)
IsSchedule(s, n) ==
    /\ s.scale \in Nat \ {0}
    /\ s.payments \in Seq(Int) /\ Len(s.payments) = n
    /\ \A k \in 1 .. n : s.payments[k] \in Nat \ {0}

(* What a schedule of equal installments is, and one of equal parts.         *)
Installments(s, principal, rate, n) ==
    /\ IsSchedule(s, n)
    /\ s.scale = Grid * Npv(Ones(n), rate)
    /\ \A k \in 1 .. n : s.payments[k] = principal * Power(Grid + rate, n)

Parts(s, principal, rate, n) ==
    /\ IsSchedule(s, n)
    /\ s.scale = n * Grid
    /\ \A k \in 1 .. n :
          s.payments[k] = principal * Grid + (n - k + 1) * principal * rate

(* Equal installments are such a schedule.                                   *)
LEMMA InstallmentSchedule ==
  ASSUME NEW principal \in Nat \ {0}, NEW rate \in Nat, NEW n \in Nat \ {0}
  PROVE  Installments(EqualInstallment(principal, rate, n), principal, rate, n)
<1> DEFINE s == EqualInstallment(principal, rate, n)
           w == Npv(Ones(n), rate)
           pay == principal * Power(Grid + rate, n)
<1>1. s.scale = Grid * w /\ s.payments = [k \in 1 .. n |-> pay]
  BY DEF EqualInstallment, Ones
<1>2. w \in Nat \ {0} /\ Grid \in Nat \ {0}
  BY OnesWorth, GridAssumption
<1>3. pay \in Nat \ {0}
  <2> DEFINE p == Power(Grid + rate, n)
  <2>1. p \in Nat \ {0}
    BY GridPower
  <2> HIDE DEF p
  <2>2. principal * p \in Nat \ {0}
    BY <2>1, Products
  <2> QED
    BY <2>2 DEF p
<1> HIDE DEF s, w, pay
<1>4. s.scale \in Nat \ {0}
  BY <1>1, <1>2, Products
<1>5. s.payments \in Seq(Int) /\ Len(s.payments) = n /\ \A k \in 1 .. n : s.payments[k] = pay
  BY <1>1, <1>3
<1>6. IsSchedule(s, n)
  BY <1>3, <1>4, <1>5 DEF IsSchedule
<1> QED
  BY <1>1, <1>5, <1>6 DEF Installments, s, w, pay

(* So are equal parts of the principal.                                      *)
LEMMA PrincipalSchedule ==
  ASSUME NEW principal \in Nat \ {0}, NEW rate \in Nat, NEW n \in Nat \ {0}
  PROVE  Parts(EqualPrincipal(principal, rate, n), principal, rate, n)
<1> DEFINE s == EqualPrincipal(principal, rate, n)
           pay(k) == principal * Grid + (n - k + 1) * principal * rate
<1>1. s.scale = n * Grid /\ s.payments = [k \in 1 .. n |-> pay(k)]
  BY DEF EqualPrincipal
<1>2. Grid \in Nat \ {0}
  BY GridAssumption
<1>3. ASSUME NEW k \in 1 .. n PROVE pay(k) \in Nat \ {0}
  <2> DEFINE m == n - k + 1
  <2>1. m \in Nat
    OBVIOUS
  <2> HIDE DEF m
  <2>2. m * principal \in Nat
    BY <2>1
  <2>3. m * principal * rate \in Nat
    BY <2>2
  <2>4. principal * Grid \in Nat /\ principal * Grid > 0
    BY <1>2, Products
  <2> QED
    BY <2>3, <2>4 DEF m
<1> HIDE DEF s, pay
<1>4. s.scale \in Nat \ {0}
  BY <1>1, <1>2, Products
<1>5. /\ s.payments \in Seq(Int) /\ Len(s.payments) = n
      /\ \A k \in 1 .. n : s.payments[k] = pay(k)
  BY <1>1, <1>3
<1>6. IsSchedule(s, n)
  BY <1>3, <1>4, <1>5 DEF IsSchedule
<1> QED
  BY <1>1, <1>5, <1>6 DEF Parts, s, pay

(* A loan that EffectiveCostLimit accepts.                                   *)
Priced(loan) ==
    /\ loan.loan_amount \in Nat \ {0} /\ loan.loan_term \in Nat \ {0}
    /\ loan.loan_fees \in 0 .. loan.loan_amount - 1
    /\ loan.interest_rate \in Nat /\ loan.overdue_interest_rate \in Nat
    /\ loan.repayment_method \in Supported

ScheduleOf(loan) ==
    Schedule(loan.repayment_method, loan.loan_amount, loan.interest_rate, loan.loan_term)

(* The schedule of such a loan fits its term.                                *)
LEMMA ScheduleFits ==
  ASSUME NEW loan, Priced(loan)
  PROVE  IsSchedule(ScheduleOf(loan), loan.loan_term)
<1> DEFINE a == loan.loan_amount  r == loan.interest_rate  n == loan.loan_term
           s == ScheduleOf(loan)
<1>1. a \in Nat \ {0} /\ r \in Nat /\ n \in Nat \ {0}
  BY DEF Priced
<1>2. s = EqualInstallment(a, r, n) \/ s = EqualPrincipal(a, r, n)
  BY DEF ScheduleOf, Schedule
<1> HIDE DEF a, r, n, s
<1>3. Installments(EqualInstallment(a, r, n), a, r, n) /\ Parts(EqualPrincipal(a, r, n), a, r, n)
  BY <1>1, InstallmentSchedule, PrincipalSchedule, Zenon
<1>4. IsSchedule(s, n)
  BY <1>2, <1>3 DEF Installments, Parts
<1> QED
  BY <1>4 DEF n, s

(* Its flows are a payout and what is paid back.                             *)
LEMMA Flows ==
  ASSUME NEW loan, Priced(loan), NEW s, IsSchedule(s, loan.loan_term)
  PROVE  LET n == loan.loan_term
             f == CashFlows(loan, s)
         IN  /\ f \in Seq(Int) /\ Len(f) = n + 1
             /\ f[1] = -(loan.loan_amount - loan.loan_fees) * s.scale
             /\ \A k \in 1 .. n : f[k + 1] = s.payments[k]
             /\ PaidBack(f) /\ PaidBackEach(f)
<1> DEFINE n == loan.loan_term
           f == CashFlows(loan, s)
           x == -(loan.loan_amount - loan.loan_fees) * s.scale
           pays == s.payments
<1>1. /\ n \in Nat \ {0} /\ pays \in Seq(Int) /\ Len(pays) = n
      /\ \A k \in 1 .. n : pays[k] \in Nat \ {0}
  BY DEF Priced, IsSchedule
<1>2. x \in Int
  <2>1. loan.loan_amount \in Int /\ loan.loan_fees \in Int /\ s.scale \in Int
    BY DEF Priced, IsSchedule
  <2> QED
    BY <2>1
<1>3. f = <<x>> \o pays
  BY DEF CashFlows
<1> HIDE DEF n, f, x, pays
<1>4. f \in Seq(Int) /\ Len(f) = n + 1 /\ f[1] = x
  BY <1>1, <1>2, <1>3
<1>5. ASSUME NEW k \in 1 .. n PROVE f[k + 1] = pays[k]
  BY <1>1, <1>2, <1>3
<1>6. ASSUME NEW i \in 2 .. n + 1 PROVE f[i] > 0
  <2>1. i - 1 \in 1 .. n /\ (i - 1) + 1 = i
    BY <1>1
  <2>2. f[i] = pays[i - 1]
    BY <1>5, <2>1
  <2> QED
    BY <1>1, <2>1, <2>2
<1>7. ASSUME NEW i \in 2 .. n + 1 PROVE f[i] >= 0
  <2>1. f[i] \in Int
    BY <1>1, <1>4
  <2> QED
    BY <1>6, <2>1
<1>8. PaidBack(f) /\ PaidBackEach(f)
  BY <1>1, <1>4, <1>6, <1>7 DEF PaidBack, PaidBackEach
<1> QED
  BY <1>4, <1>5, <1>8 DEF n, f, x, pays

-----------------------------------------------------------------------------
(* Without fees, a loan costs its rate.                                      *)

(* One more installment in the running total.                                *)
LEMMA InstallmentStep ==
  ASSUME NEW u \in Int, NEW t \in Int, NEW z \in Int, NEW c \in Int, NEW p \in Int,
         NEW pay \in Int, NEW grid \in Int, NEW g \in Int,
         u = pay * grid * t - z * p
  PROVE  u * c + pay * (grid * g) = pay * grid * (t * c + 1 * g) - z * (c * p)
<1>1. u * c = pay * grid * (t * c) - z * (c * p)
  OBVIOUS
<1>2. pay * grid * (t * c + 1 * g) = pay * grid * (t * c) + pay * (grid * g)
  OBVIOUS
<1> QED
  BY <1>1, <1>2

(* The flows of a loan without fees that a schedule pays back.               *)
Repays(f, principal, s, n) ==
    /\ f \in Seq(Int) /\ Len(f) = n + 1
    /\ f[1] = -(principal * s.scale)
    /\ \A k \in 1 .. n : f[k + 1] = s.payments[k]

(* At the rate of equal installments, their present value is zero.           *)
LEMMA InstallmentAtRate ==
  ASSUME NEW principal \in Nat \ {0}, NEW rate \in Nat, NEW n \in Nat \ {0}, NEW f, NEW s,
         Installments(s, principal, rate, n), Repays(f, principal, s, n)
  PROVE  Npv(f, rate) = 0
<1> DEFINE c == Grid + rate
           w == Npv(Ones(n), rate)
           pay == principal * Power(c, n)
           z == principal * (Grid * w)
<1>0. f \in Seq(Int) /\ Len(f) = n + 1
  BY DEF Repays
<1>1. PICK u : IsTotal(u, f, rate) /\ Npv(f, rate) = u[Len(f)]
  BY <1>0, NpvTotal
<1>2. PICK t : IsTotal(t, Ones(n), rate) /\ w = t[n]
  <2>1. Ones(n) \in Seq(Int) /\ Len(Ones(n)) = n
    BY OnesType
  <2>2. \E t : IsTotal(t, Ones(n), rate) /\ w = t[Len(Ones(n))]
    BY <2>1, NpvTotal
  <2> QED
    BY <2>1, <2>2
<1>3. f[1] = -z /\ \A k \in 1 .. n : f[k + 1] = pay
  BY DEF Installments, Repays
<1>4. Grid \in Int /\ c \in Int /\ w \in Int /\ Power(c, n) \in Int
  <2>1. Grid \in Int /\ c \in Int
    BY GridAssumption
  <2>2. w \in Int
    BY OnesWorth
  <2>3. Power(c, n) \in Int
    BY GridPower
  <2> QED
    BY <2>1, <2>2, <2>3
<1>5. pay \in Int /\ z \in Int
  <2>1. Grid * w \in Int
    BY <1>4
  <2> QED
    BY <1>4, <2>1
<1> HIDE DEF pay, z, w
<1> DEFINE S == {i \in 0 .. n : u[i + 1] = pay * Grid * t[i] - z * Power(c, i)}
<1>6. 0 \in S
  <2>1. 1 \in 1 .. Len(f) /\ 1 - 1 = 0 /\ 0 + 1 = 1
    BY <1>0
  <2>2. u[1] = u[0] * c + f[1] * Power(Grid, 0) /\ u[0] = 0 /\ t[0] = 0
    BY <1>1, <1>2, <2>1 DEF IsTotal
  <2>3. Power(Grid, 0) = 1 /\ Power(c, 0) = 1
    BY <1>4, PowerZero
  <2>4. pay * Grid \in Int
    BY <1>4, <1>5
  <2> HIDE DEF c
  <2> QED
    BY <1>3, <1>4, <1>5, <2>1, <2>2, <2>3, <2>4
<1>7. ASSUME NEW i \in 0 .. n - 1, i \in S PROVE i + 1 \in S
  <2> DEFINE g == Power(Grid, i)  p == Power(c, i)
  <2>1. /\ i \in Nat /\ i + 1 \in 1 .. n /\ (i + 1) - 1 = i /\ i + 1 \in 0 .. n
        /\ i \in 0 .. n /\ (i + 1) + 1 \in 1 .. Len(f) /\ ((i + 1) + 1) - 1 = i + 1
        /\ i + 1 \in 0 .. Len(f)
    BY <1>0
  <2>2. u[(i + 1) + 1] = u[i + 1] * c + pay * Power(Grid, i + 1)
    BY <1>1, <1>3, <2>1 DEF IsTotal
  <2>3. t[i + 1] = t[i] * c + 1 * g
    BY <1>2, <2>1, OnesType DEF IsTotal
  <2>4. g \in Int /\ p \in Int /\ Power(Grid, i + 1) = Grid * g /\ Power(c, i + 1) = c * p
    BY <1>4, <2>1, PowerStep
  <2>5. u[i + 1] \in Int /\ t[i] \in Int
    BY <1>1, <1>2, <2>1, OnesType DEF IsTotal
  <2>6. u[i + 1] = pay * Grid * t[i] - z * p
    BY <1>7
  <2> HIDE DEF c, g, p
  <2>7. u[i + 1] * c + pay * (Grid * g) = pay * Grid * (t[i] * c + 1 * g) - z * (c * p)
    <3> DEFINE x == u[i + 1]  y == t[i]
    <3>1. x \in Int /\ y \in Int /\ x = pay * Grid * y - z * p
      BY <2>5, <2>6
    <3>2. Grid \in Int /\ c \in Int
      BY <1>4 DEF c
    <3> HIDE DEF x, y
    <3>3. x * c + pay * (Grid * g) = pay * Grid * (y * c + 1 * g) - z * (c * p)
      BY <1>5, <2>4, <3>1, <3>2, InstallmentStep
    <3> QED
      BY <3>3 DEF x, y
  <2>8. u[(i + 1) + 1] = pay * Grid * t[i + 1] - z * Power(c, i + 1)
    BY <2>2, <2>3, <2>4, <2>7
  <2> QED
    BY <2>1, <2>8
<1>8. n \in S
  <2>1. 0 .. n \subseteq S
    <3> HIDE DEF S
    <3> QED
      BY <1>6, <1>7, InductionTo
  <2> QED
    BY <2>1
<1>9. u[n + 1] = pay * Grid * w - z * Power(c, n)
  BY <1>2, <1>8
<1> DEFINE p == Power(c, n)
<1>10. pay * Grid * w - z * p = 0
  <2>1. pay = principal * p /\ z = principal * (Grid * w) /\ p \in Int
    BY <1>4 DEF pay, z
  <2> HIDE DEF c, p
  <2> QED
    BY <1>4, <2>1
<1> QED
  BY <1>0, <1>1, <1>9, <1>10

(* One more part of the principal in the running total.                      *)
LEMMA PrincipalStep ==
  ASSUME NEW u \in Int, NEW principal \in Int, NEW rate \in Int, NEW grid \in Int,
         NEW g \in Int, NEW m \in Int, u = -(principal * m) * (grid * g)
  PROVE  u * (grid + rate) + (principal * grid + m * principal * rate) * (grid * g)
            = -(principal * (m - 1)) * (grid * (grid * g))
<1> DEFINE a == principal * (grid * (grid * g))  b == m * (principal * (rate * (grid * g)))
<1>1. u * (grid + rate) = -(m * a) - b
  OBVIOUS
<1>2. (principal * grid + m * principal * rate) * (grid * g) = a + b
  OBVIOUS
<1>3. -(principal * (m - 1)) * (grid * (grid * g)) = -((m - 1) * a)
  OBVIOUS
<1>4. a \in Int /\ b \in Int
  <2>1. grid * g \in Int
    OBVIOUS
  <2>2. grid * (grid * g) \in Int /\ rate * (grid * g) \in Int
    BY <2>1
  <2>3. principal * (rate * (grid * g)) \in Int
    BY <2>2
  <2> QED
    BY <2>2, <2>3
<1> HIDE DEF a, b
<1> QED
  BY <1>1, <1>2, <1>3, <1>4

(* The same for a schedule of equal parts of the principal.                  *)
LEMMA PrincipalAtRate ==
  ASSUME NEW principal \in Nat \ {0}, NEW rate \in Nat, NEW n \in Nat \ {0}, NEW f, NEW s,
         Parts(s, principal, rate, n), Repays(f, principal, s, n)
  PROVE  Npv(f, rate) = 0
<1>0. f \in Seq(Int) /\ Len(f) = n + 1
  BY DEF Repays
<1>1. PICK u : IsTotal(u, f, rate) /\ Npv(f, rate) = u[Len(f)]
  BY <1>0, NpvTotal
<1>2. /\ f[1] = -(principal * (n * Grid))
      /\ \A k \in 1 .. n : f[k + 1] = principal * Grid + (n - k + 1) * principal * rate
  BY DEF Parts, Repays
<1>3. Grid \in Int
  BY GridAssumption
<1> DEFINE S == {i \in 0 .. n :
                    u[i + 1] = -(principal * (n - i)) * (Grid * Power(Grid, i))}
<1>4. 0 \in S
  <2>1. 1 \in 1 .. Len(f) /\ 1 - 1 = 0 /\ 0 + 1 = 1 /\ n - 0 = n
    BY <1>0
  <2>2. u[1] = u[0] * (Grid + rate) + f[1] * Power(Grid, 0) /\ u[0] = 0
    BY <1>1, <2>1 DEF IsTotal
  <2>3. Power(Grid, 0) = 1
    BY <1>3, PowerZero
  <2>4. n * Grid \in Int
    BY <1>3
  <2>5. u[1] = -(principal * (n * Grid))
    BY <1>2, <1>3, <2>2, <2>3, <2>4
  <2>6. -(principal * (n * Grid)) = -(principal * n) * (Grid * 1)
    BY <1>3
  <2> QED
    BY <2>1, <2>3, <2>5, <2>6
<1>5. ASSUME NEW i \in 0 .. n - 1, i \in S PROVE i + 1 \in S
  <2> DEFINE g == Power(Grid, i)  m == n - i
  <2>1. /\ i \in Nat /\ i + 1 \in 1 .. n /\ i + 1 \in 0 .. n
        /\ (i + 1) + 1 \in 1 .. Len(f) /\ ((i + 1) + 1) - 1 = i + 1
        /\ i + 1 \in 0 .. Len(f) /\ n - (i + 1) + 1 = m /\ n - (i + 1) = m - 1 /\ m \in Int
    BY <1>0
  <2>2. u[(i + 1) + 1] = u[i + 1] * (Grid + rate) + f[(i + 1) + 1] * Power(Grid, i + 1)
    BY <1>1, <2>1 DEF IsTotal
  <2>3. f[(i + 1) + 1] = principal * Grid + m * principal * rate
    BY <1>2, <2>1
  <2>4. g \in Int /\ Power(Grid, i + 1) = Grid * g
    BY <1>3, <2>1, PowerStep
  <2>5. u[i + 1] \in Int
    BY <1>1, <2>1 DEF IsTotal
  <2>6. u[i + 1] = -(principal * m) * (Grid * g)
    BY <1>5
  <2> HIDE DEF g, m
  <2>7. u[i + 1] * (Grid + rate) + (principal * Grid + m * principal * rate) * (Grid * g)
            = -(principal * (m - 1)) * (Grid * (Grid * g))
    BY <1>3, <2>1, <2>4, <2>5, <2>6, PrincipalStep
  <2>8. u[(i + 1) + 1] = -(principal * (m - 1)) * (Grid * Power(Grid, i + 1))
    BY <2>2, <2>3, <2>4, <2>7
  <2> QED
    BY <2>1, <2>8
<1>6. n \in S
  <2>1. 0 .. n \subseteq S
    <3> HIDE DEF S
    <3> QED
      BY <1>4, <1>5, InductionTo
  <2> QED
    BY <2>1
<1>7. u[n + 1] = -(principal * 0) * (Grid * Power(Grid, n))
  BY <1>6
<1>8. Power(Grid, n) \in Int
  BY GridPower
<1>9. -(principal * 0) * (Grid * Power(Grid, n)) = 0
  <2> DEFINE p == Power(Grid, n)
  <2> HIDE DEF p
  <2>1. p \in Int
    BY <1>8 DEF p
  <2>2. Grid * p \in Int /\ principal * 0 = 0
    BY <1>3, <2>1
  <2> QED
    BY <2>2 DEF p
<1> QED
  BY <1>0, <1>1, <1>7, <1>9

(* The present value of a loan without fees is zero at its rate.             *)
LEMMA RateWorth ==
  ASSUME NEW loan, Priced(loan), loan.loan_fees = 0
  PROVE  Npv(FlowsOf(loan), loan.interest_rate) = 0
<1> DEFINE a == loan.loan_amount  r == loan.interest_rate  n == loan.loan_term
           f == FlowsOf(loan)
           s == ScheduleOf(loan)
<1>1. a \in Nat \ {0} /\ r \in Nat /\ n \in Nat \ {0}
  BY DEF Priced
<1>2. /\ f \in Seq(Int) /\ Len(f) = n + 1
      /\ f[1] = -(a - loan.loan_fees) * s.scale
      /\ \A k \in 1 .. n : f[k + 1] = s.payments[k]
  BY ScheduleFits, Flows DEF FlowsOf, ScheduleOf
<1>3. f[1] = -(a * s.scale)
  <2>1. a - loan.loan_fees = a
    BY <1>1
  <2> QED
    BY <1>2, <2>1
<1>4. CASE loan.repayment_method = "equal_installment"
  <2>1. s = EqualInstallment(a, r, n)
    BY <1>4 DEF ScheduleOf, Schedule
  <2> HIDE DEF a, r, n, f, s
  <2>2. Installments(s, a, r, n)
    BY <1>1, <2>1, InstallmentSchedule, Zenon
  <2>3. Repays(f, a, s, n)
    BY <1>2, <1>3 DEF Repays
  <2>4. Npv(f, r) = 0
    BY <1>1, <2>2, <2>3, InstallmentAtRate, Zenon
  <2> QED
    BY <2>4 DEF f, r
<1>5. CASE loan.repayment_method # "equal_installment"
  <2>1. s = EqualPrincipal(a, r, n)
    BY <1>5 DEF ScheduleOf, Schedule
  <2> HIDE DEF a, r, n, f, s
  <2>2. Parts(s, a, r, n)
    BY <1>1, <2>1, PrincipalSchedule, Zenon
  <2>3. Repays(f, a, s, n)
    BY <1>2, <1>3 DEF Repays
  <2>4. Npv(f, r) = 0
    BY <1>1, <2>2, <2>3, PrincipalAtRate, Zenon
  <2> QED
    BY <2>4 DEF f, r
<1> QED
  BY <1>4, <1>5

(* The flows of a loan that EffectiveCostLimit accepts.                      *)
LEMMA FlowsPaidBack ==
  ASSUME NEW loan, Priced(loan)
  PROVE  FlowsOf(loan) \in Seq(Int) /\ PaidBack(FlowsOf(loan)) /\ PaidBackEach(FlowsOf(loan))
  BY ScheduleFits, Flows DEF FlowsOf, ScheduleOf

(* Without fees the bisection finds the rate of the loan, up to its width.   *)
THEOREM CostOfLoanIsItsRate ==
  ASSUME NEW loan, Priced(loan), loan.loan_fees = 0, loan.interest_rate <= Grid \div 2
  PROVE  TwiceIrr(FlowsOf(loan)) - 2 * loan.interest_rate \in -Width .. Width
<1> DEFINE f == FlowsOf(loan)  z == loan.interest_rate  c == TwiceIrr(f)
<1>1. f \in Seq(Int) /\ PaidBackEach(f) /\ z \in Nat /\ Npv(f, z) = 0
  BY FlowsPaidBack, RateWorth DEF Priced
<1>2. \A r \in Nat : Npv(f, r) > 0 <=> r < z
  <2> HIDE DEF f, z
  <2> QED
    BY <1>1, WorthAroundRate
<1>3. Width \in Nat \ {0} /\ Grid \div 2 \in Nat
  BY WidthFits, GridAssumption
<1>4. CASE Npv(f, 0) > 0
  <2>1. \E l, u \in Nat :
            /\ c = l + u /\ u = l + Width /\ u <= Grid \div 2
            /\ Npv(f, l) > 0 /\ (u = Grid \div 2 \/ Npv(f, u) <= 0)
    <3> HIDE DEF f
    <3> QED
      BY <1>1, <1>4, CostBetween
  <2>2. PICK l \in Nat, u \in Nat :
            /\ c = l + u /\ u = l + Width /\ u <= Grid \div 2
            /\ Npv(f, l) > 0 /\ (u = Grid \div 2 \/ Npv(f, u) <= 0)
    BY <2>1
  <2>3. l < z
    BY <1>2, <2>2
  <2>4. z <= u
    <3>1. CASE u = Grid \div 2
      BY <3>1
    <3>2. CASE Npv(f, u) <= 0
      <4>1. Npv(f, u) \in Int
        <5> HIDE DEF f
        <5> QED
          BY <1>1, NpvType
      <4>2. ~(Npv(f, u) > 0)
        BY <3>2, <4>1
      <4>3. ~(u < z)
        BY <1>2, <4>2
      <4> QED
        BY <1>1, <4>3
    <3> QED
      BY <2>2, <3>1, <3>2
  <2> HIDE DEF c, z
  <2>5. c - 2 * z \in -Width .. Width
    BY <1>1, <1>3, <2>2, <2>3, <2>4
  <2> QED
    BY <2>5 DEF c, z
<1>5. CASE ~(Npv(f, 0) > 0)
  <2>1. z = 0
    BY <1>1, <1>2, <1>5
  <2>2. Npv(f, 0) <= 0
    <3>1. Npv(f, 0) \in Int
      <4> HIDE DEF f
      <4> QED
        BY <1>1, NpvType
    <3> QED
      BY <1>5, <3>1
  <2>3. c = 0
    BY <2>2 DEF TwiceIrr
  <2> HIDE DEF c, z
  <2>4. c - 2 * z \in -Width .. Width
    BY <1>3, <2>1, <2>3
  <2> QED
    BY <2>4 DEF c, z
<1> QED
  BY <1>4, <1>5

(* What the bisection says of a threshold is what the present value at the   *)
(* threshold says, up to its width.                                          *)
THEOREM CostAroundThreshold ==
  ASSUME NEW f, PaidBack(f), NEW t \in Nat
  PROVE  IF TwiceIrr(f) > 2 * t
         THEN t <= Width \/ Npv(f, t - Width) > 0
         ELSE t + Width > Grid \div 2 \/ Npv(f, t + Width) <= 0
<1> DEFINE c == TwiceIrr(f)
<1>1. f \in Seq(Int)
  BY DEF PaidBack
<1>2. Width \in Nat \ {0} /\ Grid \div 2 \in Nat
  BY WidthFits, GridAssumption
<1>3. \A r \in Nat : Npv(f, r) \in Int
  BY <1>1, NpvType
<1>4. CASE Npv(f, 0) > 0
  <2>1. PICK l \in Nat, u \in Nat :
            /\ c = l + u /\ u = l + Width /\ u <= Grid \div 2
            /\ Npv(f, l) > 0 /\ (u = Grid \div 2 \/ Npv(f, u) <= 0)
    BY <1>1, <1>4, CostBetween
  <2>2. ASSUME c > 2 * t, ~(t <= Width) PROVE Npv(f, t - Width) > 0
    <3>1. t - Width \in Nat /\ t - Width <= l
      <4> HIDE DEF c
      <4> QED
        BY <1>2, <2>1, <2>2
    <3> QED
      BY <2>1, <3>1, WorthAtLower
  <2>3. ASSUME ~(c > 2 * t), ~(t + Width > Grid \div 2) PROVE Npv(f, t + Width) <= 0
    <3>1. t + Width \in Nat /\ u <= t + Width /\ t + Width <= Grid \div 2
      <4> HIDE DEF c
      <4> QED
        BY <1>2, <2>1, <2>3
    <3>2. ASSUME Npv(f, t + Width) > 0 PROVE FALSE
      <4>1. Npv(f, u) > 0
        BY <3>1, <3>2, WorthAtLower
      <4>2. u = Grid \div 2
        BY <1>3, <2>1, <4>1
      <4> HIDE DEF c
      <4>3. t + Width = u
        BY <1>2, <3>1, <4>2
      <4>4. t = l
        BY <1>2, <2>1, <4>3
      <4> QED
        BY <1>2, <2>1, <2>3, <4>4
    <3> QED
      BY <1>3, <3>1, <3>2
  <2> QED
    BY <2>2, <2>3
<1>5. CASE ~(Npv(f, 0) > 0)
  <2>1. c = 0
    BY <1>3, <1>5 DEF TwiceIrr
  <2>2. ~(c > 2 * t)
    <3> HIDE DEF c
    <3> QED
      BY <2>1
  <2>3. t + Width \in Nat /\ 0 <= t + Width
    BY <1>2
  <2>4. ~(Npv(f, t + Width) > 0)
    BY <1>5, <2>3, WorthAtLower
  <2>5. Npv(f, t + Width) <= 0
    BY <1>3, <2>3, <2>4
  <2> QED
    BY <2>2, <2>5
<1> QED
  BY <1>4, <1>5

-----------------------------------------------------------------------------
(* A dearer loan costs more.                                                 *)

(* The scale of a schedule is positive.                                      *)
LEMMA ScaleIsWhole ==
  ASSUME NEW loan, Priced(loan)
  PROVE  \E x \in Nat \ {0} : /\ ScheduleOf(loan).scale = Grid * x
                              /\ ScheduleOf(loan).scale \div Grid = x
<1> DEFINE n == loan.loan_term  r == loan.interest_rate  a == loan.loan_amount
           s == ScheduleOf(loan)
<1>1. a \in Nat \ {0} /\ r \in Nat /\ n \in Nat \ {0} /\ Grid \in Nat \ {0}
  BY GridAssumption DEF Priced
<1>2. \E x \in Nat \ {0} : s.scale = Grid * x
  <2>1. CASE loan.repayment_method = "equal_installment"
    <3>1. s = EqualInstallment(a, r, n)
      BY <2>1 DEF ScheduleOf, Schedule
    <3> HIDE DEF a, r, n, s
    <3>2. Installments(s, a, r, n)
      BY <1>1, <3>1, InstallmentSchedule, Zenon
    <3>3. Npv(Ones(n), r) \in Nat \ {0}
      BY <1>1, OnesWorth
    <3> QED
      BY <3>2, <3>3 DEF Installments
  <2>2. CASE loan.repayment_method # "equal_installment"
    <3>1. s = EqualPrincipal(a, r, n)
      BY <2>2 DEF ScheduleOf, Schedule
    <3> HIDE DEF a, r, n, s
    <3>2. Parts(s, a, r, n)
      BY <1>1, <3>1, PrincipalSchedule, Zenon
    <3>3. n * Grid = Grid * n
      BY <1>1
    <3> QED
      BY <1>1, <3>2, <3>3 DEF Parts
  <2> QED
    BY <2>1, <2>2
<1>3. ASSUME NEW x \in Nat \ {0} PROVE (Grid * x) \div Grid = x
  BY <1>1
<1> QED
  BY <1>2, <1>3

(* Factors of a product may be swapped.                                      *)
LEMMA Swap ==
  ASSUME NEW p \in Int, NEW x \in Int, NEW y \in Int, NEW z \in Int
  PROVE  (p * x) * (y * z) = p * (y * (z * x))
  OBVIOUS

(* A higher rate means higher payments.                                      *)
LEMMA PaymentOrder ==
  ASSUME NEW a, NEW b, Priced(a), Priced(b), a.interest_rate <= b.interest_rate,
         a.loan_amount = b.loan_amount, a.loan_term = b.loan_term,
         a.repayment_method = b.repayment_method
  PROVE  \A k \in 1 .. a.loan_term :
            ScheduleOf(a).payments[k] * ScheduleOf(b).scale
                <= ScheduleOf(b).payments[k] * ScheduleOf(a).scale
<1> DEFINE p == a.loan_amount  n == a.loan_term  r == a.interest_rate  q == b.interest_rate
           s == ScheduleOf(a)  u == ScheduleOf(b)
<1>1. p \in Nat \ {0} /\ n \in Nat \ {0} /\ r \in Nat /\ q \in Nat /\ Grid \in Nat \ {0} /\ r <= q
  BY GridAssumption DEF Priced
<1>2. CASE a.repayment_method = "equal_installment"
  <2>1. s = EqualInstallment(p, r, n) /\ u = EqualInstallment(p, q, n)
    BY <1>2 DEF ScheduleOf, Schedule
  <2> HIDE DEF p, n, r, q, s, u
  <2> DEFINE v == Npv(Ones(n), r)  w == Npv(Ones(n), q)
             c == Power(Grid + r, n)  d == Power(Grid + q, n)
  <2>2. /\ s.scale = Grid * v /\ u.scale = Grid * w
        /\ \A k \in 1 .. n : s.payments[k] = p * c /\ u.payments[k] = p * d
    <3>1. Installments(s, p, r, n) /\ Installments(u, p, q, n)
      BY <1>1, <2>1, InstallmentSchedule, Zenon
    <3> QED
      BY <3>1 DEF Installments
  <2>3. w * c <= v * d
    BY <1>1, AnnuityOrder
  <2>4. v \in Nat /\ w \in Nat /\ c \in Nat /\ d \in Nat
    <3>1. v \in Nat \ {0} /\ w \in Nat \ {0}
      BY <1>1, OnesWorth
    <3>2. c \in Nat \ {0} /\ d \in Nat \ {0}
      BY <1>1, GridPower
    <3> QED
      BY <3>1, <3>2
  <2> HIDE DEF v, w, c, d
  <2>5. (p * c) * (Grid * w) <= (p * d) * (Grid * v)
    <3> DEFINE x == w * c  y == v * d
    <3>1. x \in Nat /\ y \in Nat /\ x <= y /\ p \in Nat /\ Grid \in Nat
      BY <1>1, <2>3, <2>4
    <3>2. (p * c) * (Grid * w) = p * (Grid * x) /\ (p * d) * (Grid * v) = p * (Grid * y)
      <4>1. p \in Int /\ c \in Int /\ d \in Int /\ v \in Int /\ w \in Int /\ Grid \in Int
        BY <1>1, <2>4
      <4> QED
        BY <4>1, Swap
    <3> HIDE DEF x, y
    <3>3. Grid * x <= Grid * y /\ Grid * x \in Nat /\ Grid * y \in Nat
      BY <3>1, Products
    <3>4. p * (Grid * x) <= p * (Grid * y)
      <4> DEFINE gx == Grid * x  gy == Grid * y
      <4> HIDE DEF gx, gy
      <4>1. p * gx <= p * gy
        BY <3>1, <3>3, Products DEF gx, gy
      <4> QED
        BY <4>1 DEF gx, gy
    <3> QED
      BY <3>2, <3>4
  <2>6. \A k \in 1 .. n : s.payments[k] * u.scale <= u.payments[k] * s.scale
    BY <2>2, <2>5
  <2> QED
    BY <2>6 DEF s, u, n
<1>3. CASE a.repayment_method # "equal_installment"
  <2>1. s = EqualPrincipal(p, r, n) /\ u = EqualPrincipal(p, q, n)
    BY <1>3 DEF ScheduleOf, Schedule
  <2> HIDE DEF p, n, r, q, s, u
  <2>2. /\ s.scale = n * Grid /\ u.scale = n * Grid
        /\ \A k \in 1 .. n : /\ s.payments[k] = p * Grid + (n - k + 1) * p * r
                             /\ u.payments[k] = p * Grid + (n - k + 1) * p * q
    <3>1. Parts(s, p, r, n) /\ Parts(u, p, q, n)
      BY <1>1, <2>1, PrincipalSchedule, Zenon
    <3> QED
      BY <3>1 DEF Parts
  <2>3. n * Grid \in Nat
    BY <1>1
  <2>4. ASSUME NEW k \in 1 .. n PROVE s.payments[k] * u.scale <= u.payments[k] * s.scale
    <3> DEFINE m == (n - k + 1) * p  g == n * Grid  x == p * Grid + m * r  y == p * Grid + m * q
    <3>1. m \in Nat /\ g \in Nat /\ p * Grid \in Nat
      <4>1. n - k + 1 \in Nat
        BY <1>1
      <4> QED
        BY <1>1, <2>3, <4>1
    <3>2. s.payments[k] = x /\ u.payments[k] = y /\ s.scale = g /\ u.scale = g
      BY <2>2
    <3> HIDE DEF m, g
    <3>3. m * r <= m * q /\ m * r \in Nat /\ m * q \in Nat
      BY <1>1, <3>1, Products
    <3>4. x \in Int /\ y \in Int /\ x <= y
      BY <3>1, <3>3
    <3> HIDE DEF x, y
    <3>5. x * g <= y * g
      BY <3>1, <3>4, Times
    <3> QED
      BY <3>2, <3>5
  <2> QED
    BY <2>4 DEF s, u, n
<1> QED
  BY <1>2, <1>3

(* A higher fee means a lower payout.                                        *)
LEMMA PayoutOrder ==
  ASSUME NEW p \in Int, NEW q \in Int, NEW x \in Nat, NEW y \in Nat, q <= p
  PROVE  (-p * x) * y <= (-q * y) * x
<1> DEFINE z == x * y
<1>1. z \in Nat
  OBVIOUS
<1>2. (-p * x) * y = -(p * z) /\ (-q * y) * x = -(q * z)
  OBVIOUS
<1> HIDE DEF z
<1>3. q * z <= p * z /\ q * z \in Int /\ p * z \in Int
  BY <1>1, Times
<1> QED
  BY <1>2, <1>3

(* A higher overdue rate means a higher overdue payment.                     *)
LEMMA OverdueOrder ==
  ASSUME NEW p \in Nat, NEW o \in Nat, NEW w \in Nat, NEW m \in Nat, o <= w,
         NEW x \in Nat, NEW y \in Nat, NEW grid \in Nat
  PROVE  (p * o * m * x) * (grid * y) <= (p * w * m * y) * (grid * x)
<1> DEFINE c == p * (m * (x * (grid * y)))
<1>1. c \in Nat
  <2>1. grid * y \in Nat
    OBVIOUS
  <2>2. x * (grid * y) \in Nat
    BY <2>1
  <2>3. m * (x * (grid * y)) \in Nat
    BY <2>2
  <2> QED
    BY <2>3
<1>2. (p * o * m * x) * (grid * y) = o * c /\ (p * w * m * y) * (grid * x) = w * c
  OBVIOUS
<1> HIDE DEF c
<1>3. o * c <= w * c
  BY <1>1, Times
<1> QED
  BY <1>2, <1>3

(* Two flows of which the second is at least the first, in other units.      *)
LEMMA HigherFlowsCostMore ==
  ASSUME NEW f \in Seq(Int), NEW g \in Seq(Int), Len(f) = Len(g),
         NEW x \in Nat \ {0}, NEW y \in Nat \ {0},
         \A i \in 1 .. Len(f) : f[i] * y <= g[i] * x
  PROVE  TwiceIrr(f) \in Nat /\ TwiceIrr(g) \in Nat /\ TwiceIrr(f) <= TwiceIrr(g)
<1>1. ASSUME NEW r \in Nat, Npv(f, r) > 0 PROVE Npv(g, r) > 0
  <2> DEFINE v == Npv(f, r)  w == Npv(g, r)
  <2>1. v * y <= w * x
    BY HigherFlows
  <2>2. v \in Int /\ w \in Int /\ v > 0
    BY <1>1, NpvType
  <2> HIDE DEF v, w
  <2>3. v * y > 0
    BY <2>2, Products
  <2>4. ASSUME w <= 0 PROVE w * x <= 0
    BY <2>2, <2>4, Times
  <2>5. v * y \in Int /\ w * x \in Int
    BY <2>2
  <2>6. w > 0
    <3> DEFINE vy == v * y  wx == w * x
    <3>1. vy <= wx /\ vy > 0 /\ vy \in Int /\ wx \in Int /\ (w <= 0 => wx <= 0)
      BY <2>1, <2>3, <2>4, <2>5
    <3> HIDE DEF vy, wx
    <3> QED
      BY <2>2, <3>1
  <2> QED
    BY <2>6 DEF w
<1> QED
  BY <1>1, CostOrder

(* A dearer loan has higher flows.                                           *)
LEMMA DearerFlows ==
  ASSUME NEW a, NEW b, Priced(a), Priced(b), Dearer(a, b)
  PROVE  LET f == FlowsOf(a)  x == ScheduleOf(a).scale
             g == FlowsOf(b)  y == ScheduleOf(b).scale
         IN  /\ f \in Seq(Int) /\ g \in Seq(Int) /\ Len(f) = Len(g)
             /\ x \in Nat \ {0} /\ y \in Nat \ {0}
             /\ \A i \in 1 .. Len(f) : f[i] * y <= g[i] * x
<1> DEFINE f == FlowsOf(a)  g == FlowsOf(b)  s == ScheduleOf(a)  u == ScheduleOf(b)
           n == a.loan_term  p == a.loan_amount - a.loan_fees  q == b.loan_amount - b.loan_fees
<1>1. /\ a.loan_fees <= b.loan_fees /\ a.interest_rate <= b.interest_rate
      /\ a.loan_amount = b.loan_amount /\ a.loan_term = b.loan_term
      /\ a.repayment_method = b.repayment_method
  BY DEF Dearer
<1>2. p \in Int /\ q \in Int /\ q <= p /\ n \in Nat \ {0}
  BY <1>1 DEF Priced
<1>3. s.scale \in Nat \ {0} /\ u.scale \in Nat \ {0}
  BY ScheduleFits DEF IsSchedule
<1>4. /\ f \in Seq(Int) /\ Len(f) = n + 1 /\ f[1] = -p * s.scale
      /\ \A k \in 1 .. n : f[k + 1] = s.payments[k]
  BY ScheduleFits, Flows DEF FlowsOf, ScheduleOf
<1>5. /\ g \in Seq(Int) /\ Len(g) = n + 1 /\ g[1] = -q * u.scale
      /\ \A k \in 1 .. n : g[k + 1] = u.payments[k]
  BY <1>1, ScheduleFits, Flows DEF FlowsOf, ScheduleOf
<1>6. \A k \in 1 .. n : s.payments[k] * u.scale <= u.payments[k] * s.scale
  BY <1>1, PaymentOrder
<1> HIDE DEF f, g, s, u, n, p, q
<1>7. f[1] * u.scale <= g[1] * s.scale
  <2> DEFINE x == s.scale  y == u.scale
  <2>1. x \in Nat /\ y \in Nat
    BY <1>3
  <2> HIDE DEF x, y
  <2>2. (-p * x) * y <= (-q * y) * x
    BY <1>2, <2>1, PayoutOrder
  <2> QED
    BY <1>4, <1>5, <2>2 DEF x, y
<1>8. ASSUME NEW i \in 1 .. n + 1 PROVE f[i] * u.scale <= g[i] * s.scale
  <2>1. CASE i = 1
    BY <1>7, <2>1
  <2>2. CASE i # 1
    <3>1. i - 1 \in 1 .. n /\ (i - 1) + 1 = i
      BY <1>2, <2>2
    <3>2. f[i] = s.payments[i - 1] /\ g[i] = u.payments[i - 1]
      BY <1>4, <1>5, <3>1
    <3> QED
      BY <1>6, <3>1, <3>2
  <2> QED
    BY <2>1, <2>2
<1> QED
  BY <1>2, <1>3, <1>4, <1>5, <1>8 DEF f, g, s, u

(* So it has when it is overdue.                                             *)
LEMMA OverdueFlows ==
  ASSUME NEW a, NEW b, Priced(a), Priced(b), Dearer(a, b), NEW m \in Nat
  PROVE  LET v == OverdueFlow(a, ScheduleOf(a), m)
             w == OverdueFlow(b, ScheduleOf(b), m)
         IN  v \in Nat /\ w \in Nat /\ v * ScheduleOf(b).scale <= w * ScheduleOf(a).scale
<1> DEFINE s == ScheduleOf(a)  u == ScheduleOf(b)
           p == a.loan_amount  o == a.overdue_interest_rate  w == b.overdue_interest_rate
<1>1. p \in Nat /\ o \in Nat /\ w \in Nat /\ o <= w /\ b.loan_amount = p /\ Grid \in Nat
  BY GridAssumption DEF Priced, Dearer
<1>2. PICK x \in Nat \ {0} : s.scale = Grid * x /\ s.scale \div Grid = x
  BY ScaleIsWhole
<1>3. PICK y \in Nat \ {0} : u.scale = Grid * y /\ u.scale \div Grid = y
  BY ScaleIsWhole
<1>4. OverdueFlow(a, s, m) = p * o * m * x /\ OverdueFlow(b, u, m) = p * w * m * y
  BY <1>1, <1>2, <1>3 DEF OverdueFlow
<1> HIDE DEF s, u, p, o, w
<1>5. x \in Nat /\ y \in Nat
  OBVIOUS
<1>6. (p * o * m * x) * (Grid * y) <= (p * w * m * y) * (Grid * x)
  BY <1>1, <1>5, OverdueOrder
<1>7. p * o * m * x \in Nat /\ p * w * m * y \in Nat
  <2>1. p * o \in Nat /\ p * w \in Nat
    BY <1>1
  <2>2. p * o * m \in Nat /\ p * w * m \in Nat
    BY <2>1
  <2> QED
    BY <1>5, <2>2
<1> QED
  BY <1>2, <1>3, <1>4, <1>6, <1>7 DEF s, u

(* A flow that is added at the end.                                          *)
LEMMA Appended ==
  ASSUME NEW f \in Seq(Int), NEW v \in Int
  PROVE  /\ f \o <<v>> \in Seq(Int) /\ Len(f \o <<v>>) = Len(f) + 1
         /\ (f \o <<v>>)[Len(f) + 1] = v
         /\ \A i \in 1 .. Len(f) : (f \o <<v>>)[i] = f[i]
  OBVIOUS

(* A loan with higher fees, a higher rate or a higher overdue rate never     *)
(* costs less, kept to or overdue.                                           *)
THEOREM DearerCostsMore ==
  ASSUME NEW a, NEW b, Priced(a), Priced(b), Dearer(a, b), NEW params, params.overdue \in Nat
  PROVE  /\ TwiceCosts(a, params)[1] <= TwiceCosts(b, params)[1]
         /\ TwiceCosts(a, params)[2] <= TwiceCosts(b, params)[2]
         /\ TwiceCosts(a, params) \in Nat \X Nat /\ TwiceCosts(b, params) \in Nat \X Nat
<1> DEFINE f == FlowsOf(a)  s == ScheduleOf(a)  v == OverdueFlow(a, s, params.overdue)
           g == FlowsOf(b)  u == ScheduleOf(b)  w == OverdueFlow(b, u, params.overdue)
           late == f \o <<v>>  later == g \o <<w>>
<1>1. TwiceCosts(a, params) = <<TwiceIrr(f), IF params.overdue = 0 THEN 0 ELSE TwiceIrr(late)>>
  BY DEF TwiceCosts, FlowsOf, ScheduleOf
<1>2. TwiceCosts(b, params) = <<TwiceIrr(g), IF params.overdue = 0 THEN 0 ELSE TwiceIrr(later)>>
  BY DEF TwiceCosts, FlowsOf, ScheduleOf
<1>3. /\ f \in Seq(Int) /\ g \in Seq(Int) /\ Len(f) = Len(g)
      /\ s.scale \in Nat \ {0} /\ u.scale \in Nat \ {0}
      /\ \A i \in 1 .. Len(f) : f[i] * u.scale <= g[i] * s.scale
  BY DearerFlows
<1>4. v \in Nat /\ w \in Nat /\ v * u.scale <= w * s.scale
  BY OverdueFlows
<1>5. TwiceIrr(f) \in Nat /\ TwiceIrr(g) \in Nat /\ TwiceIrr(f) <= TwiceIrr(g)
  <2> HIDE DEF f, g, s, u
  <2> QED
    BY <1>3, HigherFlowsCostMore
<1>6. TwiceIrr(late) \in Nat /\ TwiceIrr(later) \in Nat /\ TwiceIrr(late) <= TwiceIrr(later)
  <2> HIDE DEF f, g, s, u, v, w
  <2>1. v \in Int /\ w \in Int
    BY <1>4
  <2>2. /\ late \in Seq(Int) /\ Len(late) = Len(f) + 1 /\ late[Len(f) + 1] = v
        /\ \A i \in 1 .. Len(f) : late[i] = f[i]
    BY <1>3, <2>1, Appended
  <2>3. /\ later \in Seq(Int) /\ Len(later) = Len(f) + 1 /\ later[Len(f) + 1] = w
        /\ \A i \in 1 .. Len(f) : later[i] = g[i]
    BY <1>3, <2>1, Appended
  <2> HIDE DEF late, later
  <2>4. ASSUME NEW i \in 1 .. Len(f) + 1 PROVE late[i] * u.scale <= later[i] * s.scale
    <3>1. CASE i = Len(f) + 1
      BY <1>4, <2>2, <2>3, <3>1
    <3>2. CASE i \in 1 .. Len(f)
      BY <1>3, <2>2, <2>3, <3>2
    <3> QED
      BY <1>3, <3>1, <3>2
  <2> QED
    BY <1>3, <2>2, <2>3, <2>4, HigherFlowsCostMore
<1> HIDE DEF f, g, late, later
<1> QED
  BY <1>1, <1>2, <1>5, <1>6
=============================================================================
