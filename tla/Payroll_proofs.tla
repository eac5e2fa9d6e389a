--------------------------- MODULE Payroll_proofs ---------------------------
(***************************************************************************)
(* Theorems about Payroll, for every set of employees, runs, structures,   *)
(* months and handlers: what an entry adds up to, and what becomes of the  *)
(* entries of a run that was approved.                                     *)
(***************************************************************************)
EXTENDS Payroll, FiniteSetTheorems, TLAPS

(* The arithmetic of an entry. *)

LEMMA ScaleType == Scale \in Nat /\ Scale >= 30
BY ScaleAssumption

LEMMA ProductNat == ASSUME NEW m \in Nat, NEW n \in Nat PROVE m * n \in Nat
OBVIOUS

\* What a division by a positive number gives.
LEMMA QuotientBounds ==
    ASSUME NEW m \in Nat, NEW n \in Nat, n > 0
    PROVE  /\ m \div n \in Nat
           /\ n * (m \div n) <= m /\ m < n * (m \div n) + n
OBVIOUS

\* Rounding to the paisa moves an amount by half a paisa at most.
LEMMA PaiseBounds ==
    ASSUME NEW u \in Int
    PROVE  /\ Paise(u) \in Int
           /\ 2 * u - Scale <= 2 * (Paise(u) * Scale)
           /\ 2 * (Paise(u) * Scale) <= 2 * u + Scale
           /\ u >= 0 => Paise(u) \in Nat
<1>1. PICK half \in Nat : half = Scale \div 2 /\ Scale = 2 * half
  BY ScaleAssumption
<1>2. CASE u >= 0
  <2>1. PICK q \in Nat : /\ q = (u + half) \div Scale
                         /\ Scale * q <= u + half /\ u + half < Scale * q + Scale
    BY <1>1, <1>2, ScaleType, QuotientBounds
  <2>2. PICK back \in Nat : back = Scale * q /\ back = q * Scale
    BY ScaleType
  <2>3. Paise(u) = q
    BY <1>1, <1>2, <2>1 DEF Paise
  <2> QED BY <1>1, <2>1, <2>2, <2>3
<1>3. CASE u < 0
  <2>1. PICK q \in Nat : /\ q = (half - u) \div Scale
                         /\ Scale * q <= half - u /\ half - u < Scale * q + Scale
    BY <1>1, <1>3, ScaleType, QuotientBounds
  <2>2. PICK back \in Nat : back = Scale * q /\ (-q) * Scale = -back
    BY ScaleType
  <2>3. Paise(u) = -q
    BY <1>1, <1>3, <2>1 DEF Paise
  <2> QED BY <1>1, <1>3, <2>1, <2>2, <2>3
<1> QED BY <1>2, <1>3

\* Numbers of paise less than n paise apart differ by less than n.
LEMMA PaiseApart ==
    ASSUME NEW x \in Int, NEW y \in Int, NEW n \in Nat, x * Scale - y * Scale < n * Scale
    PROVE  x - y < n
<1> SUFFICES ASSUME x - y >= n PROVE FALSE
  OBVIOUS
<1>1. PICK more \in Nat : x = y + n + more
  <2>1. x - y - n \in Nat /\ x = y + n + (x - y - n)
    OBVIOUS
  <2> QED BY <2>1
<1>2. PICK extra \in Nat : extra = more * Scale
  BY ScaleType, ProductNat
<1>3. x * Scale = y * Scale + n * Scale + extra
  BY <1>1, <1>2, ScaleType
<1>4. y * Scale \in Int /\ n * Scale \in Int
  BY ScaleType
<1> QED BY <1>2, <1>3, <1>4

\* Whole paise need no rounding.
LEMMA PaiseExact ==
    ASSUME NEW g \in Nat
    PROVE  Paise(g * Scale) = g
<1>1. PICK u \in Nat : u = g * Scale
  BY ScaleType, ProductNat
<1>2. PICK r \in Int, back \in Int :
          /\ r = Paise(u) /\ back = r * Scale
          /\ 2 * u - Scale <= 2 * back /\ 2 * back <= 2 * u + Scale
  <2>1. Paise(u) * Scale \in Int /\ u \in Int
    BY PaiseBounds, ScaleType
  <2> QED BY <2>1, PaiseBounds
<1>3. r - g < 1 /\ g - r < 1
  BY <1>1, <1>2, ScaleType, PaiseApart
<1> QED BY <1>1, <1>2, <1>3

-----------------------------------------------------------------------------
(* The tax. *)

\* m is a twelfth of a rupee.
Twelfth(m) == \A n \in Nat : Monthly(n) = n * m

LEMMA MonthlyIs ==
    \E m \in Nat : 3 * m = 25 * Scale /\ Twelfth(m)
<1>1. PICK third \in Nat : third = Scale \div 3 /\ Scale = 3 * third
  BY ScaleAssumption
<1>2. PICK m \in Nat : m = 25 * third
  OBVIOUS
<1>3. ASSUME NEW n \in Nat PROVE Monthly(n) = n * m
  BY <1>1, <1>2 DEF Monthly
<1>4. 3 * m = 25 * Scale
  BY <1>1, <1>2
<1> QED BY <1>3, <1>4 DEF Twelfth

\* A twentieth of rate times amount, less than a unit apart.
LEMMA LevyBounds ==
    ASSUME NEW amount \in Nat, NEW rate \in Nat
    PROVE  /\ Levy(amount, rate) \in Nat
           /\ 20 * Levy(amount, rate) <= rate * amount
           /\ rate * amount < 20 * Levy(amount, rate) + 20
<1>1. PICK all \in Nat : all = rate * amount
  BY ProductNat
<1> QED BY <1>1 DEF Levy

\* The part of what remains that fills a slab.
LEMMA FillAt ==
    ASSUME NEW acc, NEW slab
    PROVE  /\ Fill(acc, slab).tax
                  = acc.tax + Levy(Lesser(acc.remaining, slab.width), slab.rate)
           /\ Fill(acc, slab).remaining = acc.remaining - Lesser(acc.remaining, slab.width)
BY DEF Fill

\* What of a taxable income t lies in each bracket; m is a twelfth of a rupee.
Within(t, from, to) == Greater(0, Lesser(t, to) - from)
At5(t, m) == Within(t, 300000 * m, 700000 * m)
At10(t, m) == Within(t, 700000 * m, 1000000 * m)
At15(t, m) == Within(t, 1000000 * m, 1200000 * m)
At20(t, m) == Within(t, 1200000 * m, 1500000 * m)
At30(t, m) == Greater(0, t - 1500000 * m)

\* It is above the rebate's limit.
Due(t, m) == t > 700000 * m

Taxed(t, m) == Levy(At5(t, m), 1) + Levy(At10(t, m), 2) + Levy(At15(t, m), 3)
                 + Levy(At20(t, m), 4) + Levy(At30(t, m), 6)

LEMMA BracketTypes ==
    ASSUME NEW t \in Nat, NEW m \in Nat
    PROVE  /\ At5(t, m) \in Nat /\ At10(t, m) \in Nat /\ At15(t, m) \in Nat
           /\ At20(t, m) \in Nat /\ At30(t, m) \in Nat
BY DEF At5, At10, At15, At20, At30, Within, Greater, Lesser

\* Above the rebate's limit the brackets hold all but the first 300000 rupees.
LEMMA BracketSum ==
    ASSUME NEW t \in Nat, NEW m \in Nat, Due(t, m)
    PROVE  At5(t, m) + At10(t, m) + At15(t, m) + At20(t, m) + At30(t, m) = t - 300000 * m
BY DEF Due, At5, At10, At15, At20, At30, Within, Greater, Lesser

LEMMA BracketsGrow ==
    ASSUME NEW t \in Nat, NEW s \in Nat, NEW m \in Nat, t <= s
    PROVE  /\ At5(t, m) <= At5(s, m) /\ At10(t, m) <= At10(s, m)
           /\ At15(t, m) <= At15(s, m) /\ At20(t, m) <= At20(s, m)
           /\ At30(t, m) <= At30(s, m)
BY DEF At5, At10, At15, At20, At30, Within, Greater, Lesser

\* The tax of one gross salary, bracket by bracket.
LEMMA BracketsAt ==
    ASSUME NEW gross \in Nat, NEW m \in Nat, Twelfth(m),
           NEW t \in Nat, t = Greater(0, gross - 75000 * m)
    PROVE  /\ TaxableIncome(gross) = t
           /\ TaxByBrackets(gross) = IF Due(t, m) THEN Taxed(t, m) ELSE 0
<1>1. /\ Monthly(75000) = 75000 * m /\ Monthly(300000) = 300000 * m
      /\ Monthly(700000) = 700000 * m /\ Monthly(1000000) = 1000000 * m
      /\ Monthly(1200000) = 1200000 * m /\ Monthly(1500000) = 1500000 * m
  BY DEF Twelfth
<1>2. TaxableIncome(gross) = t
  BY <1>1 DEF TaxableIncome
<1> QED BY <1>1, <1>2 DEF TaxByBrackets, Within, Taxed, Due, At5, At10, At15, At20, At30

LEMMA TaxType ==
    ASSUME NEW gross \in Nat
    PROVE  TaxByBrackets(gross) \in Nat
<1>1. PICK m \in Nat : Twelfth(m)
  BY MonthlyIs
<1>2. PICK t \in Nat : t = Greater(0, gross - 75000 * m)
  BY DEF Greater
<1>3. /\ Levy(At5(t, m), 1) \in Nat /\ Levy(At10(t, m), 2) \in Nat
      /\ Levy(At15(t, m), 3) \in Nat /\ Levy(At20(t, m), 4) \in Nat
      /\ Levy(At30(t, m), 6) \in Nat
  BY BracketTypes, LevyBounds
<1>4. Taxed(t, m) \in Nat
  BY <1>3 DEF Taxed
<1> QED BY <1>1, <1>2, <1>4, BracketsAt

\* The slabs filled one after the other come to the tax by brackets.
LEMMA TdsIsBrackets ==
    ASSUME NEW gross \in Nat
    PROVE  Tds(TaxableIncome(gross)) = TaxByBrackets(gross)
<1>0. PICK m \in Nat : Twelfth(m)
  BY MonthlyIs
<1>00. PICK t \in Nat : t = Greater(0, gross - 75000 * m)
  BY DEF Greater
<1>1. /\ Slabs[1] = [width |-> 400000 * m, rate |-> 1]
      /\ Slabs[2] = [width |-> 300000 * m, rate |-> 2]
      /\ Slabs[3] = [width |-> 200000 * m, rate |-> 3]
      /\ Slabs[4] = [width |-> 300000 * m, rate |-> 4]
  <2>1. /\ Monthly(400000) = 400000 * m /\ Monthly(300000) = 300000 * m
        /\ Monthly(200000) = 200000 * m
    BY <1>0 DEF Twelfth
  <2> QED BY <2>1 DEF Slabs
<1> DEFINE start == [tax |-> 0, remaining |-> t - 300000 * m]
<1>2. start.tax = 0 /\ start.remaining = t - 300000 * m
  OBVIOUS
<1> HIDE DEF start
<1>3. PICK a : a = Fill(start, Slabs[1])
  OBVIOUS
<1>4. PICK b : b = Fill(a, Slabs[2])
  OBVIOUS
<1>5. PICK c : c = Fill(b, Slabs[3])
  OBVIOUS
<1>6. PICK d : d = Fill(c, Slabs[4])
  OBVIOUS
<1>7. Tds(t) = IF t <= 700000 * m THEN 0 ELSE d.tax + Levy(d.remaining, 6)
  <2>1. Monthly(300000) = 300000 * m /\ Monthly(700000) = 700000 * m
    BY <1>0 DEF Twelfth
  <2> QED BY <2>1, <1>3, <1>4, <1>5, <1>6 DEF Tds, start
<1>8. /\ a.tax = 0 + Levy(Lesser(t - 300000 * m, 400000 * m), 1)
      /\ a.remaining = (t - 300000 * m) - Lesser(t - 300000 * m, 400000 * m)
  BY <1>1, <1>2, <1>3, FillAt
<1>9. /\ b.tax = a.tax + Levy(Lesser(a.remaining, 300000 * m), 2)
      /\ b.remaining = a.remaining - Lesser(a.remaining, 300000 * m)
  BY <1>1, <1>4, FillAt
<1>10. /\ c.tax = b.tax + Levy(Lesser(b.remaining, 200000 * m), 3)
       /\ c.remaining = b.remaining - Lesser(b.remaining, 200000 * m)
  BY <1>1, <1>5, FillAt
<1>11. /\ d.tax = c.tax + Levy(Lesser(c.remaining, 300000 * m), 4)
       /\ d.remaining = c.remaining - Lesser(c.remaining, 300000 * m)
  BY <1>1, <1>6, FillAt
<1>12. /\ TaxableIncome(gross) = t
       /\ TaxByBrackets(gross) = IF Due(t, m) THEN Taxed(t, m) ELSE 0
  BY <1>0, <1>00, BracketsAt
<1>13. CASE t <= 700000 * m
  BY <1>7, <1>12, <1>13 DEF Due
<1>14. CASE t > 700000 * m
  <2>1. /\ Lesser(t - 300000 * m, 400000 * m) = At5(t, m)
        /\ a.remaining = t - 700000 * m
    BY <1>8, <1>14 DEF Lesser, Greater, Within, At5
  <2>2. /\ Lesser(a.remaining, 300000 * m) = At10(t, m)
        /\ b.remaining = Greater(0, t - 1000000 * m)
    BY <1>9, <1>14, <2>1 DEF Lesser, Greater, Within, At10
  <2>3. /\ Lesser(b.remaining, 200000 * m) = At15(t, m)
        /\ c.remaining = Greater(0, t - 1200000 * m)
    BY <1>10, <1>14, <2>2 DEF Lesser, Greater, Within, At15
  <2>4. /\ Lesser(c.remaining, 300000 * m) = At20(t, m)
        /\ d.remaining = At30(t, m)
    BY <1>11, <1>14, <2>3 DEF Lesser, Greater, Within, At20, At30
  <2>5. /\ Levy(At5(t, m), 1) \in Nat /\ Levy(At10(t, m), 2) \in Nat
        /\ Levy(At15(t, m), 3) \in Nat /\ Levy(At20(t, m), 4) \in Nat
        /\ Levy(At30(t, m), 6) \in Nat
    BY BracketTypes, LevyBounds
  <2>6. /\ a.tax = 0 + Levy(At5(t, m), 1) /\ b.tax = a.tax + Levy(At10(t, m), 2)
        /\ c.tax = b.tax + Levy(At15(t, m), 3) /\ d.tax = c.tax + Levy(At20(t, m), 4)
    BY <1>8, <1>9, <1>10, <1>11, <2>1, <2>2, <2>3, <2>4
  <2>7. TaxByBrackets(gross) = Taxed(t, m)
    BY <1>12, <1>14 DEF Due
  <2>8. Tds(t) = d.tax + Levy(At30(t, m), 6)
    BY <1>7, <1>14, <2>4
  <2> QED BY <1>12, <2>5, <2>6, <2>7, <2>8 DEF Taxed
<1> QED BY <1>13, <1>14

\* A larger amount is levied more, though not by more than the difference.
LEMMA LevyNear ==
    ASSUME NEW w \in Nat, NEW x \in Nat, w <= x, NEW rate \in {1, 2, 3, 4, 6}
    PROVE  /\ Levy(w, rate) \in Nat /\ Levy(x, rate) \in Nat
           /\ 20 * Levy(x, rate) - 20 * Levy(w, rate) < 6 * (x - w) + 20
           /\ 20 * Levy(w, rate) - 20 * Levy(x, rate) < 20
<1>0. rate \in Nat
  OBVIOUS
<1>1. PICK p \in Nat : p = Levy(w, rate) /\ 20 * p <= rate * w /\ rate * w < 20 * p + 20
  BY <1>0, LevyBounds
<1>2. PICK q \in Nat : q = Levy(x, rate) /\ 20 * q <= rate * x /\ rate * x < 20 * q + 20
  BY <1>0, LevyBounds
<1>3. rate * w <= rate * x /\ rate * x - rate * w <= 6 * (x - w)
  <2>1. rate = 1 \/ rate = 2 \/ rate = 3 \/ rate = 4 \/ rate = 6
    OBVIOUS
  <2> QED BY <2>1
<1> QED BY <1>1, <1>2, <1>3

\* A larger income is taxed more, up to 30 % of the difference, less what five
\* divisions drop.
LEMMA TaxedNear ==
    ASSUME NEW t \in Nat, NEW s \in Nat, NEW m \in Nat, t <= s,
           Due(t, m), Due(s, m)
    PROVE  /\ Taxed(t, m) \in Nat /\ Taxed(s, m) \in Nat
           /\ 20 * Taxed(s, m) - 20 * Taxed(t, m) < 6 * (s - t) + 100
           /\ 20 * Taxed(t, m) - 20 * Taxed(s, m) < 100
<1>1. /\ At5(t, m) \in Nat /\ At10(t, m) \in Nat /\ At15(t, m) \in Nat
      /\ At20(t, m) \in Nat /\ At30(t, m) \in Nat
  BY BracketTypes
<1>2. /\ At5(s, m) \in Nat /\ At10(s, m) \in Nat /\ At15(s, m) \in Nat
      /\ At20(s, m) \in Nat /\ At30(s, m) \in Nat
  BY BracketTypes
<1>3. /\ At5(t, m) <= At5(s, m) /\ At10(t, m) <= At10(s, m) /\ At15(t, m) <= At15(s, m)
      /\ At20(t, m) <= At20(s, m) /\ At30(t, m) <= At30(s, m)
  BY BracketsGrow
<1>4. (At5(s, m) - At5(t, m)) + (At10(s, m) - At10(t, m)) + (At15(s, m) - At15(t, m))
          + (At20(s, m) - At20(t, m)) + (At30(s, m) - At30(t, m)) = s - t
  <2>0. PICK free \in Nat : free = 300000 * m
    OBVIOUS
  <2>1. At5(t, m) + At10(t, m) + At15(t, m) + At20(t, m) + At30(t, m) = t - free
    BY <2>0, BracketSum
  <2>2. At5(s, m) + At10(s, m) + At15(s, m) + At20(s, m) + At30(s, m) = s - free
    BY <2>0, BracketSum
  <2> QED BY <1>1, <1>2, <2>1, <2>2
<1>5. /\ Levy(At5(t, m), 1) \in Nat /\ Levy(At5(s, m), 1) \in Nat
      /\ 20 * Levy(At5(s, m), 1) - 20 * Levy(At5(t, m), 1) < 6 * (At5(s, m) - At5(t, m)) + 20
      /\ 20 * Levy(At5(t, m), 1) - 20 * Levy(At5(s, m), 1) < 20
  <2>1. At5(t, m) \in Nat /\ At5(s, m) \in Nat /\ At5(t, m) <= At5(s, m)
    BY <1>1, <1>2, <1>3
  <2> QED BY <2>1, LevyNear
<1>6. /\ Levy(At10(t, m), 2) \in Nat /\ Levy(At10(s, m), 2) \in Nat
      /\ 20 * Levy(At10(s, m), 2) - 20 * Levy(At10(t, m), 2) < 6 * (At10(s, m) - At10(t, m)) + 20
      /\ 20 * Levy(At10(t, m), 2) - 20 * Levy(At10(s, m), 2) < 20
  <2>1. At10(t, m) \in Nat /\ At10(s, m) \in Nat /\ At10(t, m) <= At10(s, m)
    BY <1>1, <1>2, <1>3
  <2> QED BY <2>1, LevyNear
<1>7. /\ Levy(At15(t, m), 3) \in Nat /\ Levy(At15(s, m), 3) \in Nat
      /\ 20 * Levy(At15(s, m), 3) - 20 * Levy(At15(t, m), 3) < 6 * (At15(s, m) - At15(t, m)) + 20
      /\ 20 * Levy(At15(t, m), 3) - 20 * Levy(At15(s, m), 3) < 20
  <2>1. At15(t, m) \in Nat /\ At15(s, m) \in Nat /\ At15(t, m) <= At15(s, m)
    BY <1>1, <1>2, <1>3
  <2> QED BY <2>1, LevyNear
<1>8. /\ Levy(At20(t, m), 4) \in Nat /\ Levy(At20(s, m), 4) \in Nat
      /\ 20 * Levy(At20(s, m), 4) - 20 * Levy(At20(t, m), 4) < 6 * (At20(s, m) - At20(t, m)) + 20
      /\ 20 * Levy(At20(t, m), 4) - 20 * Levy(At20(s, m), 4) < 20
  <2>1. At20(t, m) \in Nat /\ At20(s, m) \in Nat /\ At20(t, m) <= At20(s, m)
    BY <1>1, <1>2, <1>3
  <2> QED BY <2>1, LevyNear
<1>9. /\ Levy(At30(t, m), 6) \in Nat /\ Levy(At30(s, m), 6) \in Nat
      /\ 20 * Levy(At30(s, m), 6) - 20 * Levy(At30(t, m), 6) < 6 * (At30(s, m) - At30(t, m)) + 20
      /\ 20 * Levy(At30(t, m), 6) - 20 * Levy(At30(s, m), 6) < 20
  <2>1. At30(t, m) \in Nat /\ At30(s, m) \in Nat /\ At30(t, m) <= At30(s, m)
    BY <1>1, <1>2, <1>3
  <2> QED BY <2>1, LevyNear
<1> QED BY <1>1, <1>2, <1>4, <1>5, <1>6, <1>7, <1>8, <1>9 DEF Taxed

\* Above the rebate's limit, salaries within two thirds of a paisa are taxed
\* alike within a paisa.
LEMMA TaxNear ==
    ASSUME NEW u \in Nat, NEW v \in Nat, u <= v, 3 * (v - u) <= 2 * Scale,
           u > Monthly(775000)
    PROVE  /\ TaxByBrackets(v) - TaxByBrackets(u) < Scale
           /\ TaxByBrackets(u) - TaxByBrackets(v) < Scale
<1>0. PICK m \in Nat : 3 * m = 25 * Scale /\ Twelfth(m)
  BY MonthlyIs
<1>1. Monthly(775000) = 775000 * m /\ u > 775000 * m
  BY <1>0 DEF Twelfth
<1>2. PICK t \in Nat : t = u - 75000 * m
  <2>1. u - 75000 * m \in Nat
    BY <1>1
  <2> QED BY <2>1
<1>3. PICK s \in Nat : s = v - 75000 * m
  <2>1. v - 75000 * m \in Nat
    BY <1>1
  <2> QED BY <2>1
<1>4. /\ Due(t, m) /\ t = Greater(0, u - 75000 * m)
      /\ Due(s, m) /\ s = Greater(0, v - 75000 * m)
      /\ t <= s /\ s - t = v - u
  BY <1>1, <1>2, <1>3 DEF Due, Greater
<1>5. TaxByBrackets(u) = Taxed(t, m) /\ TaxByBrackets(v) = Taxed(s, m)
  <2>1. TaxByBrackets(u) = Taxed(t, m)
    BY <1>0, <1>4, BracketsAt
  <2>2. TaxByBrackets(v) = Taxed(s, m)
    BY <1>0, <1>4, BracketsAt
  <2> QED BY <2>1, <2>2
<1>6. /\ Taxed(t, m) \in Nat /\ Taxed(s, m) \in Nat
      /\ 20 * Taxed(s, m) - 20 * Taxed(t, m) < 6 * (s - t) + 100
      /\ 20 * Taxed(t, m) - 20 * Taxed(s, m) < 100
  <2>1. t <= s /\ Due(t, m) /\ Due(s, m)
    BY <1>4
  <2> QED BY <2>1, TaxedNear
<1> QED BY <1>4, <1>5, <1>6, ScaleType

\* Amounts less than a paisa apart are stored at most a paisa apart.
LEMMA StoredNear ==
    ASSUME NEW u \in Nat, NEW v \in Nat, u - v < Scale
    PROVE  Paise(u) - Paise(v) <= 1
<1>1. PICK x \in Int : x = Paise(u) /\ 2 * (x * Scale) <= 2 * u + Scale
  BY PaiseBounds
<1>2. PICK y \in Int : y = Paise(v) /\ 2 * v - Scale <= 2 * (y * Scale)
  BY PaiseBounds
<1>3. x * Scale - y * Scale < 2 * Scale
  <2>1. x * Scale \in Int /\ y * Scale \in Int
    BY ScaleType
  <2> QED BY <1>1, <1>2, <2>1, ScaleType
<1>4. x - y < 2
  BY <1>3, PaiseApart
<1> QED BY <1>1, <1>2, <1>4

\* The tax on what a gross salary was before it was rounded is that on the
\* stored one, or on the next paisa, to the paisa.
LEMMA TaxOfStored ==
    ASSUME NEW u \in Nat
    PROVE  \E gross \in Paise(u) .. Paise(u) + 1 :
               Paise(TaxByBrackets(u)) - Paise(TaxByBrackets(gross * Scale)) \in -1..1
<1>1. PICK m \in Nat : 3 * m = 25 * Scale /\ Twelfth(m)
  BY MonthlyIs
<1>0. Monthly(775000) = 775000 * m
  BY <1>1 DEF Twelfth
<1>2. PICK g \in Nat, back \in Nat, next \in Nat :
          /\ g = Paise(u) /\ back = g * Scale
          /\ next = (g + 1) * Scale /\ next = back + Scale
          /\ 2 * u - Scale <= 2 * back /\ 2 * back <= 2 * u + Scale
  <2>1. Paise(u) \in Nat /\ u \in Int
    BY PaiseBounds
  <2>2. /\ Paise(u) * Scale \in Nat /\ (Paise(u) + 1) * Scale \in Nat
        /\ (Paise(u) + 1) * Scale = Paise(u) * Scale + Scale
    BY <2>1, ScaleType
  <2> QED BY <2>1, <2>2, PaiseBounds
<1>3. ASSUME NEW v \in Nat,
             TaxByBrackets(v) - TaxByBrackets(u) < Scale,
             TaxByBrackets(u) - TaxByBrackets(v) < Scale
      PROVE  Paise(TaxByBrackets(u)) - Paise(TaxByBrackets(v)) \in -1..1
  <2>1. /\ TaxByBrackets(u) \in Nat /\ TaxByBrackets(v) \in Nat
        /\ Paise(TaxByBrackets(u)) \in Int /\ Paise(TaxByBrackets(v)) \in Int
    BY TaxType, PaiseBounds
  <2>2. /\ Paise(TaxByBrackets(u)) - Paise(TaxByBrackets(v)) <= 1
        /\ Paise(TaxByBrackets(v)) - Paise(TaxByBrackets(u)) <= 1
    BY <1>3, <2>1, StoredNear
  <2> QED BY <2>1, <2>2
<1>4. ASSUME NEW v \in Nat, v <= 775000 * m
      PROVE  TaxByBrackets(v) = 0
  <2>1. Monthly(75000) = 75000 * m /\ Monthly(700000) = 700000 * m
    BY <1>1 DEF Twelfth
  <2> QED BY <1>4, <2>1 DEF TaxByBrackets, TaxableIncome, Greater
<1>5. CASE u <= 775000 * m
  <2>1. back <= 775000 * m
    <3> SUFFICES ASSUME back > 775000 * m PROVE FALSE
      OBVIOUS
    <3>1. g * Scale - 6458333 * Scale > 0
      BY <1>1, <1>2, ScaleType
    <3>2. 6458333 * Scale - g * Scale < 0 * Scale
      BY <3>1, <1>2, ScaleType
    <3>3. 6458333 - g < 0
      BY <3>2, PaiseApart
    <3>4. PICK over \in Nat : g = 6458334 + over
      <4>1. g - 6458334 \in Nat /\ g = 6458334 + (g - 6458334)
        BY <3>3
      <4> QED BY <4>1
    <3>5. back >= 6458334 * Scale
      <4>1. over * Scale \in Nat
        BY ScaleType, ProductNat
      <4>2. back = 6458334 * Scale + over * Scale
        BY <1>2, <3>4, ScaleType
      <4> QED BY <4>1, <4>2, ScaleType
    <3> QED BY <1>1, <1>2, <1>5, <3>5, ScaleType
  <2>2. TaxByBrackets(u) - TaxByBrackets(back) = 0
    BY <1>4, <1>5, <2>1
  <2>3. Paise(TaxByBrackets(u)) - Paise(TaxByBrackets(back)) \in -1..1
    BY <1>3, <1>4, <1>5, <2>1, ScaleType
  <2> QED BY <1>2, <2>3
<1>6. CASE u > 775000 * m /\ back > 775000 * m
  <2>1. CASE u <= back
    <3>1. 3 * (back - u) <= 2 * Scale
      BY <1>2, ScaleType
    <3>2. Paise(TaxByBrackets(u)) - Paise(TaxByBrackets(back)) \in -1..1
      <4>1. /\ TaxByBrackets(back) - TaxByBrackets(u) < Scale
            /\ TaxByBrackets(u) - TaxByBrackets(back) < Scale
        BY <1>0, <1>6, <2>1, <3>1, TaxNear
      <4> QED BY <1>3, <4>1
    <3> QED BY <1>2, <3>2
  <2>2. CASE back <= u
    <3>1. 3 * (u - back) <= 2 * Scale
      BY <1>2, ScaleType
    <3>2. Paise(TaxByBrackets(u)) - Paise(TaxByBrackets(back)) \in -1..1
      <4>1. /\ TaxByBrackets(back) - TaxByBrackets(u) < Scale
            /\ TaxByBrackets(u) - TaxByBrackets(back) < Scale
        BY <1>0, <1>6, <2>2, <3>1, TaxNear
      <4> QED BY <1>3, <4>1
    <3> QED BY <1>2, <3>2
  <2> QED BY <2>1, <2>2
<1>7. CASE u > 775000 * m /\ back <= 775000 * m
  <2>1. u <= next
    BY <1>2, ScaleType
  <2>2. 3 * (next - u) <= 2 * Scale
    <3>1. 6458333 * Scale - g * Scale < 1 * Scale
      BY <1>1, <1>2, <1>7, ScaleType
    <3>2. 6458333 - g < 1
      BY <3>1, PaiseApart
    <3>3. g * Scale - 6458333 * Scale < 1 * Scale
      BY <1>1, <1>2, <1>7, ScaleType
    <3>4. g - 6458333 < 1
      BY <3>3, PaiseApart
    <3>5. next = 6458334 * Scale
      BY <1>2, <3>2, <3>4, ScaleType
    <3> QED BY <1>1, <1>7, <3>5, ScaleType
  <2>3. Paise(TaxByBrackets(u)) - Paise(TaxByBrackets(next)) \in -1..1
    <3>1. /\ TaxByBrackets(next) - TaxByBrackets(u) < Scale
          /\ TaxByBrackets(u) - TaxByBrackets(next) < Scale
      BY <1>0, <1>7, <2>1, <2>2, TaxNear
    <3> QED BY <1>3, <3>1
  <2>4. g + 1 \in Paise(u) .. Paise(u) + 1
    BY <1>2
  <2> QED BY <1>2, <2>3, <2>4
<1> QED BY <1>2, <1>5, <1>6, <1>7

-----------------------------------------------------------------------------
(* The amounts an entry is computed from. *)

LEMMA GrossTypes ==
    ASSUME NEW s \in Structure
    PROVE  BasicAndDa(s) \in Nat /\ BaseGross(s) \in Nat
BY DEF Structure, BasicAndDa, BaseGross

LEMMA OvertimeType ==
    ASSUME NEW s \in Structure, NEW minutes \in Nat
    PROVE  OvertimePay(s, minutes) \in Nat
<1>1. PICK all \in Nat : all = BasicAndDa(s) * Scale
  BY GrossTypes, ScaleType, ProductNat
<1>2. PICK pay \in Nat : pay = (all \div (60 * 160 * 100)) * minutes
  <2>1. all \div (60 * 160 * 100) \in Nat
    OBVIOUS
  <2> QED BY <2>1, ProductNat
<1>3. pay * s.overtimeRate \in Nat
  BY ProductNat DEF Structure
<1> QED BY <1>1, <1>2, <1>3 DEF OvertimePay

LEMMA LopType ==
    ASSUME NEW salary \in Nat, NEW days \in Nat
    PROVE  LopDeduction(salary, days) \in Nat
<1>1. PICK all \in Nat : all = salary * Scale
  BY ScaleType, ProductNat
<1>2. all \div 30 \in Nat
  OBVIOUS
<1> QED BY <1>1, <1>2, ProductNat DEF LopDeduction

\* If a paisa is a multiple of 384000000 units, no division drops anything:
\* the amounts are those of the code's formulas for all salaries, rates,
\* minutes and days, and what is taxed is a whole number of twentieths.
THEOREM NothingDropped ==
    ASSUME NEW s \in Structure, NEW minutes \in Nat, NEW salary \in Nat, NEW days \in Nat,
           NEW k \in Nat, Scale = 384000000 * k,
           NEW gross, gross = BaseGross(s) * Scale + OvertimePay(s, minutes)
    PROVE  /\ (60 * 160 * 100) * OvertimePay(s, minutes)
                  = ((BasicAndDa(s) * Scale) * minutes) * s.overtimeRate
           /\ 30 * LopDeduction(salary, days) = (salary * Scale) * days
           /\ 100 * Deductions(gross, s).pf = 12 * (BasicAndDa(s) * Scale)
           /\ gross <= Rupees(21000) => 400 * Deductions(gross, s).esi = 3 * gross
           /\ \A n \in Nat : gross - Monthly(n) \in Int /\ (gross - Monthly(n)) % 20 = 0
<1>1. PICK base \in Nat, rate \in Nat : base = BasicAndDa(s) /\ rate = s.overtimeRate
  BY GrossTypes DEF Structure
<1>2. PICK p \in Nat : p = base * k /\ base * Scale = 384000000 * p
  <2>1. base * k \in Nat /\ base * Scale = 384000000 * (base * k)
    BY ProductNat
  <2> QED BY <2>1
<1>3. PICK q \in Nat : q = (p * minutes) * rate
  <2>1. p * minutes \in Nat /\ (p * minutes) * rate \in Nat
    BY ProductNat
  <2> QED BY <2>1
<1>4. OvertimePay(s, minutes) = 400 * q
  <2>1. (384000000 * p) \div (60 * 160 * 100) = 400 * p
    OBVIOUS
  <2>2. OvertimePay(s, minutes) = ((400 * p) * minutes) * rate
    BY <1>1, <1>2, <2>1 DEF OvertimePay
  <2> QED BY <1>3, <2>2
<1>5. (60 * 160 * 100) * OvertimePay(s, minutes)
          = ((BasicAndDa(s) * Scale) * minutes) * s.overtimeRate
  <2>1. ((384000000 * p) * minutes) * rate = 384000000 * q
    BY <1>3
  <2> QED BY <1>1, <1>2, <1>4, <2>1
<1>6. 30 * LopDeduction(salary, days) = (salary * Scale) * days
  <2>1. PICK x \in Nat : x = salary * k /\ salary * Scale = 384000000 * x
    <3>1. salary * k \in Nat /\ salary * Scale = 384000000 * (salary * k)
      BY ProductNat
    <3> QED BY <3>1
  <2>2. (384000000 * x) \div 30 = 12800000 * x
    OBVIOUS
  <2>3. 30 * ((12800000 * x) * days) = (384000000 * x) * days
    OBVIOUS
  <2> QED BY <2>1, <2>2, <2>3 DEF LopDeduction
<1>7. 100 * Deductions(gross, s).pf = 12 * (BasicAndDa(s) * Scale)
  <2>1. Deductions(gross, s).pf = 3 * ((384000000 * p) \div 25)
    BY <1>1, <1>2 DEF Deductions
  <2> QED BY <1>1, <1>2, <2>1
<1>8. PICK z \in Nat : gross = 400 * z
  <2>1. PICK fixed \in Nat : fixed = BaseGross(s) * k
    BY GrossTypes, ProductNat
  <2>2. BaseGross(s) * Scale = 384000000 * fixed
    BY <2>1, GrossTypes
  <2>3. PICK z \in Nat : z = 960000 * fixed + q
    OBVIOUS
  <2> QED BY <1>4, <2>2, <2>3
<1>9. gross <= Rupees(21000) => 400 * Deductions(gross, s).esi = 3 * gross
  <2>1. gross <= Rupees(21000) => Deductions(gross, s).esi = (3 * gross) \div 400
    BY DEF Deductions
  <2> QED BY <1>8, <2>1
<1>10. ASSUME NEW n \in Nat
       PROVE  gross - Monthly(n) \in Int /\ (gross - Monthly(n)) % 20 = 0
  <2>1. PICK y \in Nat : y = n * k
    BY ProductNat
  <2>2. Scale \div 3 = 128000000 * k
    OBVIOUS
  <2>3. Monthly(n) = 3200000000 * y
    BY <2>1, <2>2 DEF Monthly
  <2> QED BY <1>8, <2>3
<1> QED BY <1>5, <1>6, <1>7, <1>9, <1>10

\* The unpaid days are a number of days, as leave is finite.
LEMMA LopDaysType ==
    ASSUME NEW m \in MonthRecords
    PROVE  LopDays(m, MonthDays) \in Nat
<1>1. m \in MonthRecord /\ IsFiniteSet(m.leaves) /\ MonthDays \in Nat
  BY PayrollAssumption
<1>2. IsFiniteSet(1..MonthDays)
  BY <1>1, FS_Interval
<1>3. Cardinality(m.absent) \in Nat
  <2>1. m.absent \subseteq 1..MonthDays
    BY <1>1 DEF MonthRecord
  <2> QED BY <1>2, <2>1, FS_Subset, FS_CardinalityType
<1>4. LeaveDays(m.leaves, MonthDays) \in Nat
  <2> DEFINE all == m.leaves \X (1..MonthDays)
             days == {x \in all : x[1].from <= x[2] /\ x[2] <= x[1].to}
  <2>1. IsFiniteSet(all)
    BY <1>1, <1>2, FS_Product
  <2>2. days \subseteq all
    OBVIOUS
  <2>3. Cardinality(days) \in Nat
    <3> HIDE DEF all, days
    <3> QED BY <2>1, <2>2, FS_Subset, FS_CardinalityType
  <2> QED BY <2>3 DEF LeaveDays
<1> QED BY <1>3, <1>4 DEF LopDays, Greater

LEMMA DeductionTypes ==
    ASSUME NEW gross \in Nat, NEW s \in Structure
    PROVE  /\ Deductions(gross, s).pf \in Nat /\ Deductions(gross, s).esi \in Nat
           /\ Deductions(gross, s).pt \in Nat
           /\ Deductions(gross, s).tds = TaxByBrackets(gross)
           /\ Deductions(gross, s).tds \in Nat
<1>1. Deductions(gross, s).tds = TaxByBrackets(gross) /\ TaxByBrackets(gross) \in Nat
  BY TdsIsBrackets, TaxType DEF Deductions
<1>2. Deductions(gross, s).pt \in Nat
  <2>1. PICK tax \in Nat : tax = ProfessionalTax(gross)
    BY DEF ProfessionalTax
  <2>2. (tax * 100) * Scale \in Nat
    BY ScaleType, ProductNat
  <2> QED BY <2>1, <2>2 DEF Deductions, Rupees
<1>3. Deductions(gross, s).pf \in Nat
  <2>1. PICK all \in Nat : all = BasicAndDa(s) * Scale
    BY GrossTypes, ScaleType, ProductNat
  <2>2. 3 * (all \div 25) \in Nat
    OBVIOUS
  <2> QED BY <2>1, <2>2 DEF Deductions
<1>4. Deductions(gross, s).esi \in Nat
  <2>1. (3 * gross) \div 400 \in Nat
    OBVIOUS
  <2> QED BY <2>1 DEF Deductions
<1> QED BY <1>1, <1>2, <1>3, <1>4

-----------------------------------------------------------------------------
(* What is true of every entry. *)

Payslip(x) ==
    /\ x \in Entry
    /\ x.netSalary - (x.grossSalary - x.totalDeductions) \in -1..1
    /\ x.totalDeductions - Sum(x.deductions) \in -3..3
    /\ x.deductions.lop = x.lopDeduction
    /\ \E gross \in x.grossSalary .. x.grossSalary + 1 :
           x.deductions.tds - Paise(TaxByBrackets(gross * Scale)) \in -1..1

\* The columns a calculation or an edit computes.
Columns(gross, days, lop, d) ==
    [grossSalary |-> Paise(gross), lopDays |-> days, lopDeduction |-> Paise(lop),
     totalDeductions |-> Paise(lop + TotalOf(d)),
     netSalary |-> Paise(gross - (lop + TotalOf(d))), deductions |-> Parts(lop, d)]

\* Columns rounded one by one still agree: in whole paise what they are apart
\* is less than the roundings add up to.  First net, gross and total.
LEMMA NetRounded ==
    ASSUME NEW gross \in Int, NEW total \in Int
    PROVE  Paise(gross - total) - (Paise(gross) - Paise(total)) \in -1..1
<1>1. PICK g \in Int : /\ g = Paise(gross) /\ 2 * gross - Scale <= 2 * (g * Scale)
                       /\ 2 * (g * Scale) <= 2 * gross + Scale
  BY PaiseBounds
<1>2. PICK t \in Int : /\ t = Paise(total) /\ 2 * total - Scale <= 2 * (t * Scale)
                       /\ 2 * (t * Scale) <= 2 * total + Scale
  BY PaiseBounds
<1>3. PICK net \in Int : net = gross - total
  OBVIOUS
<1>4. PICK n \in Int : /\ n = Paise(net) /\ 2 * net - Scale <= 2 * (n * Scale)
                       /\ 2 * (n * Scale) <= 2 * net + Scale
  BY PaiseBounds
<1>5. PICK x \in Int : x = g - t
  OBVIOUS
<1>6. x * Scale = g * Scale - t * Scale
  BY <1>5, ScaleType
<1>7. g * Scale \in Int /\ t * Scale \in Int /\ n * Scale \in Int
  BY ScaleType
<1>8. n * Scale - x * Scale < 2 * Scale /\ x * Scale - n * Scale < 2 * Scale
  BY <1>1, <1>2, <1>3, <1>4, <1>6, <1>7, ScaleType
<1>9. n - x < 2 /\ x - n < 2
  BY <1>8, PaiseApart
<1> QED BY <1>1, <1>2, <1>3, <1>4, <1>5, <1>9

\* Then the five items and their total.
LEMMA ItemsRounded ==
    ASSUME NEW lop \in Int, NEW pf \in Int, NEW esi \in Int, NEW pt \in Int, NEW tds \in Int
    PROVE  Paise(lop + (pf + esi + pt + tds))
               - (Paise(lop) + Paise(pf) + Paise(esi) + Paise(pt) + Paise(tds)) \in -3..3
<1>1. PICK l \in Int : /\ l = Paise(lop) /\ 2 * lop - Scale <= 2 * (l * Scale)
                       /\ 2 * (l * Scale) <= 2 * lop + Scale
  BY PaiseBounds
<1>2. PICK a \in Int : /\ a = Paise(pf) /\ 2 * pf - Scale <= 2 * (a * Scale)
                       /\ 2 * (a * Scale) <= 2 * pf + Scale
  BY PaiseBounds
<1>3. PICK b \in Int : /\ b = Paise(esi) /\ 2 * esi - Scale <= 2 * (b * Scale)
                       /\ 2 * (b * Scale) <= 2 * esi + Scale
  BY PaiseBounds
<1>4. PICK c \in Int : /\ c = Paise(pt) /\ 2 * pt - Scale <= 2 * (c * Scale)
                       /\ 2 * (c * Scale) <= 2 * pt + Scale
  BY PaiseBounds
<1>5. PICK d \in Int : /\ d = Paise(tds) /\ 2 * tds - Scale <= 2 * (d * Scale)
                       /\ 2 * (d * Scale) <= 2 * tds + Scale
  BY PaiseBounds
<1>6. PICK total \in Int : total = lop + (pf + esi + pt + tds)
  OBVIOUS
<1>7. PICK t \in Int : /\ t = Paise(total) /\ 2 * total - Scale <= 2 * (t * Scale)
                       /\ 2 * (t * Scale) <= 2 * total + Scale
  BY PaiseBounds
<1>8. PICK y \in Int : y = l + a + b + c + d
  OBVIOUS
<1>9. y * Scale = l * Scale + a * Scale + b * Scale + c * Scale + d * Scale
  BY <1>8, ScaleType
<1>10. /\ l * Scale \in Int /\ a * Scale \in Int /\ b * Scale \in Int
       /\ c * Scale \in Int /\ d * Scale \in Int /\ t * Scale \in Int
  BY ScaleType
<1>11. t * Scale - y * Scale < 4 * Scale /\ y * Scale - t * Scale < 4 * Scale
  BY <1>1, <1>2, <1>3, <1>4, <1>5, <1>6, <1>7, <1>9, <1>10, ScaleType
<1>12. t - y < 4 /\ y - t < 4
  BY <1>11, PaiseApart
<1> QED BY <1>1, <1>2, <1>3, <1>4, <1>5, <1>6, <1>7, <1>8, <1>12

LEMMA ColumnsFit ==
    ASSUME NEW gross \in Nat, NEW days \in Nat, NEW lop \in Nat, NEW s \in Structure
    PROVE  Payslip(Columns(gross, days, lop, Deductions(gross, s)))
<1>0. PICK d : d = Deductions(gross, s)
  OBVIOUS
<1> DEFINE x == Columns(gross, days, lop, d)
<1> HIDE DEF x
<1>1. PICK pf \in Nat, esi \in Nat, pt \in Nat, tds \in Nat :
          /\ pf = d.pf /\ esi = d.esi
          /\ pt = d.pt /\ tds = d.tds
          /\ tds = TaxByBrackets(gross)
  BY <1>0, DeductionTypes
<1>2. PICK total \in Nat : total = lop + (pf + esi + pt + tds)
  OBVIOUS
<1>3. TotalOf(d) = pf + esi + pt + tds
  BY <1>1 DEF TotalOf
<1>4. PICK net \in Int : net = gross - total
  <2>1. gross - total \in Int
    OBVIOUS
  <2> QED BY <2>1
<1>5. /\ Paise(gross) \in Nat /\ Paise(lop) \in Nat /\ Paise(pf) \in Nat
      /\ Paise(esi) \in Nat /\ Paise(pt) \in Nat /\ Paise(tds) \in Nat
      /\ Paise(total) \in Nat
  <2>1. \A u \in Nat : u \in Int /\ u >= 0
    OBVIOUS
  <2> QED BY <2>1, PaiseBounds
<1>6. Paise(net) \in Int
  BY PaiseBounds
<1>7. x = [grossSalary |-> Paise(gross), lopDays |-> days, lopDeduction |-> Paise(lop),
           totalDeductions |-> Paise(total), netSalary |-> Paise(net),
           deductions |-> [lop |-> Paise(lop), pf |-> Paise(pf), esi |-> Paise(esi),
                           pt |-> Paise(pt), tds |-> Paise(tds)]]
  BY <1>1, <1>2, <1>3, <1>4 DEF x, Columns, Parts
<1>8. x \in Entry
  BY <1>5, <1>6, <1>7 DEF Entry
<1>9. Paise(net) - (Paise(gross) - Paise(total)) \in -1..1
  BY <1>4, NetRounded
<1>10. Paise(total)
           - (Paise(lop) + Paise(pf) + Paise(esi) + Paise(pt) + Paise(tds)) \in -3..3
  <2>1. lop \in Int /\ pf \in Int /\ esi \in Int /\ pt \in Int /\ tds \in Int
    OBVIOUS
  <2>2. Paise(lop + (pf + esi + pt + tds))
            - (Paise(lop) + Paise(pf) + Paise(esi) + Paise(pt) + Paise(tds)) \in -3..3
    BY <2>1, ItemsRounded
  <2> QED BY <1>2, <2>2
<1>11. \E g \in Paise(gross) .. Paise(gross) + 1 :
           Paise(tds) - Paise(TaxByBrackets(g * Scale)) \in -1..1
  BY <1>1, TaxOfStored
<1>12. Payslip(x)
  BY <1>7, <1>8, <1>9, <1>10, <1>11 DEF Payslip, Sum
<1> QED BY <1>0, <1>12 DEF x

\* A calculated entry is a payslip.
LEMMA CalculatedFits ==
    ASSUME NEW s \in Structures, NEW m \in MonthRecords
    PROVE  Payslip(Calculated(s, m, MonthDays))
<1>1. s \in Structure /\ m.overtime \in Nat
  BY PayrollAssumption DEF MonthRecord
<1>2. PICK gross \in Nat : gross = BaseGross(s) * Scale + OvertimePay(s, m.overtime)
  <2>1. BaseGross(s) * Scale \in Nat /\ OvertimePay(s, m.overtime) \in Nat
    BY <1>1, GrossTypes, OvertimeType, ScaleType, ProductNat
  <2> QED BY <2>1
<1>3. PICK days \in Nat : days = LopDays(m, MonthDays)
  BY LopDaysType
<1>4. PICK lop \in Nat : lop = LopDeduction(BaseGross(s), days)
  BY <1>1, GrossTypes, LopType
<1>5. Calculated(s, m, MonthDays) = Columns(gross, days, lop, Deductions(gross, s))
  BY <1>2, <1>3, <1>4 DEF Calculated, Columns
<1> QED BY <1>1, <1>5, ColumnsFit

\* So is one that was edited.
LEMMA EditedFits ==
    ASSUME NEW x, Payslip(x), NEW s \in Structures, NEW days \in Nat
    PROVE  Payslip(Edited(x, s, days))
<1>1. s \in Structure
  BY PayrollAssumption
<1>2. PICK stored \in Nat : stored = x.grossSalary
  BY DEF Payslip, Entry
<1>3. PICK gross \in Nat : gross = stored * Scale /\ Paise(gross) = stored
  BY ScaleType, ProductNat, PaiseExact
<1>4. PICK lop \in Nat : lop = LopDeduction(stored, days)
  BY LopType
<1>5. Edited(x, s, days) = Columns(gross, days, lop, Deductions(gross, s))
  <2>1. PICK d : d = Deductions(gross, s)
    OBVIOUS
  <2>2. PICK ofLop, ofTotal, ofNet, parts :
            /\ ofLop = Paise(lop) /\ ofTotal = Paise(lop + TotalOf(d))
            /\ ofNet = Paise(gross - (lop + TotalOf(d))) /\ parts = Parts(lop, d)
    OBVIOUS
  <2>3. x \in Entry
    BY DEF Payslip
  <2>4. Edited(x, s, days) =
          [x EXCEPT !.lopDays = days, !.lopDeduction = ofLop, !.totalDeductions = ofTotal,
                    !.netSalary = ofNet, !.deductions = parts]
    BY <1>2, <1>3, <1>4, <2>1, <2>2 DEF Edited
  <2>5. Edited(x, s, days) =
          [grossSalary |-> stored, lopDays |-> days, lopDeduction |-> ofLop,
           totalDeductions |-> ofTotal, netSalary |-> ofNet, deductions |-> parts]
    BY <1>2, <2>3, <2>4 DEF Entry
  <2> QED BY <1>3, <2>1, <2>2, <2>5 DEF Columns
<1> QED BY <1>1, <1>5, ColumnsFit

-----------------------------------------------------------------------------
(* The inductive invariant: the tables, what a handler may rely on, and    *)
(* what it may rely on only while it is alone on its run.                  *)

Labels == {"idle", "create", "employees", "replace", "approve", "process",
           "delete", "employee", "save"}

Paid == {e \in Employees : assigned[e] # NULL}

Payslips(es) == DOMAIN es \subseteq Paid /\ \A e \in DOMAIN es : Payslip(es[e])

TablesOK ==
    /\ structure \in [StructureIds -> Structures \cup {NULL, Gone}]
    /\ \A e \in Paid : IsRow(structure[assigned[e]])
    /\ record \in [Employees -> MonthRecords]
    /\ run \in [RunIds -> Run \cup {NULL, Gone}]
    /\ DOMAIN entries = RunIds
    /\ \A r \in RunIds : /\ Payslips(entries[r])
                         /\ entries[r] # NoEntries => IsRow(run[r])
    /\ DOMAIN version = RunIds

\* What a handler holds at each of its steps.
HoldsOK(h) ==
    /\ Busy(h) => loc[h].run \in RunIds
    /\ pc[h] = "create" => loc[h].month \in Months
    /\ pc[h] = "replace" => Payslips(loc[h].entries)
    /\ pc[h] \in {"employee", "save"} =>
          /\ DOMAIN loc[h] = {"run", "employee", "entry", "version", "days"}
          /\ loc[h].employee \in Paid /\ loc[h].days \in Nat /\ Payslip(loc[h].entry)

\* Whatever the others do, the id of a run to be created is free, and a run
\* that was approved is never a draft again.
LastsFor(h) ==
    /\ pc[h] = "create" =>
          /\ run[loc[h].run] = NULL
          /\ \A g \in Handlers \ {h} : Busy(g) => loc[g].run # loc[h].run
    /\ pc[h] = "process" /\ IsRow(run[loc[h].run]) => run[loc[h].run].status # "draft"

\* The status the guard of the step asks for.
Asked(label) ==
    CASE label = "process" -> {"approved"}
      [] label = "delete" -> {"draft", "approved"}
      [] OTHER -> {"draft"}

\* Alone on its run, a handler finds the status its guard has seen.
AloneOn(h) ==
    Busy(h) /\ loc[h].run \notin overlapped =>
        /\ \A g \in Handlers \ {h} : Busy(g) => loc[g].run # loc[h].run
        /\ pc[h] # "create" =>
              IsRow(run[loc[h].run]) /\ run[loc[h].run].status \in Asked(pc[h])

PInv ==
    /\ TablesOK
    /\ pc \in [Handlers -> Labels] /\ DOMAIN loc = Handlers
    /\ \A h \in Handlers : HoldsOK(h) /\ LastsFor(h) /\ AloneOn(h)

\* An employee who is paid has a structure.
LEMMA PaidStructure ==
    ASSUME TablesOK, NEW e \in Paid
    PROVE  structure[assigned[e]] \in Structures
<1>1. assigned[e] \in StructureIds
  BY PayrollAssumption DEF Paid
<1> QED BY <1>1 DEF TablesOK, IsRow

LEMMA InitPInv == ASSUME Init PROVE PInv
<1>1. \A h \in Handlers : ~Busy(h) /\ pc[h] = "idle"
  BY DEF Init, Busy
<1>2. Payslips(NoEntries)
  BY DEF Payslips, NoEntries
<1>3. \A e \in Paid : IsRow(structure[assigned[e]])
  <2> SUFFICES ASSUME NEW e \in Paid PROVE IsRow(structure[assigned[e]])
    OBVIOUS
  <2>1. assigned[e] \in StructureIds /\ structure[assigned[e]] # NULL
    BY PayrollAssumption DEF Paid, Init
  <2>2. structure[assigned[e]] \in Structures
    BY <2>1 DEF Init
  <2> QED BY <2>2, PayrollAssumption DEF IsRow
<1>4. TablesOK
  BY <1>2, <1>3 DEF Init, TablesOK
<1>5. \A h \in Handlers : HoldsOK(h) /\ LastsFor(h) /\ AloneOn(h)
  BY <1>1 DEF HoldsOK, LastsFor, AloneOn
<1> QED BY <1>4, <1>5 DEF PInv, Init, Labels

\* What a handler has seen when it begins to work on run r.
MayBegin(r, label, locals) ==
    /\ locals.run = r
    /\ label \in Labels \ {"idle", "replace", "save"}
    /\ label = "create" =>
          /\ run[r] = NULL /\ locals.month \in Months
          /\ \A g \in Handlers : Busy(g) => loc[g].run # r
    /\ label # "create" => IsRow(run[r]) /\ run[r].status \in Asked(label)
    /\ label = "employee" =>
          /\ DOMAIN locals = {"run", "employee", "entry", "version", "days"}
          /\ locals.employee \in Paid /\ locals.days \in Nat /\ Payslip(locals.entry)

LEMMA BeginInv ==
    ASSUME PInv, NEW h \in Handlers, NEW r \in RunIds, NEW label, NEW locals,
           MayBegin(r, label, locals), Begin(h, r, label, locals)
    PROVE  PInv'
<1>1. /\ pc[h] = "idle" /\ pc' = [pc EXCEPT ![h] = label] /\ loc' = [loc EXCEPT ![h] = locals]
      /\ UNCHANGED <<staff, payroll>>
  BY DEF Begin, Goto, Busy
<1>2. /\ overlapped \subseteq overlapped'
      /\ (\E g \in Handlers : Busy(g) /\ loc[g].run = r) => r \in overlapped'
  BY DEF Begin
<1>3. /\ TablesOK /\ pc \in [Handlers -> Labels] /\ DOMAIN loc = Handlers
      /\ \A g \in Handlers : HoldsOK(g) /\ LastsFor(g) /\ AloneOn(g)
  BY DEF PInv
<1>4. /\ pc'[h] = label /\ loc'[h] = locals
      /\ \A g \in Handlers \ {h} : pc'[g] = pc[g] /\ loc'[g] = loc[g]
  BY <1>1, <1>3
<1>5. UNCHANGED <<structure, record, run, entries, version>>
  BY <1>1 DEF staff, payroll
<1>6. TablesOK'
  BY <1>3, <1>5 DEF TablesOK
<1>7. HoldsOK(h)' /\ LastsFor(h)' /\ AloneOn(h)'
  <2>1. HoldsOK(h)'
    BY <1>4 DEF HoldsOK, MayBegin, Busy
  <2>2. LastsFor(h)'
    BY <1>4, <1>5 DEF LastsFor, MayBegin, Busy, Asked
  <2>3. AloneOn(h)'
    BY <1>2, <1>4, <1>5 DEF AloneOn, MayBegin, Busy
  <2> QED BY <2>1, <2>2, <2>3
<1>8. ASSUME NEW g \in Handlers, g # h
      PROVE  HoldsOK(g)' /\ LastsFor(g)' /\ AloneOn(g)'
  <2>1. pc'[g] = pc[g] /\ loc'[g] = loc[g] /\ HoldsOK(g) /\ LastsFor(g) /\ AloneOn(g)
    BY <1>3, <1>4, <1>8
  <2>2. HoldsOK(g)'
    BY <2>1 DEF HoldsOK, Busy
  <2>3. LastsFor(g)'
    <3>1. pc[g] = "create" => loc[g].run # r
      BY <2>1 DEF LastsFor, MayBegin, Busy, IsRow
    <3> QED BY <1>4, <1>5, <2>1, <3>1 DEF LastsFor, MayBegin, Busy
  <2>4. AloneOn(g)'
    <3> SUFFICES ASSUME Busy(g)', loc'[g].run \notin overlapped'
                 PROVE  AloneOn(g)'
      BY DEF AloneOn
    <3>1. Busy(g) /\ loc[g].run \notin overlapped /\ loc[g].run # r
      BY <1>2, <2>1 DEF Busy
    <3> QED BY <1>4, <1>5, <2>1, <3>1 DEF AloneOn, MayBegin, Busy
  <2> QED BY <2>2, <2>3, <2>4
<1>9. pc' \in [Handlers -> Labels] /\ DOMAIN loc' = Handlers
  BY <1>1, <1>3 DEF MayBegin
<1> QED BY <1>6, <1>7, <1>8, <1>9 DEF PInv

\* Each read at the beginning of an operation is such a beginning.
LEMMA BeginsInv ==
    ASSUME PInv, NEW h \in Handlers, NEW r \in RunIds, Begins(h, r)
    PROVE  PInv'
<1>1. ASSUME NEW m \in Months, ReadForCreate(h, r, m)
      PROVE  PInv'
  <2>1. MayBegin(r, "create", [run |-> r, month |-> m])
    BY <1>1 DEF ReadForCreate, MayBegin, Labels
  <2> QED BY <1>1, <2>1, BeginInv DEF ReadForCreate
<1>2. CASE ReadForCalculate(h, r)
  <2>1. MayBegin(r, "employees", [run |-> r])
    BY <1>2 DEF ReadForCalculate, MayBegin, Labels, Asked
  <2> QED BY <1>2, <2>1, BeginInv DEF ReadForCalculate
<1>3. CASE ReadForApprove(h, r)
  <2>1. MayBegin(r, "approve", [run |-> r])
    BY <1>3 DEF ReadForApprove, MayBegin, Labels, Asked
  <2> QED BY <1>3, <2>1, BeginInv DEF ReadForApprove
<1>4. CASE ReadForProcess(h, r)
  <2>1. MayBegin(r, "process", [run |-> r])
    BY <1>4 DEF ReadForProcess, MayBegin, Labels, Asked
  <2> QED BY <1>4, <2>1, BeginInv DEF ReadForProcess
<1>5. CASE ReadForDelete(h, r)
  <2>1. run[r].status \in {"draft", "approved", "processed"}
    BY <1>5 DEF ReadForDelete, PInv, TablesOK, IsRow, Run, RunStatuses
  <2>2. MayBegin(r, "delete", [run |-> r])
    BY <1>5, <2>1 DEF ReadForDelete, MayBegin, Labels, Asked
  <2> QED BY <1>5, <2>2, BeginInv DEF ReadForDelete
<1>6. ASSUME NEW e \in DOMAIN entries[r], NEW days \in LopEdits \cup {entries[r][e].lopDays},
             ReadForEdit(h, r, e, days)
      PROVE  PInv'
  <2> DEFINE locals == [run |-> r, employee |-> e, entry |-> entries[r][e],
                        version |-> version[r], days |-> days]
  <2>1. e \in Paid /\ Payslip(entries[r][e])
    BY DEF PInv, TablesOK, Payslips
  <2>2. days \in Nat
    BY <2>1, PayrollAssumption DEF Payslip, Entry
  <2>3. MayBegin(r, "employee", locals)
    BY <1>6, <2>1, <2>2 DEF ReadForEdit, MayBegin, Labels, Asked
  <2> QED BY <1>6, <2>3, BeginInv DEF ReadForEdit
<1> QED BY <1>1, <1>2, <1>3, <1>4, <1>5, <1>6 DEF Begins

\* What the steps of an operation do to the runs: only the run the handler
\* works on changes, and none becomes a draft but one that is created.
RunMoves(h) ==
    \A r \in RunIds :
        \/ run'[r] = run[r]
        \/ r = loc[h].run /\ (pc[h] = "create" \/ ~IsRow(run'[r]) \/ run'[r].status # "draft")

\* A step of handler h leaves the others what they rely on.
LEMMA OthersStay ==
    ASSUME PInv, NEW h \in Handlers, Busy(h), RunMoves(h), overlapped' = overlapped,
           Busy(h)' => loc'[h].run = loc[h].run,
           NEW g \in Handlers, g # h, pc'[g] = pc[g], loc'[g] = loc[g],
           \A f \in Handlers \ {h} : pc'[f] = pc[f] /\ loc'[f] = loc[f]
    PROVE  HoldsOK(g)' /\ LastsFor(g)' /\ AloneOn(g)'
<1>1. /\ HoldsOK(g) /\ LastsFor(g) /\ AloneOn(g) /\ LastsFor(h) /\ Busy(g)' = Busy(g)
  BY DEF PInv, Busy
<1>2. HoldsOK(g)'
  BY <1>1 DEF HoldsOK, Busy
<1>3. Busy(g) => loc[g].run \in RunIds
  BY <1>1 DEF HoldsOK
<1>4. LastsFor(g)'
  <2>1. CASE pc[g] = "create"
    <3>1. loc[g].run # loc[h].run /\ Busy(g)
      BY <1>1, <2>1 DEF LastsFor, Busy
    <3>2. run'[loc[g].run] = NULL
      BY <1>1, <1>3, <2>1, <3>1 DEF LastsFor, RunMoves
    <3>3. \A f \in Handlers \ {g} : Busy(f)' => loc'[f].run # loc[g].run
      BY <1>1, <2>1, <3>1 DEF LastsFor, Busy
    <3> QED BY <2>1, <3>2, <3>3 DEF LastsFor
  <2>2. CASE pc[g] = "process"
    <3>1. Busy(g) /\ (pc[h] = "create" => loc[g].run # loc[h].run)
      BY <1>1, <2>2 DEF LastsFor, Busy
    <3>2. IsRow(run'[loc[g].run]) => run'[loc[g].run].status # "draft"
      BY <1>1, <1>3, <2>2, <3>1 DEF LastsFor, RunMoves
    <3> QED BY <2>2, <3>2 DEF LastsFor
  <2> QED BY <2>1, <2>2 DEF LastsFor
<1>5. AloneOn(g)'
  <2> SUFFICES ASSUME Busy(g), loc[g].run \notin overlapped
               PROVE  AloneOn(g)'
    BY <1>1 DEF AloneOn
  <2>1. \A f \in Handlers \ {g} : Busy(f) => loc[f].run # loc[g].run
    BY <1>1 DEF AloneOn
  <2>2. run'[loc[g].run] = run[loc[g].run]
    BY <1>3, <2>1 DEF RunMoves
  <2>3. \A f \in Handlers \ {g} : Busy(f)' => loc'[f].run # loc[g].run
    BY <2>1 DEF Busy
  <2> QED BY <1>1, <2>2, <2>3 DEF AloneOn
<1> QED BY <1>2, <1>4, <1>5

\* A step that ends an operation.
LEMMA FinishInv ==
    ASSUME PInv, NEW h \in Handlers, Busy(h), Finish(h), RunMoves(h), overlapped' = overlapped,
           TablesOK'
    PROVE  PInv'
<1>1. /\ pc'[h] = "idle" /\ ~Busy(h)'
      /\ \A g \in Handlers \ {h} : pc'[g] = pc[g] /\ loc'[g] = loc[g]
      /\ pc' \in [Handlers -> Labels] /\ DOMAIN loc' = Handlers
  BY DEF Finish, Goto, PInv, Labels, Busy
<1>2. HoldsOK(h)' /\ LastsFor(h)' /\ AloneOn(h)'
  BY <1>1 DEF HoldsOK, LastsFor, AloneOn, Busy
<1>3. \A g \in Handlers \ {h} : HoldsOK(g)' /\ LastsFor(g)' /\ AloneOn(g)'
  BY <1>1, OthersStay
<1> QED BY <1>1, <1>2, <1>3 DEF PInv

\* A step within an operation, which works on.
LEMMA GoOnInv ==
    ASSUME PInv, NEW h \in Handlers, Busy(h), UNCHANGED <<staff, payroll, overlapped>>,
           NEW label \in Labels \ {"idle", "create"}, Asked(label) = Asked(pc[h]), pc[h] # "create",
           label # "process",
           Goto(h, label), NEW locals, loc' = [loc EXCEPT ![h] = locals], locals.run = loc[h].run,
           HoldsOK(h)'
    PROVE  PInv'
<1>1. /\ pc'[h] = label /\ loc'[h] = locals /\ loc'[h].run = loc[h].run
      /\ \A g \in Handlers \ {h} : pc'[g] = pc[g] /\ loc'[g] = loc[g]
      /\ pc' \in [Handlers -> Labels] /\ DOMAIN loc' = Handlers
  BY DEF Goto, PInv, Busy
<1>2. UNCHANGED <<structure, record, run, entries, version, overlapped>>
  BY DEF staff, payroll
<1>3. TablesOK'
  BY <1>2 DEF TablesOK, PInv
<1>4. LastsFor(h)'
  BY <1>1 DEF LastsFor
<1>5. AloneOn(h)'
  BY <1>1, <1>2 DEF AloneOn, PInv, Busy
<1>6. \A g \in Handlers \ {h} : HoldsOK(g)' /\ LastsFor(g)' /\ AloneOn(g)'
  <2>1. RunMoves(h)
    BY <1>2 DEF RunMoves
  <2> QED BY <1>1, <1>2, <2>1, OthersStay
<1> QED BY <1>1, <1>3, <1>4, <1>5, <1>6 DEF PInv

LEMMA HandlerInv ==
    ASSUME PInv, NEW h \in Handlers, HandlerStep(h)
    PROVE  PInv'
<1>0. /\ TablesOK /\ HoldsOK(h) /\ LastsFor(h) /\ AloneOn(h) /\ h \in DOMAIN loc
  BY DEF PInv
<1>1. CASE CommitCreate(h)
  <2>1. PICK r \in RunIds, m \in Months : loc[h].run = r /\ loc[h].month = m
    BY <1>0, <1>1 DEF CommitCreate, HoldsOK, Busy
  <2>2. /\ pc[h] = "create" /\ Busy(h) /\ Finish(h) /\ run[r] = NULL
        /\ UNCHANGED <<structure, record, entries, version, overlapped>>
    BY <1>0, <1>1, <2>1 DEF CommitCreate, LastsFor, Busy, staff
  <2>3. run' = run \/ run' = [run EXCEPT ![r] = [month |-> m, status |-> "draft"]]
    BY <1>1, <2>1 DEF CommitCreate
  <2>4. RunMoves(h)
    BY <1>0, <2>1, <2>2, <2>3 DEF RunMoves, TablesOK
  <2>5. [month |-> m, status |-> "draft"] \in Run
    BY DEF Run, RunStatuses
  <2>6. run' \in [RunIds -> Run \cup {NULL, Gone}]
    BY <1>0, <2>3, <2>5 DEF TablesOK
  <2>7. \A q \in RunIds : IsRow(run[q]) => IsRow(run'[q])
    BY <1>0, <2>2, <2>3, <2>5, PayrollAssumption DEF TablesOK, IsRow
  <2>8. TablesOK'
    BY <1>0, <2>2, <2>6, <2>7 DEF TablesOK
  <2> QED BY <2>2, <2>4, <2>8, FinishInv
<1>2. CASE Compute(h)
  <2> DEFINE paid == {e \in Employees : employed[e] /\ assigned[e] # NULL}
             computed == [e \in paid |-> Calculated(structure[assigned[e]], record[e], MonthDays)]
             locals == [run |-> loc[h].run, entries |-> computed]
  <2>1. paid \subseteq Paid
    BY DEF Paid
  <2>2. \A e \in paid : Payslip(Calculated(structure[assigned[e]], record[e], MonthDays))
    <3> SUFFICES ASSUME NEW e \in paid
                 PROVE  Payslip(Calculated(structure[assigned[e]], record[e], MonthDays))
      OBVIOUS
    <3>1. structure[assigned[e]] \in Structures
      BY <1>0, <2>1, PaidStructure
    <3>2. record[e] \in MonthRecords
      BY <1>0 DEF TablesOK
    <3> QED BY <3>1, <3>2, CalculatedFits
  <2>3. Payslips(computed)
    BY <2>1, <2>2 DEF Payslips
  <2>4. /\ pc[h] = "employees" /\ Goto(h, "replace") /\ loc' = [loc EXCEPT ![h] = locals]
        /\ UNCHANGED <<staff, payroll, overlapped>>
    BY <1>2 DEF Compute
  <2> HIDE DEF computed
  <2>5. locals.run = loc[h].run /\ locals.entries = computed
    OBVIOUS
  <2> HIDE DEF locals
  <2>6. pc'[h] = "replace" /\ loc'[h] = locals /\ Busy(h)
    BY <1>0, <2>4 DEF Goto, PInv, Busy
  <2>7. HoldsOK(h)'
    BY <1>0, <2>3, <2>5, <2>6 DEF HoldsOK
  <2>8. "replace" \in Labels \ {"idle", "create"} /\ Asked("replace") = Asked(pc[h])
    BY <2>4 DEF Labels, Asked
  <2> QED BY <2>4, <2>5, <2>6, <2>7, <2>8, GoOnInv
<1>3. CASE Replace(h)
  <2>1. PICK r \in RunIds : loc[h].run = r
    BY <1>0, <1>3 DEF Replace, HoldsOK, Busy
  <2>2. /\ pc[h] = "replace" /\ Busy(h) /\ Finish(h)
        /\ UNCHANGED <<structure, record, run, overlapped>> /\ Payslips(loc[h].entries)
    BY <1>0, <1>3 DEF Replace, HoldsOK, Busy, staff
  <2>3. TablesOK'
    <3>1. CASE UNCHANGED <<entries, version>>
      BY <1>0, <2>2, <3>1 DEF TablesOK
    <3>2. CASE /\ IsRow(run[r]) /\ entries' = [entries EXCEPT ![r] = loc[h].entries]
               /\ version' = [version EXCEPT ![r] = @ + 1]
      BY <1>0, <2>2, <3>2 DEF TablesOK
    <3> QED BY <1>3, <2>1, <3>1, <3>2 DEF Replace
  <2>4. RunMoves(h)
    BY <2>2 DEF RunMoves
  <2> QED BY <2>2, <2>3, <2>4, FinishInv
<1>4. ASSUME NEW label \in {"approve", "process"}, NEW status \in {"approved", "processed"},
             SetStatus(h, label, status)
      PROVE  PInv'
  <2>1. PICK r \in RunIds : loc[h].run = r
    BY <1>0, <1>4 DEF SetStatus, HoldsOK, Busy
  <2>2. /\ Busy(h) /\ Finish(h) /\ UNCHANGED <<structure, record, entries, version, overlapped>>
    BY <1>4 DEF SetStatus, Busy, staff
  <2>3. run' = run \/ (IsRow(run[r]) /\ run' = [run EXCEPT ![r].status = status])
    BY <1>4, <2>1 DEF SetStatus
  <2>4. \A q \in RunIds :
            \/ run'[q] = run[q]
            \/ q = r /\ run'[q] \in Run /\ run'[q].status = status
    BY <1>0, <2>3 DEF TablesOK, IsRow, Run, RunStatuses
  <2>5. RunMoves(h)
    BY <2>1, <2>4 DEF RunMoves
  <2>6. run' \in [RunIds -> Run \cup {NULL, Gone}]
    <3>1. run' = [q \in RunIds |-> run'[q]]
      BY <1>0, <2>3 DEF TablesOK
    <3> QED BY <1>0, <2>4, <3>1 DEF TablesOK
  <2>7. \A q \in RunIds : IsRow(run[q]) => IsRow(run'[q])
    BY <2>4, PayrollAssumption DEF IsRow
  <2>8. TablesOK'
    BY <1>0, <2>2, <2>6, <2>7 DEF TablesOK
  <2> QED BY <2>2, <2>5, <2>8, FinishInv
<1>5. CASE Delete(h)
  <2>1. PICK r \in RunIds : loc[h].run = r
    BY <1>0, <1>5 DEF Delete, HoldsOK, Busy
  <2>2. /\ Busy(h) /\ Finish(h) /\ UNCHANGED <<structure, record, overlapped>>
        /\ run' = [run EXCEPT ![r] = Gone] /\ entries' = [entries EXCEPT ![r] = NoEntries]
        /\ version' = [version EXCEPT ![r] = 0]
    BY <1>5, <2>1 DEF Delete, Busy, staff
  <2>3. RunMoves(h)
    BY <1>0, <2>1, <2>2 DEF RunMoves, TablesOK, IsRow
  <2>4. Payslips(NoEntries)
    BY DEF Payslips, NoEntries
  <2>5. TablesOK'
    BY <1>0, <2>2, <2>4 DEF TablesOK
  <2> QED BY <2>2, <2>3, <2>5, FinishInv
<1>6. CASE EditAmounts(h)
  <2>1. /\ pc[h] = "employee" /\ Busy(h) /\ Goto(h, "save") /\ UNCHANGED <<staff, payroll, overlapped>>
        /\ loc[h].employee \in Paid /\ loc[h].days \in Nat /\ Payslip(loc[h].entry)
    BY <1>0, <1>6 DEF EditAmounts, HoldsOK, Busy
  <2>2. PICK new : new = Edited(loc[h].entry, structure[assigned[loc[h].employee]], loc[h].days)
    OBVIOUS
  <2>3. Payslip(new)
    BY <1>0, <2>1, <2>2, PaidStructure, EditedFits
  <2>4. PICK locals : locals = [loc[h] EXCEPT !.entry = new]
    OBVIOUS
  <2>5. loc' = [loc EXCEPT ![h] = locals]
    BY <1>6, <2>2, <2>4 DEF EditAmounts
  <2>6. DOMAIN loc[h] = {"run", "employee", "entry", "version", "days"}
    BY <1>0, <2>1 DEF HoldsOK
  <2>7. /\ locals.run = loc[h].run /\ locals.employee = loc[h].employee /\ locals.entry = new
        /\ locals.days = loc[h].days /\ DOMAIN locals = DOMAIN loc[h]
    BY <2>4, <2>6
  <2>8. pc'[h] = "save" /\ loc'[h] = locals
    BY <1>0, <2>1, <2>5 DEF Goto, PInv
  <2>9. HoldsOK(h)'
    BY <1>0, <2>1, <2>3, <2>6, <2>7, <2>8 DEF HoldsOK, Busy
  <2>10. "save" \in Labels \ {"idle", "create"} /\ Asked("save") = Asked(pc[h])
    BY <2>1 DEF Labels, Asked
  <2> QED BY <2>1, <2>5, <2>7, <2>9, <2>10, GoOnInv
<1>7. CASE SaveEntry(h)
  <2>1. PICK r, e, new : /\ r \in RunIds /\ e \in Paid
                         /\ loc[h].run = r /\ loc[h].employee = e /\ loc[h].entry = new
    BY <1>0, <1>7 DEF SaveEntry, HoldsOK, Busy
  <2>2. /\ Busy(h) /\ Finish(h) /\ UNCHANGED <<structure, record, run, version, overlapped>>
        /\ Payslip(new)
    BY <1>0, <1>7, <2>1 DEF SaveEntry, HoldsOK, Busy, staff
  <2>3. TablesOK'
    <3>1. CASE entries' = entries
      BY <1>0, <2>2, <3>1 DEF TablesOK
    <3>2. CASE e \in DOMAIN entries[r] /\ entries' = [entries EXCEPT ![r][e] = new]
      <4>1. PICK es : es = [entries[r] EXCEPT ![e] = new]
        OBVIOUS
      <4>2. DOMAIN es = DOMAIN entries[r] /\ Payslips(es)
        BY <1>0, <2>1, <2>2, <3>2, <4>1 DEF TablesOK, Payslips
      <4>3. entries' = [entries EXCEPT ![r] = es]
        BY <3>2, <4>1
      <4>4. entries[r] # NoEntries
        BY <3>2 DEF NoEntries
      <4> QED BY <1>0, <2>1, <2>2, <4>2, <4>3, <4>4 DEF TablesOK
    <3> QED BY <1>7, <2>1, <3>1, <3>2 DEF SaveEntry
  <2>4. RunMoves(h)
    BY <2>2 DEF RunMoves
  <2> QED BY <2>2, <2>3, <2>4, FinishInv
<1> QED BY <1>1, <1>2, <1>3, <1>4, <1>5, <1>6, <1>7 DEF HandlerStep, Approve, Process

LEMMA StaffInv ==
    ASSUME PInv,
           \/ \E s \in StructureIds : StructureStep(s)
           \/ \E e \in Employees : Terminate(e)
    PROVE  PInv'
<1>1. UNCHANGED <<record, run, entries, version, pc, loc, overlapped>>
  BY DEF StructureStep, CreateSalaryStructure, UpdateSalaryStructure, DeleteSalaryStructure,
         Terminate, payroll
<1>2. /\ structure' \in [StructureIds -> Structures \cup {NULL, Gone}]
      /\ \A e \in Paid : IsRow(structure'[assigned[e]])
  <2>1. \A e \in Paid : assigned[e] \in StructureIds
    BY PayrollAssumption DEF Paid
  <2>2. CASE structure' = structure
    BY <2>2 DEF PInv, TablesOK
  <2>3. ASSUME NEW s \in StructureIds, NEW what \in Structures,
               structure' = [structure EXCEPT ![s] = what]
        PROVE  <1>2!1 /\ <1>2!2
    BY <2>1, <2>3, PayrollAssumption DEF PInv, TablesOK, IsRow
  <2>4. ASSUME NEW s \in StructureIds, DeleteSalaryStructure(s)
        PROVE  <1>2!1 /\ <1>2!2
    BY <2>1, <2>4 DEF PInv, TablesOK, DeleteSalaryStructure, Paid
  <2> QED BY <2>2, <2>3, <2>4
          DEF StructureStep, CreateSalaryStructure, UpdateSalaryStructure, Terminate
<1>3. TablesOK'
  BY <1>1, <1>2 DEF PInv, TablesOK
<1>4. \A h \in Handlers : HoldsOK(h)' /\ LastsFor(h)' /\ AloneOn(h)'
  BY <1>1 DEF PInv, HoldsOK, LastsFor, AloneOn, Busy
<1> QED BY <1>1, <1>3, <1>4 DEF PInv

LEMMA PInvStep == ASSUME PInv, [Next]_vars PROVE PInv'
<1>1. CASE Next
  BY <1>1, BeginsInv, HandlerInv, StaffInv DEF Next
<1>2. CASE UNCHANGED vars
  BY <1>2 DEF vars, PInv, TablesOK, HoldsOK, LastsFor, AloneOn, Busy
<1> QED BY <1>1, <1>2

\* The invariant is inductive.
THEOREM PayrollInductive == Spec => []PInv
<1> QED BY InitPInv, PInvStep, PTL DEF Spec

\* Every row is well typed: a structure that is assigned is there, only stored
\* runs have entries, and handlers work on runs.
THEOREM PayrollTypeCorrect == Spec => []TypeOK
<1>1. ASSUME PInv PROVE TypeOK
  <2>1. AllEntries \subseteq Entry
    BY <1>1 DEF PInv, TablesOK, Payslips, Payslip, AllEntries
  <2> QED BY <1>1, <2>1 DEF PInv, TablesOK, HoldsOK, Payslips, Paid, TypeOK
<1> QED BY <1>1, PayrollInductive, PTL

\* Whatever was calculated and edited, and by however many requests at a
\* time, the columns of an entry add up to the paisa.
THEOREM PayslipsAddUp == Spec => []PayslipAddsUp
<1>1. ASSUME PInv PROVE PayslipAddsUp
  BY <1>1 DEF PInv, TablesOK, Payslips, Payslip, AllEntries, PayslipAddsUp
<1> QED BY <1>1, PayrollInductive, PTL

\* The tax in an entry is that of the brackets, for every salary.
THEOREM TaxWithheld == Spec => []TaxFollowsBrackets
<1>1. ASSUME PInv PROVE TaxFollowsBrackets
  BY <1>1 DEF PInv, TablesOK, Payslips, Payslip, AllEntries, TaxFollowsBrackets
<1> QED BY <1>1, PayrollInductive, PTL

-----------------------------------------------------------------------------
(* What becomes of a run. *)

\* Runs and entries change in the steps of an operation only, not when it begins.
LEMMA WhoWrites ==
    ASSUME [Next]_vars
    PROVE  (\E h \in Handlers : HandlerStep(h)) \/ UNCHANGED <<run, entries>>
<1>1. ASSUME NEW h \in Handlers, NEW r \in RunIds, Begins(h, r)
      PROVE  UNCHANGED <<run, entries>>
  <2>1. \E label, locals : Begin(h, r, label, locals)
    BY <1>1 DEF Begins, ReadForCreate, ReadForCalculate, ReadForApprove, ReadForProcess,
                ReadForDelete, ReadForEdit
  <2> QED BY <2>1 DEF Begin, payroll
<1>2. ASSUME NEW s \in StructureIds, StructureStep(s)
      PROVE  UNCHANGED <<run, entries>>
  BY <1>2 DEF StructureStep, CreateSalaryStructure, UpdateSalaryStructure,
              DeleteSalaryStructure, payroll
<1>3. ASSUME NEW e \in Employees, Terminate(e)
      PROVE  UNCHANGED <<run, entries>>
  BY <1>3 DEF Terminate, payroll
<1> QED BY <1>1, <1>2, <1>3 DEF Next, vars

\* The moves of a stored run, as StatusWorkflow has them.
RunMove(r) ==
    IF run'[r] = Gone
    THEN run[r].status # "processed" \/ r \in overlapped
    ELSE \/ run[r].status = "draft" /\ run'[r].status = "approved"
         \/ run[r].status = "approved" /\ run'[r].status = "processed"
         \/ /\ r \in overlapped
            /\ run[r].status = "processed"
            /\ run'[r].status = "approved"

LEMMA RunStep ==
    ASSUME PInv, [Next]_vars, NEW r \in RunIds, IsRow(run[r]), run'[r] # run[r]
    PROVE  RunMove(r)
<1>1. PICK h \in Handlers :
          CommitCreate(h) \/ Approve(h) \/ Process(h) \/ Delete(h)
  BY WhoWrites DEF HandlerStep, Compute, Replace, EditAmounts, SaveEntry, payroll
<1>2. /\ HoldsOK(h) /\ LastsFor(h) /\ AloneOn(h) /\ run[r] \in Run
      /\ DOMAIN run = RunIds
  BY DEF PInv, TablesOK, IsRow
<1>3. r = loc[h].run
  BY <1>1, <1>2 DEF CommitCreate, Approve, Process, SetStatus, Delete
<1>4. run[r].status \in {"draft", "approved", "processed"}
  BY <1>2 DEF Run, RunStatuses
<1>5. CASE CommitCreate(h)
  BY <1>2, <1>3, <1>5 DEF CommitCreate, LastsFor, IsRow
<1>6. CASE Approve(h)
  <2>1. pc[h] = "approve" /\ run'[r] = [run[r] EXCEPT !.status = "approved"]
    BY <1>2, <1>3, <1>6 DEF Approve, SetStatus
  <2>2. run'[r] \in Run /\ run'[r].status = "approved"
    BY <1>2, <2>1 DEF Run, RunStatuses
  <2>3. run[r].status # "approved"
    BY <1>2, <2>1 DEF Run
  <2>4. r \notin overlapped => run[r].status = "draft"
    BY <1>2, <1>3, <2>1 DEF AloneOn, Busy, Asked
  <2> QED BY <1>4, <2>2, <2>3, <2>4, PayrollAssumption DEF RunMove
<1>7. CASE Process(h)
  <2>1. pc[h] = "process" /\ run'[r] = [run[r] EXCEPT !.status = "processed"]
    BY <1>2, <1>3, <1>7 DEF Process, SetStatus
  <2>2. run'[r] \in Run /\ run'[r].status = "processed"
    BY <1>2, <2>1 DEF Run, RunStatuses
  <2>3. run[r].status # "processed"
    BY <1>2, <2>1 DEF Run
  <2>4. run[r].status # "draft"
    BY <1>2, <1>3, <2>1 DEF LastsFor
  <2> QED BY <1>4, <2>2, <2>3, <2>4, PayrollAssumption DEF RunMove
<1>8. CASE Delete(h)
  <2>1. pc[h] = "delete" /\ run'[r] = Gone
    BY <1>2, <1>3, <1>8 DEF Delete
  <2>2. r \notin overlapped => run[r].status \in {"draft", "approved"}
    BY <1>2, <1>3, <2>1 DEF AloneOn, Busy, Asked
  <2> QED BY <2>1, <2>2 DEF RunMove
<1> QED BY <1>1, <1>5, <1>6, <1>7, <1>8

\* A run goes from draft to approved to processed; only requests that overlap
\* take back the last step or delete what was processed.
THEOREM RunsGoForward == Spec => StatusWorkflow
<1>1. ASSUME PInv, [Next]_vars
      PROVE  [\A r \in RunIds : (IsRow(run[r]) /\ run'[r] # run[r]) => RunMove(r)]_vars
  BY <1>1, RunStep
<1>2. Spec => [][\A r \in RunIds : (IsRow(run[r]) /\ run'[r] # run[r]) => RunMove(r)]_vars
  BY <1>1, PayrollInductive, PTL DEF Spec
<1> QED BY <1>2 DEF StatusWorkflow, RunMove

LEMMA EntriesStep ==
    ASSUME PInv, [Next]_vars, NEW r \in RunIds \ overlapped', IsRow(run[r]),
           run[r].status # "draft", run'[r] # Gone
    PROVE  entries'[r] = entries[r]
<1>1. SUFFICES ASSUME entries'[r] # entries[r]
               PROVE  FALSE
  OBVIOUS
<1>2. PICK h \in Handlers : Replace(h) \/ Delete(h) \/ SaveEntry(h)
  BY <1>1, WhoWrites DEF HandlerStep, CommitCreate, Compute, Approve, Process, SetStatus,
                         EditAmounts, payroll
<1>3. AloneOn(h) /\ DOMAIN entries = RunIds /\ DOMAIN run = RunIds
  BY DEF PInv, TablesOK
<1>4. r = loc[h].run
  BY <1>1, <1>2, <1>3 DEF Replace, Delete, SaveEntry
<1>5. ~Delete(h)
  BY <1>3, <1>4 DEF Delete
<1>6. pc[h] \in {"replace", "save"} /\ overlapped' = overlapped
  BY <1>2, <1>5 DEF Replace, SaveEntry
<1> QED BY <1>3, <1>4, <1>6 DEF AloneOn, Busy, Asked

\* The entries of a run that is no longer a draft stay as they are, unless
\* requests overlapped on it.
THEOREM ApprovedIsFrozen == Spec => FrozenOnceApproved
<1>1. ASSUME PInv, [Next]_vars
      PROVE  [\A r \in RunIds \ overlapped' :
                 (IsRow(run[r]) /\ run[r].status # "draft" /\ run'[r] # Gone) =>
                     entries'[r] = entries[r]]_vars
  BY <1>1, EntriesStep
<1>2. Spec => [][\A r \in RunIds \ overlapped' :
                    (IsRow(run[r]) /\ run[r].status # "draft" /\ run'[r] # Gone) =>
                        entries'[r] = entries[r]]_vars
  BY <1>1, PayrollInductive, PTL DEF Spec
<1> QED BY <1>2 DEF FrozenOnceApproved
=============================================================================
