-------------------------- MODULE OwidFormatProofs --------------------------
(***************************************************************************)
(* Proofs about OwidFormat, for every base, width, longest domain and room:*)
(* numbers are read back as they were written, and so are identifiers.     *)
(***************************************************************************)
EXTENDS OwidFormat, WellFoundedInduction, FiniteSetTheorems, SequenceTheorems, TLAPS

(***************************************************************************)
(* Recursion.  A definition by recursion on the numbers up to a bound is   *)
(* met by one function and no other.                                       *)
(***************************************************************************)

\* Any natural numbers there are have a least one among them.
LEMMA LeastNatural ==
  ASSUME NEW S \in SUBSET Nat, S # {}
  PROVE  \E least \in S : \A n \in S : least <= n
  <1>1. PICK least \in S : \A n \in S : <<n, least>> \notin OpToRel(<, Nat)
    BY NatLessThanWellFounded, WFMin, Zenon
  <1>2. \A n \in S : ~(n < least)
    BY <1>1 DEF OpToRel
  <1>. QED BY <1>2

\* A set of naturals that goes on from each number to the next holds them all.
LEMMA Inductive ==
  ASSUME NEW S, NEW top \in Nat, 0 \in S,
         \A n \in 0 .. top - 1 : n \in S => n + 1 \in S
  PROVE  \A n \in 0 .. top : n \in S
  <1>. DEFINE missing == {n \in 0 .. top : n \notin S}
  <1>. SUFFICES ASSUME missing # {} PROVE FALSE
    OBVIOUS
  <1>1. missing \in SUBSET Nat
    OBVIOUS
  <1>2. \A n : n \in missing <=> n \in 0 .. top /\ n \notin S
    OBVIOUS
  <1>. HIDE DEF missing
  <1>3. \E least \in missing : \A n \in missing : least <= n
    BY <1>1, LeastNatural
  <1>4. PICK least \in missing : \A n \in missing : least <= n
    BY <1>3
  <1>5. least # 0 /\ least \in 0 .. top /\ least \notin S
    BY <1>2, <1>4
  <1>6. least - 1 \in 0 .. top - 1 /\ (least - 1) + 1 = least /\ ~(least <= least - 1)
    BY <1>5
  <1>7. least - 1 \in 0 .. top /\ least - 1 \in S
    BY <1>2, <1>4, <1>6
  <1>. QED BY <1>5, <1>6, <1>7

\* A function of the numbers up to top given by its value at 0 and by what each
\* other value is made of.
Recursive(f, S, first, step, top) ==
  /\ f \in [0 .. top -> S]
  /\ f[0] = first
  /\ \A n \in 1 .. top : f[n] = step[<<n, f[n - 1]>>]

\* A function that is defined from each number to the next exists.
LEMMA RecursionExists ==
  ASSUME NEW S, NEW first \in S, NEW top \in Nat, NEW step \in [(1 .. top) \X S -> S]
  PROVE  \E f : Recursive(f, S, first, step, top)
  <1>. DEFINE met == {m \in 0 .. top : \E f : Recursive(f, S, first, step, m)}
  <1>1. 0 \in met
    <2>1. Recursive([n \in 0 .. 0 |-> first], S, first, step, 0)
      BY DEF Recursive
    <2>. QED BY <2>1
  <1>2. ASSUME NEW m \in 0 .. top - 1, m \in met PROVE m + 1 \in met
    <2>1. PICK f : Recursive(f, S, first, step, m)
      BY <1>2
    <2>. DEFINE g == [n \in 0 .. m + 1 |-> IF n = m + 1 THEN step[<<m + 1, f[m]>>] ELSE f[n]]
    <2>2. m + 1 \in 1 .. top /\ m \in 0 .. m
      OBVIOUS
    <2>3. f[m] \in S
      BY <2>1, <2>2 DEF Recursive
    <2>4. step[<<m + 1, f[m]>>] \in S
      BY <2>2, <2>3
    <2>5. \A n \in 0 .. m : g[n] = f[n] /\ g[n] \in S
      BY <2>1 DEF Recursive
    <2>6. g[m + 1] = step[<<m + 1, f[m]>>]
      OBVIOUS
    <2>7. g \in [0 .. m + 1 -> S]
      <3>1. g = [n \in 0 .. m + 1 |-> g[n]]
        OBVIOUS
      <3>. HIDE DEF g
      <3>2. ASSUME NEW n \in 0 .. m + 1 PROVE g[n] \in S
        BY <2>4, <2>5, <2>6
      <3>. QED BY <3>1, <3>2
    <2>. HIDE DEF g
    <2>8. ASSUME NEW n \in 1 .. m + 1 PROVE g[n] = step[<<n, g[n - 1]>>]
      <3>1. CASE n = m + 1
        BY <2>5, <2>6, <3>1
      <3>2. ASSUME n # m + 1 PROVE n \in 1 .. m /\ n \in 0 .. m /\ n - 1 \in 0 .. m
        BY <3>2
      <3>3. CASE n # m + 1
        BY <2>1, <2>5, <3>2, <3>3 DEF Recursive
      <3>. QED BY <3>1, <3>3
    <2>9. g[0] = first
      BY <2>1, <2>5 DEF Recursive
    <2>10. Recursive(g, S, first, step, m + 1)
      BY <2>7, <2>8, <2>9 DEF Recursive
    <2>11. m + 1 \in 0 .. top
      OBVIOUS
    <2>. QED BY <2>10, <2>11
  <1>3. met \subseteq 0 .. top /\ \A m \in met : \E f : Recursive(f, S, first, step, m)
    OBVIOUS
  <1>. HIDE DEF met
  <1>4. top \in met
    BY <1>1, <1>2, Inductive
  <1>. QED BY <1>3, <1>4

\* And is the only one.
LEMMA RecursionUnique ==
  ASSUME NEW top \in Nat, NEW f, NEW g, f[0] = g[0], NEW step,
         \A n \in 1 .. top : f[n] = step[<<n, f[n - 1]>>] /\ g[n] = step[<<n, g[n - 1]>>]
  PROVE  \A n \in 0 .. top : f[n] = g[n]
  <1>. DEFINE agree == {n \in 0 .. top : f[n] = g[n]}
  <1>1. 0 \in agree
    OBVIOUS
  <1>2. ASSUME NEW n \in 0 .. top - 1, n \in agree PROVE n + 1 \in agree
    <2>1. n + 1 \in 1 .. top /\ (n + 1) - 1 = n
      OBVIOUS
    <2>2. f[n + 1] = step[<<n + 1, f[n]>>] /\ g[n + 1] = step[<<n + 1, g[n]>>]
      BY <2>1
    <2>. QED BY <1>2, <2>1, <2>2
  <1>3. \A n \in agree : f[n] = g[n]
    OBVIOUS
  <1>. HIDE DEF agree
  <1>4. \A n \in 0 .. top : n \in agree
    BY <1>1, <1>2, Inductive
  <1>. QED BY <1>3, <1>4

-----------------------------------------------------------------------------
(***************************************************************************)
(* Numbers and their digits.                                               *)
(***************************************************************************)

\* Base times the power before, and the powers up to a bound.
Multiplied(top) == [p \in (1 .. top) \X (Nat \ {0}) |-> Base * p[2]]
PowersTo(top) == CHOOSE f : Recursive(f, Nat \ {0}, 1, Multiplied(top), top)

\* The powers of the base up to one exist.
LEMMA PowersExist ==
  ASSUME NEW top \in Nat
  PROVE  /\ PowersTo(top)[0] = 1
         /\ \A n \in 0 .. top : PowersTo(top)[n] \in Nat \ {0}
         /\ \A n \in 1 .. top : PowersTo(top)[n] = Base * PowersTo(top)[n - 1]
  <1>1. Base \in Nat /\ Base > 0
    BY UnitsAssumption
  <1>2. Multiplied(top) \in [(1 .. top) \X (Nat \ {0}) -> Nat \ {0}]
    <2>1. ASSUME NEW p \in (1 .. top) \X (Nat \ {0}) PROVE Base * p[2] \in Nat \ {0}
      <3>1. PICK k \in Nat \ {0} : k = p[2]
        OBVIOUS
      <3>2. Base * k \in Nat \ {0}
        BY <1>1
      <3>. QED BY <3>1, <3>2
    <2>. QED BY <2>1 DEF Multiplied
  <1>3. \E f : Recursive(f, Nat \ {0}, 1, Multiplied(top), top)
    <2>1. 1 \in Nat \ {0}
      OBVIOUS
    <2>. QED BY <1>2, <2>1, RecursionExists, Zenon
  <1>4. Recursive(PowersTo(top), Nat \ {0}, 1, Multiplied(top), top)
    BY <1>3 DEF PowersTo
  <1>5. \A n \in 0 .. top : PowersTo(top)[n] \in Nat \ {0}
    BY <1>4 DEF Recursive
  <1>6. ASSUME NEW n \in 1 .. top PROVE PowersTo(top)[n] = Base * PowersTo(top)[n - 1]
    <2>1. n - 1 \in 0 .. top
      OBVIOUS
    <2>2. PowersTo(top)[n] = Multiplied(top)[<<n, PowersTo(top)[n - 1]>>]
      BY <1>4 DEF Recursive
    <2>. QED BY <1>5, <2>1, <2>2 DEF Multiplied
  <1>. QED BY <1>4, <1>5, <1>6 DEF Recursive

\* And do not depend on how far they are taken.
LEMMA PowersAgree ==
  ASSUME NEW n \in Nat
  PROVE  PowersTo(n + 1)[n] = PowersTo(n)[n]
  <1>1. PICK f : f = PowersTo(n + 1)
    OBVIOUS
  <1>2. PICK g : g = PowersTo(n)
    OBVIOUS
  <1>3. n + 1 \in Nat /\ 0 .. n \subseteq 0 .. n + 1 /\ 1 .. n \subseteq 1 .. n + 1
    OBVIOUS
  <1>4. f[0] = 1 /\ g[0] = 1
    BY <1>1, <1>2, <1>3, PowersExist
  <1>5. \A m \in 0 .. n : f[m] \in Nat \ {0} /\ g[m] \in Nat \ {0}
    BY <1>1, <1>2, <1>3, PowersExist
  <1>6. ASSUME NEW m \in 1 .. n
        PROVE  f[m] = Multiplied(n)[<<m, f[m - 1]>>] /\ g[m] = Multiplied(n)[<<m, g[m - 1]>>]
    <2>1. m - 1 \in 0 .. n
      OBVIOUS
    <2>2. f[m - 1] \in Nat \ {0} /\ g[m - 1] \in Nat \ {0}
      BY <1>5, <2>1
    <2>3. f[m] = Base * f[m - 1] /\ g[m] = Base * g[m - 1]
      BY <1>1, <1>2, <1>3, PowersExist
    <2>. QED BY <2>2, <2>3 DEF Multiplied
  <1>7. f[n] = g[n]
    BY <1>4, <1>6, RecursionUnique
  <1>. QED BY <1>1, <1>2, <1>7

\* Each power of the base is the base times the one before.
LEMMA PowerFacts ==
  /\ Power[0] = 1
  /\ \A n \in Nat : /\ Power[n] \in Nat \ {0}
                    /\ Power[n + 1] = Base * Power[n]
  <1>. DEFINE power == [n \in Nat |-> PowersTo(n)[n]]
  <1>1. power[0] = 1
    BY PowersExist
  <1>2. ASSUME NEW n \in Nat PROVE power[n] \in Nat \ {0} /\ power[n + 1] = Base * power[n]
    <2>1. n \in 0 .. n /\ n + 1 \in Nat /\ n + 1 \in 1 .. n + 1 /\ (n + 1) - 1 = n
      OBVIOUS
    <2>2. PowersTo(n)[n] \in Nat \ {0}
      BY <2>1, PowersExist
    <2>3. PowersTo(n + 1)[n + 1] = Base * PowersTo(n + 1)[n]
      BY <2>1, PowersExist
    <2>. QED BY <2>1, <2>2, <2>3, PowersAgree
  <1>3. power = [n \in Nat |-> power[n]]
    OBVIOUS
  <1>. HIDE DEF power
  <1>4. \A n \in Nat : power[n] = IF n = 0 THEN 1 ELSE Base * power[n - 1]
    <2>1. ASSUME NEW n \in Nat, n # 0 PROVE power[n] = Base * power[n - 1]
      <3>1. n - 1 \in Nat /\ (n - 1) + 1 = n
        BY <2>1
      <3>. QED BY <1>2, <3>1
    <2>. QED BY <1>1, <2>1
  <1>5. power = [n \in Nat |-> IF n = 0 THEN 1 ELSE Base * power[n - 1]]
    BY <1>3, <1>4
  <1>6. Power = [n \in Nat |-> IF n = 0 THEN 1 ELSE Base * Power[n - 1]]
    BY <1>5 DEF Power
  <1>7. Power[0] = 1
    BY <1>6
  <1>8. ASSUME NEW n \in Nat PROVE Power[n + 1] = Base * Power[n]
    <2>1. n + 1 \in Nat /\ n + 1 # 0 /\ (n + 1) - 1 = n
      OBVIOUS
    <2>2. Power[n + 1] = IF n + 1 = 0 THEN 1 ELSE Base * Power[(n + 1) - 1]
      BY <1>6, <2>1, Zenon
    <2>. QED BY <2>1, <2>2
  <1>9. ASSUME NEW n \in Nat PROVE Power[n] \in Nat \ {0}
    <2>. DEFINE S == {m \in Nat : Power[m] \in Nat \ {0}}
    <2>1. 0 \in S
      BY <1>7
    <2>2. ASSUME NEW m \in 0 .. n - 1, m \in S PROVE m + 1 \in S
      <3>1. Base \in Nat \ {0} /\ Power[m] \in Nat \ {0}
        BY <2>2, UnitsAssumption
      <3>2. Base * Power[m] \in Nat \ {0}
        BY <3>1
      <3>. QED BY <1>8, <3>2
    <2>3. \A m \in S : Power[m] \in Nat \ {0}
      OBVIOUS
    <2>. HIDE DEF S
    <2>4. n \in S
      BY <2>1, <2>2, Inductive
    <2>. QED BY <2>3, <2>4
  <1>. QED BY <1>7, <1>8, <1>9

\* A product of natural numbers is one, no smaller than either that is not zero.
LEMMA ProductFacts ==
  ASSUME NEW a \in Nat, NEW b \in Nat
  PROVE  /\ a * b \in Nat
         /\ a # 0 => b <= a * b
         /\ a * b = b * a
  OBVIOUS

\* What is left of a number and how often the divisor is in it, are told apart
\* from everything else by the bound on what is left.
LEMMA DivisionIsUnique ==
  ASSUME NEW m \in Nat \ {0}, NEW q \in Nat, NEW r \in 0 .. m - 1,
         NEW p \in Nat, NEW s \in 0 .. m - 1, q * m + r = p * m + s
  PROVE  q = p /\ r = s
  <1>1. (q - p) * m = s - r
    <2>1. (q - p) * m = q * m - p * m
      OBVIOUS
    <2>. QED BY <2>1
  <1>2. s - r < m /\ s - r > -m
    OBVIOUS
  <1>3. PICK d \in Int : d = q - p
    OBVIOUS
  <1>4. d >= 1 => d * m >= m
    OBVIOUS
  <1>5. d <= -1 => d * m <= -m
    OBVIOUS
  <1>6. d = 0
    BY <1>1, <1>2, <1>3, <1>4, <1>5
  <1>. QED BY <1>3, <1>6

\* A number is its quotient times the divisor, and the remainder.
LEMMA Division ==
  ASSUME NEW n \in Nat, NEW m \in Nat \ {0}
  PROVE  /\ n \div m \in Nat /\ n % m \in 0 .. m - 1
         /\ n = (n \div m) * m + (n % m)
  OBVIOUS

\* The same read from the quotient and the rest.
LEMMA DividedBy ==
  ASSUME NEW m \in Nat \ {0}, NEW q \in Nat, NEW r \in 0 .. m - 1
  PROVE  (q * m + r) \div m = q /\ (q * m + r) % m = r
  <1>1. q * m \in Nat
    OBVIOUS
  <1>2. PICK n \in Nat : n = q * m + r
    BY <1>1
  <1>3. n \div m \in Nat /\ n % m \in 0 .. m - 1 /\ n = (n \div m) * m + (n % m)
    BY Division
  <1>4. PICK p \in Nat, s \in 0 .. m - 1 : p = n \div m /\ s = n % m
    BY <1>3
  <1>5. q * m + r = p * m + s
    BY <1>2, <1>3, <1>4
  <1>6. q = p /\ r = s
    BY <1>5, DivisionIsUnique
  <1>. QED BY <1>2, <1>4, <1>6

\* One more digit of a number.
LEMMA RestOfProduct ==
  ASSUME NEW n \in Nat, NEW p \in Nat \ {0}, NEW b \in Nat \ {0}
  PROVE  n % (b * p) = (n % p) + ((n \div p) % b) * p
  <1>1. PICK q \in Nat, r \in 0 .. p - 1 : q = n \div p /\ r = n % p /\ n = q * p + r
    BY Division
  <1>2. PICK c \in Nat, d \in 0 .. b - 1 : c = q \div b /\ d = q % b /\ q = c * b + d
    BY Division
  <1>3. n = c * (b * p) + (d * p + r)
    <2>1. q * p = (c * b + d) * p
      BY <1>2
    <2>2. (c * b + d) * p = c * (b * p) + d * p
      OBVIOUS
    <2>3. d * p \in Nat /\ c * (b * p) \in Nat
      OBVIOUS
    <2>. QED BY <1>1, <2>1, <2>2, <2>3
  <1>4. d * p <= (b - 1) * p
    <2>1. (b - 1 - d) * p >= 0
      OBVIOUS
    <2>2. (b - 1 - d) * p = (b - 1) * p - d * p
      OBVIOUS
    <2>3. d * p \in Nat /\ (b - 1) * p \in Nat
      OBVIOUS
    <2>. QED BY <2>1, <2>2, <2>3
  <1>5. b * p \in Nat \ {0} /\ (b - 1) * p = b * p - p
    OBVIOUS
  <1>6. d * p \in Nat
    OBVIOUS
  <1>7. d * p + r \in 0 .. b * p - 1
    BY <1>4, <1>5, <1>6
  <1>8. PICK m \in Nat \ {0}, left \in Nat : m = b * p /\ left = d * p + r
    BY <1>5, <1>7
  <1>9. n = c * m + left
    BY <1>3, <1>8
  <1>10. n % m = left
    BY <1>7, <1>8, <1>9, DividedBy
  <1>. QED BY <1>1, <1>2, <1>8, <1>10

\* What the digits of a number come to, one digit after another.
Valued(f, units) ==
  /\ f \in [0 .. Len(units) -> Nat]
  /\ f[0] = 0
  /\ \A n \in 1 .. Len(units) : f[n] = f[n - 1] + units[n] * Power[n - 1]

\* One digit more.
Added(units) ==
  [p \in (1 .. Len(units)) \X Nat |-> p[2] + units[p[1]] * Power[p[1] - 1]]

\* LittleEndianValue adds up each byte times its power of the base.
LEMMA ValuesExist ==
  ASSUME NEW units \in Seq(Nat)
  PROVE  \E f : Valued(f, units) /\ f[Len(units)] = LittleEndianValue(units)
  <1>1. PICK top \in Nat : top = Len(units)
    OBVIOUS
  <1>2. ASSUME NEW i \in 1 .. top PROVE i - 1 \in Nat /\ units[i] * Power[i - 1] \in Nat
    <2>0. i - 1 \in Nat /\ units[i] \in Nat
      BY <1>1
    <2>1. PICK a \in Nat, b \in Nat : a = units[i] /\ b = Power[i - 1]
      BY <2>0, PowerFacts
    <2>2. a * b \in Nat
      OBVIOUS
    <2>. QED BY <2>0, <2>1, <2>2
  <1>3. Added(units) \in [(1 .. top) \X Nat -> Nat]
    <2>1. ASSUME NEW p \in (1 .. top) \X Nat PROVE p[2] + units[p[1]] * Power[p[1] - 1] \in Nat
      <3>1. PICK i \in 1 .. top, k \in Nat : i = p[1] /\ k = p[2]
        OBVIOUS
      <3>2. PICK m \in Nat : m = units[i] * Power[i - 1]
        BY <1>2
      <3>3. k + m \in Nat
        OBVIOUS
      <3>. QED BY <3>1, <3>2, <3>3
    <2>. QED BY <1>1, <2>1 DEF Added
  <1>4. PICK g : Recursive(g, Nat, 0, Added(units), top)
    <2>1. 0 \in Nat
      OBVIOUS
    <2>. QED BY <1>3, <2>1, RecursionExists, Zenon
  <1>5. g \in [0 .. top -> Nat] /\ g[0] = 0
    BY <1>4 DEF Recursive
  <1>6. ASSUME NEW i \in 1 .. top PROVE g[i] = g[i - 1] + units[i] * Power[i - 1]
    <2>1. g[i] = Added(units)[<<i, g[i - 1]>>]
      BY <1>4 DEF Recursive
    <2>2. <<i, g[i - 1]>> \in (1 .. Len(units)) \X Nat
      <3>1. i - 1 \in 0 .. top
        OBVIOUS
      <3>2. g[i - 1] \in Nat
        BY <1>5, <3>1
      <3>. QED BY <1>1, <3>2
    <2>. QED BY <2>1, <2>2 DEF Added
  <1>7. g = [i \in 0 .. top |-> IF i = 0 THEN 0 ELSE g[i - 1] + units[i] * Power[i - 1]]
    <2>1. g = [i \in 0 .. top |-> g[i]]
      BY <1>5
    <2>2. \A i \in 0 .. top : g[i] = IF i = 0 THEN 0 ELSE g[i - 1] + units[i] * Power[i - 1]
      BY <1>5, <1>6
    <2>. QED BY <2>1, <2>2
  <1>8. PICK h : /\ h = [i \in 0 .. Len(units) |->
                           IF i = 0 THEN 0 ELSE h[i - 1] + units[i] * Power[i - 1]]
                 /\ LittleEndianValue(units) = h[Len(units)]
    BY <1>1, <1>7 DEF LittleEndianValue
  <1>9. h[0] = 0 /\ \A i \in 1 .. top : h[i] = h[i - 1] + units[i] * Power[i - 1]
    BY <1>1, <1>8, SMTT(30)
  <1>10. h[top] = g[top]
    <2>. DEFINE S == {i \in 0 .. top : h[i] = g[i]}
    <2>1. 0 \in S
      BY <1>5, <1>9
    <2>2. ASSUME NEW i \in 0 .. top - 1, i \in S PROVE i + 1 \in S
      <3>1. i + 1 \in 1 .. top /\ (i + 1) - 1 = i /\ h[i] = g[i] /\ i + 1 \in 0 .. top
        BY <2>2
      <3>2. h[i + 1] = h[i] + units[i + 1] * Power[i]
        BY <1>9, <3>1
      <3>3. g[i + 1] = g[i] + units[i + 1] * Power[i]
        BY <1>6, <3>1
      <3>. QED BY <3>1, <3>2, <3>3
    <2>3. \A i \in S : h[i] = g[i]
      OBVIOUS
    <2>. HIDE DEF S
    <2>4. \A i \in 0 .. top : i \in S
      BY <2>1, <2>2, Inductive
    <2>. QED BY <2>3, <2>4
  <1>11. Valued(g, units)
    BY <1>1, <1>5, <1>6 DEF Valued
  <1>. QED BY <1>1, <1>8, <1>10, <1>11

\* Bytes are natural numbers.
LEMMA BytesAreNaturals ==
  /\ Bytes \subseteq Nat
  /\ \A units \in Seq(Bytes) : units \in Seq(Nat)
  BY UnitsAssumption DEF Bytes

\* A number with fewer digits is smaller than the next power.
LEMMA ValueBounded ==
  ASSUME NEW units \in Seq(Bytes), NEW f, Valued(f, units)
  PROVE  \A n \in 0 .. Len(units) : f[n] \in 0 .. Power[n] - 1
  <1>1. PICK top \in Nat : top = Len(units)
    OBVIOUS
  <1>2. \A n \in 0 .. top : f[n] \in Nat
    BY <1>1 DEF Valued
  <1>. DEFINE S == {n \in 0 .. top : f[n] < Power[n]}
  <1>3. 0 \in S
    BY PowerFacts DEF Valued
  <1>4. ASSUME NEW n \in 0 .. top - 1, n \in S PROVE n + 1 \in S
    <2>1. n + 1 \in 1 .. top /\ (n + 1) - 1 = n /\ n \in Nat /\ n + 1 \in 0 .. top /\ n \in 0 .. top
      OBVIOUS
    <2>2. PICK p \in Nat \ {0} : p = Power[n] /\ Power[n + 1] = Base * p
      BY <2>1, PowerFacts
    <2>3. PICK u \in 0 .. Base - 1 : u = units[n + 1]
      <3>1. units[n + 1] \in Bytes
        BY <1>1, <2>1
      <3>. QED BY <3>1 DEF Bytes
    <2>4. PICK v \in Nat : v = f[n] /\ v < p
      BY <1>2, <1>4, <2>1, <2>2
    <2>5. f[n + 1] = v + u * p
      BY <1>1, <2>1, <2>2, <2>3, <2>4 DEF Valued
    <2>6. v + u * p < Base * p
      <3>1. Base \in Nat /\ Base - 1 - u \in Nat
        BY UnitsAssumption
      <3>2. PICK k \in Nat : k = Base - 1 - u
        BY <3>1
      <3>3. Base * p = u * p + k * p + p
        <4>1. Base = u + k + 1
          BY <3>1, <3>2
        <4>2. (u + k + 1) * p = u * p + k * p + p
          OBVIOUS
        <4>. QED BY <4>1, <4>2
      <3>4. k * p \in Nat /\ u * p \in Nat
        OBVIOUS
      <3>. QED BY <2>4, <3>3, <3>4
    <2>. QED BY <2>1, <2>2, <2>5, <2>6
  <1>5. \A n \in S : f[n] < Power[n]
    OBVIOUS
  <1>. HIDE DEF S
  <1>6. \A n \in 0 .. top : n \in S
    BY <1>3, <1>4, Inductive
  <1>7. ASSUME NEW n \in 0 .. top PROVE f[n] \in 0 .. Power[n] - 1
    <2>1. f[n] \in Nat /\ f[n] < Power[n]
      BY <1>2, <1>5, <1>6
    <2>2. Power[n] \in Nat \ {0}
      BY PowerFacts
    <2>3. ASSUME NEW v \in Nat, NEW p \in Nat \ {0}, v < p PROVE v \in 0 .. p - 1
      BY <2>3
    <2>. QED BY <2>1, <2>2, <2>3
  <1>. QED BY <1>1, <1>7

\* LittleEndian gives as many bytes as it is asked for, each a digit of the number.
LEMMA DigitsType ==
  ASSUME NEW n \in Nat, NEW width \in Nat
  PROVE  /\ LittleEndian(n, width) \in Seq(Bytes)
         /\ Len(LittleEndian(n, width)) = width
         /\ \A i \in 1 .. width : LittleEndian(n, width)[i] = (n \div Power[i - 1]) % Base
  <1>1. ASSUME NEW i \in 1 .. width PROVE (n \div Power[i - 1]) % Base \in Bytes
    <2>1. i - 1 \in Nat
      OBVIOUS
    <2>2. PICK p \in Nat \ {0} : p = Power[i - 1]
      BY <2>1, PowerFacts
    <2>3. PICK q \in Nat : q = n \div p
      BY Division
    <2>4. Base \in Nat \ {0}
      BY UnitsAssumption
    <2>5. q % Base \in 0 .. Base - 1
      BY <2>4, Division
    <2>. QED BY <2>2, <2>3, <2>5 DEF Bytes
  <1>. QED BY <1>1 DEF LittleEndian

\* What is written in enough digits is read back.
LEMMA ReadsWhatWasWritten ==
  ASSUME NEW width \in Nat, NEW n \in 0 .. Power[width] - 1
  PROVE  LittleEndianValue(LittleEndian(n, width)) = n
  <1>. DEFINE units == LittleEndian(n, width)
  <1>1. n \in Nat /\ Power[width] \in Nat \ {0}
    BY PowerFacts
  <1>2. units \in Seq(Bytes) /\ Len(units) = width
    BY <1>1, DigitsType
  <1>3. \A i \in 1 .. width : units[i] = (n \div Power[i - 1]) % Base
    BY <1>1, DigitsType
  <1>. HIDE DEF units
  <1>4. units \in Seq(Nat)
    BY <1>2, BytesAreNaturals
  <1>5. PICK f : Valued(f, units) /\ f[width] = LittleEndianValue(units)
    BY <1>2, <1>4, ValuesExist
  <1>. DEFINE S == {i \in 0 .. width : f[i] = n % Power[i]}
  <1>6. 0 \in S
    <2>1. n % 1 = 0
      BY <1>1
    <2>2. f[0] = n % Power[0]
      <3>1. f[0] = 0 /\ Power[0] = 1
        BY <1>5, PowerFacts DEF Valued
      <3>. QED BY <2>1, <3>1
    <2>. QED BY <2>2
  <1>7. ASSUME NEW i \in 0 .. width - 1, i \in S PROVE i + 1 \in S
    <2>1. i + 1 \in 1 .. width /\ (i + 1) - 1 = i /\ i \in Nat /\ i + 1 \in 0 .. width
      OBVIOUS
    <2>2. PICK p \in Nat \ {0} : p = Power[i] /\ Power[i + 1] = Base * p
      BY <2>1, PowerFacts
    <2>3. f[i + 1] = f[i] + units[i + 1] * Power[i]
      BY <1>2, <1>5, <2>1 DEF Valued
    <2>4. f[i + 1] = (n % p) + ((n \div p) % Base) * p
      BY <1>3, <1>7, <2>1, <2>2, <2>3
    <2>5. Base \in Nat \ {0}
      BY UnitsAssumption
    <2>6. f[i + 1] = n % (Base * p)
      BY <1>1, <2>4, <2>5, RestOfProduct
    <2>. QED BY <2>1, <2>2, <2>6
  <1>8. \A i \in S : f[i] = n % Power[i]
    OBVIOUS
  <1>. HIDE DEF S
  <1>9. \A i \in 0 .. width : i \in S
    BY <1>6, <1>7, Inductive
  <1>10. f[width] = n % Power[width]
    BY <1>8, <1>9
  <1>11. ASSUME NEW p \in Nat \ {0}, n < p PROVE n % p = n
    <2>1. 0 \in Nat /\ n \in 0 .. p - 1 /\ 0 * p + n = n
      BY <1>11, <1>1
    <2>2. (0 * p + n) % p = n
      BY <2>1, DividedBy
    <2>. QED BY <2>1, <2>2
  <1>12. n % Power[width] = n
    BY <1>1, <1>11
  <1>. QED BY <1>5, <1>10, <1>12 DEF units

\* Digits are told by what they come to.
LEMMA DigitsAreUnique ==
  ASSUME NEW units \in Seq(Bytes), NEW others \in Seq(Bytes), Len(others) = Len(units),
         NEW f, Valued(f, units), NEW g, Valued(g, others), f[Len(units)] = g[Len(units)]
  PROVE  units = others
  <1>1. PICK top \in Nat : top = Len(units) /\ top = Len(others)
    OBVIOUS
  <1>2. \A n \in 0 .. top : f[n] \in 0 .. Power[n] - 1 /\ g[n] \in 0 .. Power[n] - 1
    BY <1>1, ValueBounded
  <1>3. ASSUME NEW n \in 1 .. top, f[n] = g[n] PROVE f[n - 1] = g[n - 1] /\ units[n] = others[n]
    <2>1. n - 1 \in Nat /\ n - 1 \in 0 .. top
      OBVIOUS
    <2>2. PICK p \in Nat \ {0} : p = Power[n - 1]
      BY <2>1, PowerFacts
    <2>3. PICK u \in Nat, v \in Nat : u = units[n] /\ v = others[n]
      BY <1>1, BytesAreNaturals
    <2>4. PICK r \in 0 .. p - 1, s \in 0 .. p - 1 : r = f[n - 1] /\ s = g[n - 1]
      BY <1>2, <2>1, <2>2
    <2>5. f[n] = r + u * p /\ g[n] = s + v * p
      BY <1>1, <2>2, <2>3, <2>4 DEF Valued
    <2>6. PICK a \in Nat, b \in Nat : a = u * p /\ b = v * p
      OBVIOUS
    <2>7. u * p + r = v * p + s
      <3>1. r + a = s + b
        BY <1>3, <2>5, <2>6
      <3>2. a + r = b + s
        BY <3>1
      <3>. QED BY <2>6, <3>2
    <2>8. u = v /\ r = s
      BY <2>7, DivisionIsUnique
    <2>. QED BY <2>3, <2>4, <2>8
  <1>. DEFINE S == {m \in 0 .. top : f[top - m] = g[top - m]}
  <1>4. 0 \in S
    BY <1>1
  <1>5. ASSUME NEW m \in 0 .. top - 1, m \in S PROVE m + 1 \in S
    <2>1. top - m \in 1 .. top /\ (top - m) - 1 = top - (m + 1) /\ m + 1 \in 0 .. top
      OBVIOUS
    <2>. QED BY <1>3, <1>5, <2>1
  <1>6. \A m \in S : f[top - m] = g[top - m]
    OBVIOUS
  <1>. HIDE DEF S
  <1>7. \A m \in 0 .. top : m \in S
    BY <1>4, <1>5, Inductive
  <1>8. ASSUME NEW n \in 1 .. top PROVE units[n] = others[n]
    <2>1. top - n \in 0 .. top /\ top - (top - n) = n
      OBVIOUS
    <2>. QED BY <1>3, <1>6, <1>7, <2>1
  <1>. QED BY <1>1, <1>8

\* What is read is written back, digit for digit.
LEMMA WritesWhatWasRead ==
  ASSUME NEW units \in Seq(Bytes)
  PROVE  /\ LittleEndianValue(units) \in 0 .. Power[Len(units)] - 1
         /\ LittleEndian(LittleEndianValue(units), Len(units)) = units
  <1>1. PICK top \in Nat : top = Len(units)
    OBVIOUS
  <1>2. units \in Seq(Nat)
    BY BytesAreNaturals
  <1>3. PICK f : Valued(f, units) /\ f[top] = LittleEndianValue(units)
    BY <1>1, <1>2, ValuesExist
  <1>4. PICK n \in 0 .. Power[top] - 1 : n = LittleEndianValue(units)
    BY <1>1, <1>3, ValueBounded
  <1>5. PICK others : others = LittleEndian(n, top)
    OBVIOUS
  <1>6. n \in Nat
    BY <1>1, <1>4, PowerFacts
  <1>7. others \in Seq(Bytes) /\ Len(others) = top
    BY <1>5, <1>6, DigitsType
  <1>8. LittleEndianValue(others) = n
    BY <1>4, <1>5, ReadsWhatWasWritten
  <1>9. others \in Seq(Nat)
    BY <1>7, BytesAreNaturals
  <1>10. PICK g : Valued(g, others) /\ g[top] = n
    BY <1>7, <1>8, <1>9, ValuesExist
  <1>11. units = others
    BY <1>1, <1>3, <1>4, <1>7, <1>10, DigitsAreUnique
  <1>. QED BY <1>1, <1>4, <1>5, <1>11

\* The value of bytes is a natural number.
LEMMA ValueType ==
  ASSUME NEW units \in Seq(Nat)
  PROVE  LittleEndianValue(units) \in Nat
  <1>1. PICK f : Valued(f, units) /\ f[Len(units)] = LittleEndianValue(units)
    BY ValuesExist
  <1>2. Len(units) \in 0 .. Len(units)
    OBVIOUS
  <1>. QED BY <1>1, <1>2 DEF Valued

\* A sequence reversed twice is itself.
LEMMA ReverseFacts ==
  ASSUME NEW S, NEW s \in Seq(S)
  PROVE  /\ Reverse(s) \in Seq(S) /\ Len(Reverse(s)) = Len(s)
         /\ Reverse(Reverse(s)) = s
  <1>1. PICK n \in Nat : n = Len(s)
    OBVIOUS
  <1>2. ASSUME NEW i \in 1 .. n PROVE n - i + 1 \in 1 .. n /\ n - (n - i + 1) + 1 = i /\ s[i] \in S
    BY <1>1
  <1>3. /\ Reverse(s) \in Seq(S) /\ Len(Reverse(s)) = n
        /\ \A i \in 1 .. n : Reverse(s)[i] = s[n - i + 1]
    BY <1>1, <1>2 DEF Reverse
  <1>4. PICK t \in Seq(S) : t = Reverse(s)
    BY <1>3
  <1>5. /\ Reverse(t) \in Seq(S) /\ Len(Reverse(t)) = n
        /\ \A i \in 1 .. n : Reverse(t)[i] = t[n - i + 1]
    BY <1>2, <1>3, <1>4 DEF Reverse
  <1>6. \A i \in 1 .. n : Reverse(t)[i] = s[i]
    BY <1>2, <1>3, <1>4, <1>5
  <1>7. Reverse(t) = s
    BY <1>1, <1>5, <1>6, SeqEqual
  <1>. QED BY <1>1, <1>3, <1>4, <1>7

-----------------------------------------------------------------------------
(***************************************************************************)
(* Dates.                                                                  *)
(***************************************************************************)

\* The lengths of the fields are natural numbers, none of them zero.
LEMMA UnitsType ==
  /\ Minute \in Nat \ {0} /\ Hour \in Nat \ {0}
  /\ ShortWidth \in Nat \ {0} /\ LongWidth \in Nat \ {0}
  /\ \A version : DateLength(version) \in Nat \ {0}
  /\ SignatureLength \in Nat \ {0} /\ MaxDomain \in Nat
  <1>1. Resolution \in Nat \ {0} /\ MinutesPerHour \in Nat \ {0}
    BY UnitsAssumption
  <1>2. PICK a \in Nat \ {0}, b \in Nat \ {0} : a = Resolution /\ b = MinutesPerHour
    BY <1>1
  <1>3. b * a \in Nat \ {0}
    OBVIOUS
  <1>4. ShortWidth \in Nat \ {0} /\ LongWidth \in Nat \ {0}
    BY UnitsAssumption
  <1>5. SignatureLength \in Nat \ {0} /\ MaxDomain \in Nat
    BY UnitsAssumption
  <1>6. Minute \in Nat \ {0} /\ Hour \in Nat \ {0}
    BY <1>2, <1>3 DEF Minute, Hour
  <1>7. \A version : DateLength(version) \in Nat \ {0}
    BY <1>4 DEF DateLength
  <1>. QED BY <1>4, <1>5, <1>6, <1>7

\* A whole number of minutes or hours is counted as that number.
LEMMA WholeOfUnits ==
  ASSUME NEW n \in Nat, NEW unit \in Nat \ {0}
  PROVE  n * unit \in Nat /\ Whole(n * unit, unit) = n
  <1>1. PICK m \in Nat : m = n * unit
    OBVIOUS
  <1>2. 0 \in 0 .. unit - 1 /\ n * unit + 0 = n * unit
    BY <1>1
  <1>3. (n * unit + 0) \div unit = n
    BY <1>2, DividedBy
  <1>4. m \div unit = n
    BY <1>1, <1>2, <1>3
  <1>. QED BY <1>1, <1>4 DEF Whole

\* Minutes and hours are counted in integers.
LEMMA WholeType ==
  ASSUME NEW ticks \in Int, NEW unit \in Nat \ {0}
  PROVE  Whole(ticks, unit) \in Int
  <1>1. CASE ticks < 0
    <2>1. -ticks \in Nat
      BY <1>1
    <2>2. (-ticks) \div unit \in Nat
      BY <2>1, Division
    <2>. QED BY <1>1, <2>2 DEF Whole
  <1>2. CASE ~(ticks < 0)
    <2>1. ticks \in Nat
      BY <1>2
    <2>2. ticks \div unit \in Nat
      BY <2>1, Division
    <2>. QED BY <1>2, <2>2 DEF Whole
  <1>. QED BY <1>1, <1>2

\* Big-endian bytes are read back as the number, and written back as the bytes.
LEMMA BigEndianFacts ==
  ASSUME NEW width \in Nat
  PROVE  /\ \A n \in Nat : /\ BigEndian(n, width) \in Seq(Bytes)
                           /\ Len(BigEndian(n, width)) = width
         /\ \A n \in 0 .. Power[width] - 1 : BigEndianValue(BigEndian(n, width)) = n
         /\ \A units \in Seq(Bytes) :
              Len(units) = width => /\ BigEndianValue(units) \in 0 .. Power[width] - 1
                                    /\ BigEndian(BigEndianValue(units), width) = units
  <1>1. ASSUME NEW n \in Nat
        PROVE  /\ BigEndian(n, width) \in Seq(Bytes) /\ Len(BigEndian(n, width)) = width
               /\ Reverse(BigEndian(n, width)) = LittleEndian(n, width)
    <2>1. LittleEndian(n, width) \in Seq(Bytes) /\ Len(LittleEndian(n, width)) = width
      BY DigitsType
    <2>. QED BY <2>1, ReverseFacts DEF BigEndian
  <1>2. ASSUME NEW n \in 0 .. Power[width] - 1 PROVE BigEndianValue(BigEndian(n, width)) = n
    <2>1. n \in Nat
      BY PowerFacts
    <2>. QED BY <1>1, <2>1, ReadsWhatWasWritten DEF BigEndianValue
  <1>3. ASSUME NEW units \in Seq(Bytes), Len(units) = width
        PROVE  /\ BigEndianValue(units) \in 0 .. Power[width] - 1
               /\ BigEndian(BigEndianValue(units), width) = units
    <2>1. PICK others \in Seq(Bytes) : /\ others = Reverse(units) /\ Len(others) = width
                                       /\ Reverse(others) = units
      BY <1>3, ReverseFacts
    <2>. QED BY <2>1, WritesWhatWasRead DEF BigEndianValue, BigEndian
  <1>. QED BY <1>1, <1>2, <1>3

\* A date that was read is written with the units it was read from.
LEMMA WritesDateRead ==
  ASSUME NEW version \in Versions, NEW units \in Seq(Bytes), Len(units) = DateLength(version)
  PROVE  /\ ReadDate(units, version) \in Nat
         /\ WriteDate(ReadDate(units, version), version) = Written(units)
  <1>1. CASE version = Version1
    <2>1. PICK n \in Nat : /\ n = BigEndianValue(units) /\ Fits(n, ShortWidth)
                           /\ BigEndian(n, ShortWidth) = units
      <3>1. Len(units) = ShortWidth /\ ShortWidth \in Nat /\ Power[ShortWidth] \in Nat \ {0}
        BY <1>1, UnitsType, PowerFacts DEF DateLength
      <3>2. PICK n \in 0 .. Power[ShortWidth] - 1 : n = BigEndianValue(units) /\ BigEndian(n, ShortWidth) = units
        BY <3>1, BigEndianFacts
      <3>. QED BY <3>1, <3>2 DEF Fits
    <2>2. n * Hour \in Nat /\ Whole(n * Hour, Hour) = n
      BY UnitsType, WholeOfUnits
    <2>3. ReadDate(units, version) = n * Hour
      BY <1>1, <2>1 DEF ReadDate
    <2>. QED BY <1>1, <2>1, <2>2, <2>3 DEF WriteDate, WriteNumber, Version1, Version2, Version3
  <1>2. CASE version \in {Version2, Version3}
    <2>1. PICK n \in Nat : /\ n = LittleEndianValue(units) /\ Fits(n, LongWidth)
                           /\ LittleEndian(n, LongWidth) = units
      <3>1. Len(units) = LongWidth /\ LongWidth \in Nat /\ Power[LongWidth] \in Nat \ {0}
        BY <1>2, UnitsType, PowerFacts DEF DateLength, Version1, Version2, Version3
      <3>2. PICK n \in 0 .. Power[LongWidth] - 1 : n = LittleEndianValue(units) /\ LittleEndian(n, LongWidth) = units
        BY <3>1, WritesWhatWasRead
      <3>. QED BY <3>1, <3>2 DEF Fits
    <2>2. n * Minute \in Nat /\ Whole(n * Minute, Minute) = n
      BY UnitsType, WholeOfUnits
    <2>3. ReadDate(units, version) = n * Minute
      BY <1>2, <2>1 DEF ReadDate, Version1, Version2, Version3
    <2>. QED BY <1>2, <2>1, <2>2, <2>3 DEF WriteDate, WriteNumber, Version1, Version2, Version3
  <1>. QED BY <1>1, <1>2 DEF Versions

\* A date that was written is read back without the part of its minute.
LEMMA ReadsDateWritten ==
  ASSUME NEW date \in Int, WriteDate(date, Version3).error = "none"
  PROVE  /\ Whole(date, Minute) \in 0 .. Power[LongWidth] - 1
         /\ WriteDate(date, Version3) = Written(LittleEndian(Whole(date, Minute), LongWidth))
         /\ ReadDate(LittleEndian(Whole(date, Minute), LongWidth), Version3)
              = Whole(date, Minute) * Minute
  <1>1. PICK minutes \in Int : minutes = Whole(date, Minute)
    BY UnitsType, WholeType
  <1>2. WriteDate(date, Version3)
          = IF Fits(minutes, LongWidth) THEN Written(LittleEndian(minutes, LongWidth))
            ELSE Refused("DateOutOfRange")
    BY <1>1 DEF WriteDate, WriteNumber, Version1, Version2, Version3
  <1>3. Fits(minutes, LongWidth)
    BY <1>2 DEF Refused
  <1>4. minutes \in 0 .. Power[LongWidth] - 1
    <2>1. Power[LongWidth] \in Nat
      BY UnitsType, PowerFacts
    <2>. QED BY <1>3, <2>1 DEF Fits
  <1>5. LittleEndianValue(LittleEndian(minutes, LongWidth)) = minutes
    BY <1>4, UnitsType, ReadsWhatWasWritten
  <1>. QED BY <1>1, <1>2, <1>3, <1>4, <1>5 DEF ReadDate, Version1, Version3

-----------------------------------------------------------------------------
(***************************************************************************)
(* Runs of units.                                                          *)
(***************************************************************************)

\* A part of a run of units, of the run itself or of a longer one.
LEMMA PartFacts ==
  ASSUME NEW S, NEW units \in Seq(S), NEW first \in Nat \ {0}, NEW last \in Nat,
         first <= last + 1, last <= Len(units)
  PROVE  /\ SubSeq(units, first, last) \in Seq(S)
         /\ Len(SubSeq(units, first, last)) = last - first + 1
         /\ \A i \in 1 .. last - first + 1 : SubSeq(units, first, last)[i] = units[first + i - 1]
  <1>1. \A i \in first .. last : units[i] \in S
    OBVIOUS
  <1>2. /\ SubSeq(units, first, last) \in Seq(S)
        /\ Len(SubSeq(units, first, last)) = IF first <= last THEN last - first + 1 ELSE 0
        /\ \A i \in 1 .. last - first + 1 : SubSeq(units, first, last)[i] = units[first + i - 1]
    BY <1>1, SubSeqProperties
  <1>. QED BY <1>2

\* A part of a sequence is the same part of any longer one.
LEMMA PartOfLonger ==
  ASSUME NEW S, NEW units \in Seq(S), NEW more \in Seq(S),
         NEW first \in Nat \ {0}, NEW last \in Nat, first <= last + 1, last <= Len(units)
  PROVE  SubSeq(units \o more, first, last) = SubSeq(units, first, last)
  <1>. DEFINE all == units \o more
  <1>1. /\ all \in Seq(S) /\ Len(all) = Len(units) + Len(more)
        /\ \A i \in 1 .. Len(units) : all[i] = units[i]
    BY ConcatProperties
  <1>. HIDE DEF all
  <1>2. last <= Len(all)
    BY <1>1
  <1>. DEFINE part == SubSeq(units, first, last)
  <1>3. /\ part \in Seq(S)
        /\ Len(part) = last - first + 1
        /\ \A i \in 1 .. last - first + 1 : part[i] = units[first + i - 1]
    BY PartFacts
  <1>. HIDE DEF part
  <1>. DEFINE other == SubSeq(all, first, last)
  <1>4. /\ other \in Seq(S)
        /\ Len(other) = last - first + 1
        /\ \A i \in 1 .. last - first + 1 : other[i] = all[first + i - 1]
    BY <1>1, <1>2, PartFacts
  <1>. HIDE DEF other
  <1>5. ASSUME NEW i \in 1 .. Len(other) PROVE other[i] = part[i]
    <2>1. first + i - 1 \in 1 .. Len(units) /\ i \in 1 .. last - first + 1
      BY <1>4
    <2>. QED BY <1>1, <1>3, <1>4, <2>1
  <1>6. other = part
    BY <1>3, <1>4, <1>5, SeqEqual
  <1>. QED BY <1>1, <1>3, <1>4, <1>6 DEF all, part, other

\* A run of units falls into the parts it is cut into.
LEMMA PartsMeet ==
  ASSUME NEW S, NEW units \in Seq(S), NEW first \in Nat \ {0}, NEW middle \in Nat, NEW last \in Nat,
         first <= middle + 1, middle <= last, last <= Len(units)
  PROVE  SubSeq(units, first, middle) \o SubSeq(units, middle + 1, last)
           = SubSeq(units, first, last)
  <1>. DEFINE whole == SubSeq(units, first, last)
  <1>1. /\ whole \in Seq(S)
        /\ Len(whole) = last - first + 1
        /\ \A i \in 1 .. last - first + 1 : whole[i] = units[first + i - 1]
    BY PartFacts
  <1>. HIDE DEF whole
  <1>. DEFINE left == SubSeq(units, first, middle)
  <1>2. /\ left \in Seq(S)
        /\ Len(left) = middle - first + 1
        /\ \A i \in 1 .. middle - first + 1 : left[i] = units[first + i - 1]
    BY PartFacts
  <1>. HIDE DEF left
  <1>. DEFINE right == SubSeq(units, middle + 1, last)
  <1>3. /\ right \in Seq(S)
        /\ Len(right) = last - middle
        /\ \A i \in 1 .. last - middle : right[i] = units[middle + i]
    <2>1. /\ SubSeq(units, middle + 1, last) \in Seq(S)
          /\ Len(SubSeq(units, middle + 1, last)) = last - (middle + 1) + 1
          /\ \A i \in 1 .. last - (middle + 1) + 1 :
               SubSeq(units, middle + 1, last)[i] = units[(middle + 1) + i - 1]
      BY PartFacts
    <2>2. last - (middle + 1) + 1 = last - middle /\ \A i \in Int : (middle + 1) + i - 1 = middle + i
      OBVIOUS
    <2>. QED BY <2>1, <2>2
  <1>. HIDE DEF right
  <1>. DEFINE both == left \o right
  <1>4. /\ both \in Seq(S) /\ Len(both) = Len(left) + Len(right)
        /\ \A i \in 1 .. Len(left) + Len(right) :
             both[i] = IF i <= Len(left) THEN left[i] ELSE right[i - Len(left)]
    BY <1>2, <1>3, ConcatProperties
  <1>. HIDE DEF both
  <1>5. Len(both) = last - first + 1
    BY <1>2, <1>3, <1>4
  <1>6. ASSUME NEW i \in 1 .. Len(both) PROVE both[i] = whole[i]
    <2>1. CASE i <= Len(left)
      <3>1. i \in 1 .. middle - first + 1 /\ i \in 1 .. last - first + 1
        BY <1>2, <1>5, <2>1
      <3>2. i \in 1 .. Len(left) + Len(right)
        BY <1>4
      <3>3. both[i] = left[i]
        BY <1>4, <2>1, <3>2
      <3>. QED BY <1>1, <1>2, <3>1, <3>3
    <2>2. CASE ~(i <= Len(left))
      <3>1. i - Len(left) \in 1 .. last - middle
        BY <1>2, <1>5, <2>2
      <3>2. both[i] = units[middle + (i - Len(left))]
        BY <1>3, <1>4, <1>5, <2>2, <3>1
      <3>3. middle + (i - Len(left)) = first + i - 1
        BY <1>2
      <3>. QED BY <1>1, <1>5, <3>2, <3>3
    <2>. QED BY <2>1, <2>2
  <1>7. both = whole
    BY <1>1, <1>4, <1>5, <1>6, SeqEqual
  <1>. QED BY <1>1, <1>2, <1>3, <1>4, <1>7 DEF whole, left, right, both

\* The first unit and the rest of a buffer, and of a longer one.
LEMMA FirstAndRest ==
  ASSUME NEW S, NEW units \in Seq(S), NEW more \in Seq(S), units # << >>
  PROVE  /\ Tail(units) \in Seq(S) /\ Len(Tail(units)) = Len(units) - 1
         /\ \A i \in 1 .. Len(units) - 1 : Tail(units)[i] = units[i + 1]
         /\ units \o more # << >> /\ (units \o more)[1] = units[1]
         /\ Tail(units \o more) = Tail(units) \o more
  <1>1. PICK n \in Nat : n = Len(units) /\ n > 0
    OBVIOUS
  <1>. DEFINE all == units \o more
  <1>2. /\ all \in Seq(S) /\ Len(all) = n + Len(more)
        /\ \A i \in 1 .. n + Len(more) :
             all[i] = IF i <= n THEN units[i] ELSE more[i - n]
    BY <1>1, ConcatProperties
  <1>. HIDE DEF all
  <1>3. all # << >> /\ all[1] = units[1]
    BY <1>1, <1>2
  <1>. DEFINE left == Tail(units)
  <1>4. /\ left \in Seq(S) /\ Len(left) = n - 1
        /\ \A i \in 1 .. n - 1 : left[i] = units[i + 1]
    BY <1>1, HeadTailProperties
  <1>. HIDE DEF left
  <1>. DEFINE right == Tail(all)
  <1>5. /\ right \in Seq(S) /\ Len(right) = n + Len(more) - 1
        /\ \A i \in 1 .. n + Len(more) - 1 : right[i] = all[i + 1]
    BY <1>2, <1>3, HeadTailProperties
  <1>. HIDE DEF right
  <1>. DEFINE both == left \o more
  <1>6. /\ both \in Seq(S) /\ Len(both) = n - 1 + Len(more)
        /\ \A i \in 1 .. n - 1 + Len(more) :
             both[i] = IF i <= n - 1 THEN left[i] ELSE more[i - (n - 1)]
    <2>1. /\ both \in Seq(S) /\ Len(both) = Len(left) + Len(more)
          /\ \A i \in 1 .. Len(left) + Len(more) :
               both[i] = IF i <= Len(left) THEN left[i] ELSE more[i - Len(left)]
      BY <1>4, ConcatProperties
    <2>. HIDE DEF both
    <2>. QED BY <1>4, <2>1
  <1>. HIDE DEF both
  <1>7. ASSUME NEW i \in 1 .. Len(both) PROVE both[i] = right[i]
    <2>1. i + 1 \in 1 .. n + Len(more) /\ i \in 1 .. n + Len(more) - 1 /\ (i + 1) - n = i - (n - 1)
      BY <1>1, <1>6
    <2>2. CASE i <= n - 1
      BY <1>1, <1>2, <1>4, <1>5, <1>6, <2>1, <2>2
    <2>3. CASE ~(i <= n - 1)
      BY <1>1, <1>2, <1>5, <1>6, <2>1, <2>3, SMTT(30)
    <2>. QED BY <2>2, <2>3
  <1>8. both = right
    <2>1. Len(both) = Len(right)
      BY <1>5, <1>6
    <2>. QED BY <1>5, <1>6, <1>7, <2>1, SeqEqual
  <1>. QED BY <1>1, <1>2, <1>3, <1>4, <1>5, <1>6, <1>8 DEF all, left, right, both

-----------------------------------------------------------------------------
(***************************************************************************)
(* The domain of a frame.                                                  *)
(***************************************************************************)

\* read_domain looks at the bytes there are, and at no more than its limit.
LEMMA WindowType ==
  ASSUME NEW units \in Seq(Nat)
  PROVE  /\ DomainWindow(units) \in 0 .. Len(units) /\ DomainWindow(units) <= MaxDomain + 1
         /\ DomainWindow(units) <= MaxDomain => DomainWindow(units) = Len(units)
  BY UnitsType DEF DomainWindow

\* A domain ends at the first zero, where that is within the window.
LEMMA DomainFound ==
  ASSUME NEW units \in Seq(Nat), NEW end \in 1 .. DomainWindow(units), units[end] = 0,
         \A i \in 1 .. end - 1 : units[i] # 0
  PROVE  ReadDomain(units) =
           IF \E i \in DOMAIN SubSeq(units, 1, end - 1) : SubSeq(units, 1, end - 1)[i] \in NotText
           THEN Fail("InvalidDomainEncoding")
           ELSE [status |-> "Parsed", used |-> end, domain |-> SubSeq(units, 1, end - 1)]
  <1>. DEFINE ends == {i \in 1 .. DomainWindow(units) : units[i] = 0}
  <1>1. end \in ends
    OBVIOUS
  <1>2. \A j \in ends : end <= j
    BY WindowType
  <1>3. ASSUME NEW i \in ends, \A j \in ends : i <= j PROVE i = end
    BY <1>1, <1>2, <1>3, WindowType
  <1>4. (CHOOSE i \in ends : \A j \in ends : i <= j) = end
    <2>. HIDE DEF ends
    <2>. QED BY <1>1, <1>2, <1>3
  <1>5. ends # {}
    BY <1>1
  <1>. DEFINE window == DomainWindow(units)
              domain == SubSeq(units, 1, (CHOOSE i \in ends : \A j \in ends : i <= j) - 1)
  <1>6. ReadDomain(units)
          = CASE ends = {} /\ window > MaxDomain -> Fail("InvalidDomainEncoding")
              [] ends = {} /\ window <= MaxDomain -> Fail("UnexpectedEnd")
              [] OTHER -> IF \E i \in DOMAIN domain : domain[i] \in NotText
                          THEN Fail("InvalidDomainEncoding")
                          ELSE [status |-> "Parsed",
                                used |-> (CHOOSE i \in ends : \A j \in ends : i <= j),
                                domain |-> domain]
    BY DEF ReadDomain
  <1>. HIDE DEF ends
  <1>. QED BY <1>4, <1>5, <1>6

\* Without a zero in the window the domain is too long, or has not all arrived.
LEMMA DomainNotFound ==
  ASSUME NEW units \in Seq(Nat), \A i \in 1 .. DomainWindow(units) : units[i] # 0
  PROVE  ReadDomain(units) = Fail(IF DomainWindow(units) > MaxDomain
                                  THEN "InvalidDomainEncoding" ELSE "UnexpectedEnd")
  <1>1. {i \in 1 .. DomainWindow(units) : units[i] = 0} = {}
    OBVIOUS
  <1>2. DomainWindow(units) \in Nat /\ MaxDomain \in Nat
    BY WindowType, UnitsType
  <1>. QED BY <1>1, <1>2 DEF ReadDomain

\* There is a terminator, and then a first one, or there is none.
LEMMA DomainEither ==
  ASSUME NEW units \in Seq(Nat)
  PROVE  \/ \A i \in 1 .. DomainWindow(units) : units[i] # 0
         \/ \E end \in 1 .. DomainWindow(units) :
              units[end] = 0 /\ \A i \in 1 .. end - 1 : units[i] # 0
  <1>. DEFINE ends == {i \in 1 .. DomainWindow(units) : units[i] = 0}
  <1>. SUFFICES ASSUME ends # {}
                PROVE  \E end \in 1 .. DomainWindow(units) :
                         units[end] = 0 /\ \A i \in 1 .. end - 1 : units[i] # 0
    OBVIOUS
  <1>1. ends \in SUBSET Nat
    OBVIOUS
  <1>2. \A i : i \in ends <=> i \in 1 .. DomainWindow(units) /\ units[i] = 0
    OBVIOUS
  <1>. HIDE DEF ends
  <1>3. \E end \in ends : \A i \in ends : end <= i
    BY <1>1, LeastNatural
  <1>4. PICK end \in ends : \A i \in ends : end <= i
    BY <1>3
  <1>5. end \in 1 .. DomainWindow(units) /\ units[end] = 0
    BY <1>2, <1>4
  <1>6. ASSUME NEW i \in 1 .. end - 1 PROVE units[i] # 0
    <2>1. i \in 1 .. DomainWindow(units) /\ ~(end <= i)
      BY <1>5, WindowType
    <2>. QED BY <1>2, <1>4, <2>1
  <1>. QED BY <1>5, <1>6

\* What reading a domain comes to.
LEMMA DomainRead ==
  ASSUME NEW units \in Seq(Nat)
  PROVE  \/ ReadDomain(units) = Fail("InvalidDomainEncoding")
         \/ ReadDomain(units) = Fail("UnexpectedEnd")
         \/ \E end \in 1 .. Len(units) :
              /\ end <= MaxDomain + 1
              /\ units[end] = 0 /\ \A i \in 1 .. end - 1 : units[i] # 0 /\ units[i] \notin NotText
              /\ ReadDomain(units)
                   = [status |-> "Parsed", used |-> end, domain |-> SubSeq(units, 1, end - 1)]
  <1>1. CASE \A i \in 1 .. DomainWindow(units) : units[i] # 0
    BY <1>1, DomainNotFound
  <1>2. ASSUME NEW end \in 1 .. DomainWindow(units), units[end] = 0,
               \A i \in 1 .. end - 1 : units[i] # 0,
               ReadDomain(units) # Fail("InvalidDomainEncoding")
        PROVE  /\ end \in 1 .. Len(units) /\ end <= MaxDomain + 1
               /\ \A i \in 1 .. end - 1 : units[i] # 0 /\ units[i] \notin NotText
               /\ ReadDomain(units)
                    = [status |-> "Parsed", used |-> end, domain |-> SubSeq(units, 1, end - 1)]
    <2>1. end \in 1 .. Len(units) /\ end <= MaxDomain + 1
      BY UnitsType, WindowType
    <2>. DEFINE domain == SubSeq(units, 1, end - 1)
    <2>2. /\ domain \in Seq(Nat) /\ Len(domain) = end - 1
          /\ \A i \in 1 .. end - 1 : domain[i] = units[i]
      <3>1. /\ domain \in Seq(Nat) /\ Len(domain) = (end - 1) - 1 + 1
            /\ \A i \in 1 .. (end - 1) - 1 + 1 : domain[i] = units[1 + i - 1]
        BY <2>1, PartFacts
      <3>2. (end - 1) - 1 + 1 = end - 1 /\ \A i \in Int : 1 + i - 1 = i
        BY <2>1
      <3>. QED BY <3>1, <3>2
    <2>3. ReadDomain(units) =
            IF \E i \in DOMAIN domain : domain[i] \in NotText
            THEN Fail("InvalidDomainEncoding")
            ELSE [status |-> "Parsed", used |-> end, domain |-> domain]
      BY <1>2, DomainFound
    <2>. HIDE DEF domain
    <2>4. \A i \in 1 .. end - 1 : units[i] \notin NotText
      BY <1>2, <2>2, <2>3, SMTT(30)
    <2>5. ReadDomain(units) = [status |-> "Parsed", used |-> end, domain |-> domain]
      BY <1>2, <2>3
    <2>. QED BY <1>2, <2>1, <2>4, <2>5 DEF domain
  <1>. QED BY <1>1, <1>2, DomainEither

\* More units change nothing about a domain, unless it was cut short.
LEMMA DomainExtends ==
  ASSUME NEW units \in Seq(Nat), NEW more \in Seq(Nat),
         ReadDomain(units) # Fail("UnexpectedEnd")
  PROVE  ReadDomain(units \o more) = ReadDomain(units)
  <1>. DEFINE all == units \o more
  <1>1. /\ all \in Seq(Nat) /\ Len(all) >= Len(units)
        /\ \A i \in 1 .. Len(units) : all[i] = units[i]
    <2>1. /\ all \in Seq(Nat) /\ Len(all) = Len(units) + Len(more)
          /\ \A i \in 1 .. Len(units) : all[i] = units[i]
      BY ConcatProperties
    <2>2. Len(more) \in Nat /\ Len(units) \in Nat
      OBVIOUS
    <2>3. \A n \in Nat, m \in Nat : n + m >= n
      OBVIOUS
    <2>4. Len(all) >= Len(units)
      <3>. HIDE DEF all
      <3>. QED BY <2>1, <2>2, <2>3
    <2>. HIDE DEF all
    <2>. QED BY <2>1, <2>4
  <1>2. \A last \in 0 .. Len(units) : SubSeq(all, 1, last) = SubSeq(units, 1, last)
    BY PartOfLonger
  <1>. HIDE DEF all
  <1>3. /\ DomainWindow(units) \in 0 .. Len(units) /\ DomainWindow(all) \in Nat
        /\ DomainWindow(units) <= DomainWindow(all)
        /\ DomainWindow(units) > MaxDomain => DomainWindow(all) = DomainWindow(units)
    BY <1>1, UnitsType DEF DomainWindow
  <1>4. CASE \A i \in 1 .. DomainWindow(units) : units[i] # 0
    <2>1. DomainWindow(units) > MaxDomain
      <3>1. ReadDomain(units) = Fail(IF DomainWindow(units) > MaxDomain
                                     THEN "InvalidDomainEncoding" ELSE "UnexpectedEnd")
        BY <1>4, DomainNotFound
      <3>. QED BY <3>1
    <2>2. ASSUME NEW i \in 1 .. DomainWindow(all) PROVE all[i] # 0
      <3>1. i \in 1 .. DomainWindow(units) /\ i \in 1 .. Len(units)
        BY <1>3, <2>1
      <3>. QED BY <1>1, <1>4, <3>1
    <2>3. ReadDomain(all) = Fail("InvalidDomainEncoding")
      BY <1>1, <1>3, <2>1, <2>2, DomainNotFound
    <2>4. ReadDomain(units) = Fail("InvalidDomainEncoding")
      BY <1>4, <2>1, DomainNotFound
    <2>. QED BY <2>3, <2>4 DEF all
  <1>5. ASSUME NEW end \in 1 .. DomainWindow(units), units[end] = 0,
               \A i \in 1 .. end - 1 : units[i] # 0
        PROVE  ReadDomain(all) = ReadDomain(units)
    <2>1. end \in 1 .. DomainWindow(all) /\ end \in 1 .. Len(units)
      BY <1>3
    <2>2. all[end] = 0 /\ \A i \in 1 .. end - 1 : all[i] # 0
      <3>1. \A i \in 1 .. end : i \in 1 .. Len(units)
        BY <2>1
      <3>2. ASSUME NEW i \in 1 .. end - 1 PROVE all[i] # 0
        BY <1>1, <1>5, <3>1
      <3>. QED BY <1>1, <1>5, <2>1, <3>2
    <2>3. SubSeq(all, 1, end - 1) = SubSeq(units, 1, end - 1)
      BY <1>2, <2>1
    <2>. DEFINE result(domain) ==
           IF \E i \in DOMAIN domain : domain[i] \in NotText
           THEN Fail("InvalidDomainEncoding")
           ELSE [status |-> "Parsed", used |-> end, domain |-> domain]
    <2>4. ReadDomain(all) = result(SubSeq(all, 1, end - 1))
      BY <1>1, <2>1, <2>2, DomainFound
    <2>5. ReadDomain(units) = result(SubSeq(units, 1, end - 1))
      BY <1>5, DomainFound
    <2>. HIDE DEF result
    <2>. QED BY <2>3, <2>4, <2>5
  <1>. QED BY <1>4, <1>5, DomainEither DEF all

-----------------------------------------------------------------------------
(***************************************************************************)
(* A frame, read.                                                          *)
(***************************************************************************)

\* Where the fields of the frame units begin with end, its declared count and
\* the identifier in it, named so that they can be spoken of outside ParseOne.
DateEnd(units) == 1 + ReadDomain(Tail(units)).used + DateLength(units[1])
LengthEnd(units) == DateEnd(units) + LongWidth
Declared(units) == LittleEndianValue(SubSeq(units, DateEnd(units) + 1, LengthEnd(units)))
PayloadEnd(units) == LengthEnd(units) + Declared(units)
FrameEnd(units) == PayloadEnd(units) + SignatureLength
Present(units) == Len(units) - LengthEnd(units) - SignatureLength

FrameOwid(units) ==
  [version |-> units[1], domain |-> ReadDomain(Tail(units)).domain,
   date |-> ReadDate(SubSeq(units, 1 + ReadDomain(Tail(units)).used + 1, DateEnd(units)), units[1]),
   payload |-> SubSeq(units, LengthEnd(units) + 1, PayloadEnd(units)),
   signature |-> SubSeq(units, PayloadEnd(units) + 1, FrameEnd(units))]

\* parse_one as the list of its checks, in their order.
LEMMA ParseOneReads ==
  ASSUME NEW units, NEW extent, NEW room
  PROVE  ParseOne(units, extent, room) =
           IF units = << >> THEN Fail("MissingInput")
           ELSE IF units[1] = Empty THEN Fail("AbsentNode")
           ELSE IF units[1] \notin Versions THEN Fail("UnsupportedVersion")
           ELSE IF ReadDomain(Tail(units)).status # "Parsed" THEN Fail(ReadDomain(Tail(units)).status)
           ELSE IF Len(units) < LengthEnd(units) THEN Fail("UnexpectedEnd")
           ELSE IF Counts(extent, Declared(units), Present(units)) # "Parsed"
                THEN Fail(Counts(extent, Declared(units), Present(units)))
           ELSE IF Declared(units) > room THEN Fail("ImplementationCapacityExceeded")
           ELSE [status |-> "Parsed", used |-> FrameEnd(units), owid |-> FrameOwid(units)]
  BY DEF ParseOne, DateEnd, LengthEnd, Declared, PayloadEnd, FrameEnd, Present, FrameOwid

\* The fields of a frame whose domain was read, and whose units reach past its length.
Fielded(units) ==
  /\ units \in Seq(Nat) /\ units # << >>
  /\ ReadDomain(Tail(units)).status = "Parsed"

\* Where each field ends in a buffer whose domain was read.
LEMMA FieldsType ==
  ASSUME NEW units, Fielded(units)
  PROVE  \E end \in 1 .. Len(units) - 1 :
           /\ end <= MaxDomain + 1
           /\ units[1 + end] = 0
           /\ \A i \in 2 .. end : units[i] # 0 /\ units[i] \notin NotText
           /\ ReadDomain(Tail(units)).used = end
           /\ ReadDomain(Tail(units)).domain = SubSeq(units, 2, end)
           /\ ReadDomain(Tail(units)) =
                [status |-> "Parsed", used |-> end, domain |-> SubSeq(units, 2, end)]
           /\ DateEnd(units) = 1 + end + DateLength(units[1]) /\ DateEnd(units) \in Nat
           /\ LengthEnd(units) = DateEnd(units) + LongWidth /\ LengthEnd(units) \in Nat
           /\ Len(units) >= LengthEnd(units) =>
                /\ Declared(units) \in Nat
                /\ PayloadEnd(units) \in Nat /\ FrameEnd(units) \in Nat
                /\ Present(units) \in Int
  <1>. DEFINE rest == Tail(units)
  <1>1. /\ rest \in Seq(Nat) /\ Len(rest) = Len(units) - 1
        /\ \A i \in 1 .. Len(units) - 1 : rest[i] = units[i + 1]
    BY HeadTailProperties DEF Fielded
  <1>2. units \in Seq(Nat) /\ ReadDomain(rest).status = "Parsed" /\ Len(units) \in Nat
    BY DEF Fielded
  <1>. HIDE DEF rest
  <1>3. PICK end \in 1 .. Len(rest) :
          /\ end <= MaxDomain + 1
          /\ rest[end] = 0 /\ \A i \in 1 .. end - 1 : rest[i] # 0 /\ rest[i] \notin NotText
          /\ ReadDomain(rest) = [status |-> "Parsed", used |-> end, domain |-> SubSeq(rest, 1, end - 1)]
    <2>1. ReadDomain(rest) # Fail("InvalidDomainEncoding") /\ ReadDomain(rest) # Fail("UnexpectedEnd")
      BY <1>2 DEF Fail
    <2>2. rest \in Seq(Nat)
      BY <1>1
    <2>. QED BY <2>1, <2>2, DomainRead
  <1>4. end \in 1 .. Len(units) - 1 /\ end \in Nat
    BY <1>1, <1>2, <1>3
  <1>5. units[1 + end] = 0
    BY <1>1, <1>3, <1>4
  <1>6. ASSUME NEW i \in 2 .. end PROVE units[i] # 0 /\ units[i] \notin NotText
    <2>1. i - 1 \in 1 .. end - 1 /\ i - 1 \in 1 .. Len(units) - 1 /\ (i - 1) + 1 = i
      BY <1>4
    <2>. QED BY <1>1, <1>3, <2>1
  <1>7. SubSeq(rest, 1, end - 1) = SubSeq(units, 2, end)
    <2>. DEFINE left == SubSeq(rest, 1, end - 1)
                right == SubSeq(units, 2, end)
    <2>1. /\ left \in Seq(Nat) /\ Len(left) = (end - 1) - 1 + 1
          /\ \A i \in 1 .. (end - 1) - 1 + 1 : left[i] = rest[1 + i - 1]
      <3>1. 1 \in Nat \ {0} /\ end - 1 \in Nat /\ 1 <= (end - 1) + 1 /\ end - 1 <= Len(rest)
        BY <1>1, <1>4
      <3>. QED BY <1>1, <3>1, PartFacts
    <2>2. /\ right \in Seq(Nat) /\ Len(right) = end - 2 + 1
          /\ \A i \in 1 .. end - 2 + 1 : right[i] = units[2 + i - 1]
      <3>1. 2 \in Nat \ {0} /\ end \in Nat /\ 2 <= end + 1 /\ end <= Len(units)
        BY <1>2, <1>4
      <3>. QED BY <1>2, <3>1, PartFacts
    <2>. HIDE DEF left, right
    <2>3. Len(left) = end - 1 /\ Len(right) = end - 1
      BY <1>4, <2>1, <2>2
    <2>4. ASSUME NEW i \in 1 .. Len(left) PROVE left[i] = right[i]
      <3>1. 1 + i - 1 = i /\ 2 + i - 1 = i + 1 /\ i \in 1 .. Len(units) - 1 /\ i \in 1 .. end - 2 + 1
            /\ i \in 1 .. (end - 1) - 1 + 1
        BY <1>2, <1>4, <2>3
      <3>. QED BY <1>1, <2>1, <2>2, <3>1
    <2>5. left = right
      BY <2>1, <2>2, <2>3, <2>4, SeqEqual
    <2>. QED BY <2>5 DEF left, right
  <1>8. ReadDomain(rest) = [status |-> "Parsed", used |-> end, domain |-> SubSeq(units, 2, end)]
    BY <1>3, <1>7
  <1>9. DateEnd(units) = 1 + end + DateLength(units[1]) /\ DateEnd(units) \in Nat
    BY <1>3, <1>4, UnitsType DEF DateEnd, rest
  <1>10. LengthEnd(units) = DateEnd(units) + LongWidth /\ LengthEnd(units) \in Nat
    BY <1>9, UnitsType DEF LengthEnd
  <1>11. ASSUME Len(units) >= LengthEnd(units)
         PROVE  /\ Declared(units) \in Nat /\ PayloadEnd(units) \in Nat
                /\ FrameEnd(units) \in Nat /\ Present(units) \in Int
    <2>1. SubSeq(units, DateEnd(units) + 1, LengthEnd(units)) \in Seq(Nat)
      <3>1. /\ DateEnd(units) + 1 \in Nat \ {0} /\ DateEnd(units) + 1 <= LengthEnd(units) + 1
            /\ LengthEnd(units) <= Len(units)
        <4>1. PICK d \in Nat, l \in Nat, n \in Nat : d = DateEnd(units) /\ l = LengthEnd(units) /\ n = Len(units)
          BY <1>2, <1>9, <1>10
        <4>2. l = d + LongWidth /\ LongWidth \in Nat /\ l <= n
          BY <1>10, <1>11, <4>1, UnitsType
        <4>. QED BY <4>1, <4>2
      <3>. QED BY <1>2, <1>10, <3>1, PartFacts
    <2>2. Declared(units) \in Nat
      BY <2>1, ValueType DEF Declared
    <2>3. PayloadEnd(units) \in Nat
      BY <1>10, <2>2 DEF PayloadEnd
    <2>4. FrameEnd(units) \in Nat
      BY <2>3, UnitsType DEF FrameEnd
    <2>5. Present(units) \in Int
      BY <1>2, <1>10, UnitsType DEF Present
    <2>. QED BY <2>2, <2>3, <2>4, <2>5
  <1>12. /\ ReadDomain(Tail(units)) =
              [status |-> "Parsed", used |-> end, domain |-> SubSeq(units, 2, end)]
         /\ ReadDomain(Tail(units)).used = end
         /\ ReadDomain(Tail(units)).domain = SubSeq(units, 2, end)
    BY <1>8 DEF rest
  <1>13. end \in 1 .. Len(units) - 1 /\ end <= MaxDomain + 1
    BY <1>3, <1>4
  <1>. QED BY <1>5, <1>6, <1>9, <1>10, <1>11, <1>12, <1>13

\* More units change none of the fields that are there.
LEMMA FieldsExtend ==
  ASSUME NEW units, Fielded(units), NEW more \in Seq(Nat)
  PROVE  /\ Fielded(units \o more) /\ (units \o more)[1] = units[1]
         /\ ReadDomain(Tail(units \o more)) = ReadDomain(Tail(units))
         /\ Len(units \o more) = Len(units) + Len(more)
         /\ LengthEnd(units \o more) = LengthEnd(units)
         /\ Len(units) >= LengthEnd(units) =>
              /\ Declared(units \o more) = Declared(units)
              /\ FrameEnd(units \o more) = FrameEnd(units)
              /\ Len(units) >= FrameEnd(units) => FrameOwid(units \o more) = FrameOwid(units)
  <1>. DEFINE all == units \o more
  <1>1. units \in Seq(Nat) /\ units # << >> /\ ReadDomain(Tail(units)).status = "Parsed"
    BY DEF Fielded
  <1>2. all \in Seq(Nat) /\ Len(all) = Len(units) + Len(more)
    BY <1>1, ConcatProperties
  <1>3. /\ all # << >> /\ all[1] = units[1] /\ Tail(all) = Tail(units) \o more
        /\ Tail(units) \in Seq(Nat)
    BY <1>1, FirstAndRest
  <1>4. ASSUME NEW first \in Nat \ {0}, NEW last \in Nat, first <= last + 1, last <= Len(units)
        PROVE  SubSeq(all, first, last) = SubSeq(units, first, last)
    BY <1>1, <1>4, PartOfLonger
  <1>. HIDE DEF all
  <1>5. ReadDomain(Tail(units)) # Fail("UnexpectedEnd")
    BY <1>1 DEF Fail
  <1>6. ReadDomain(Tail(all)) = ReadDomain(Tail(units))
    BY <1>3, <1>5, DomainExtends
  <1>7. Fielded(all)
    BY <1>1, <1>2, <1>3, <1>6 DEF Fielded
  <1>8. DateEnd(all) = DateEnd(units) /\ LengthEnd(all) = LengthEnd(units)
    BY <1>3, <1>6 DEF DateEnd, LengthEnd
  <1>9. PICK d \in Nat, l \in Nat, n \in Nat, used \in Nat :
          /\ d = DateEnd(units) /\ l = LengthEnd(units) /\ n = Len(units)
          /\ l = d + LongWidth /\ used = ReadDomain(Tail(units)).used
          /\ d = 1 + used + DateLength(units[1])
          /\ n >= l => /\ Declared(units) \in Nat /\ PayloadEnd(units) \in Nat
                       /\ FrameEnd(units) \in Nat
    <2>1. PICK end \in 1 .. Len(units) - 1 :
            /\ ReadDomain(Tail(units)).used = end
            /\ DateEnd(units) = 1 + end + DateLength(units[1]) /\ DateEnd(units) \in Nat
            /\ LengthEnd(units) = DateEnd(units) + LongWidth /\ LengthEnd(units) \in Nat
            /\ Len(units) >= LengthEnd(units) =>
                 /\ Declared(units) \in Nat /\ PayloadEnd(units) \in Nat
                 /\ FrameEnd(units) \in Nat
      BY FieldsType
    <2>2. end \in Nat /\ Len(units) \in Nat
      BY <1>1, <2>1
    <2>. QED BY <2>1, <2>2
  <1>10. LongWidth \in Nat /\ DateLength(units[1]) \in Nat /\ SignatureLength \in Nat
    BY UnitsType
  <1>11. ASSUME n >= l
         PROVE  /\ Declared(all) = Declared(units) /\ PayloadEnd(all) = PayloadEnd(units)
                /\ FrameEnd(all) = FrameEnd(units)
    <2>1. d + 1 \in Nat \ {0} /\ l \in Nat /\ d + 1 <= l + 1 /\ l <= Len(units)
      BY <1>9, <1>10, <1>11, SMTT(30)
    <2>2. SubSeq(all, d + 1, l) = SubSeq(units, d + 1, l)
      BY <1>4, <2>1
    <2>3. Declared(all) = Declared(units)
      BY <1>8, <1>9, <2>2 DEF Declared
    <2>4. PayloadEnd(all) = PayloadEnd(units)
      BY <1>8, <2>3 DEF PayloadEnd
    <2>. QED BY <2>3, <2>4 DEF FrameEnd
  <1>12. ASSUME n >= l, n >= FrameEnd(units)
         PROVE  FrameOwid(all) = FrameOwid(units)
    <2>1. PICK p \in Nat, f \in Nat : /\ p = PayloadEnd(units) /\ f = FrameEnd(units)
                                      /\ l <= p /\ p <= f /\ f <= Len(units)
      <3>1. /\ Declared(units) \in Nat /\ PayloadEnd(units) \in Nat
            /\ FrameEnd(units) \in Nat
        BY <1>9, <1>12
      <3>2. PayloadEnd(units) = l + Declared(units) /\ FrameEnd(units) = PayloadEnd(units) + SignatureLength
        BY <1>9 DEF PayloadEnd, FrameEnd
      <3>3. l <= PayloadEnd(units) /\ PayloadEnd(units) <= FrameEnd(units)
        BY <1>10, <3>1, <3>2
      <3>4. FrameEnd(units) <= Len(units)
        BY <1>9, <1>12, <3>1
      <3>. QED BY <3>1, <3>3, <3>4
    <2>2. SubSeq(all, l + 1, p) = SubSeq(units, l + 1, p)
      <3>1. l + 1 \in Nat \ {0} /\ l + 1 <= p + 1 /\ p <= Len(units)
        BY <1>9, <2>1
      <3>. QED BY <1>4, <3>1
    <2>3. SubSeq(all, p + 1, f) = SubSeq(units, p + 1, f)
      <3>1. p + 1 \in Nat \ {0} /\ p + 1 <= f + 1 /\ f <= Len(units)
        BY <1>9, <2>1
      <3>. QED BY <1>4, <3>1
    <2>4. SubSeq(all, 1 + used + 1, d) = SubSeq(units, 1 + used + 1, d)
      <3>1. 1 + used + 1 \in Nat \ {0} /\ 1 + used + 1 <= d + 1 /\ d <= Len(units)
        <4>1. PICK w \in Nat : w = DateLength(units[1])
          BY <1>10
        <4>2. d = 1 + used + w /\ d <= l /\ l <= n
          BY <1>9, <1>10, <1>12, <4>1
        <4>3. 1 + used + 1 \in Nat \ {0} /\ 1 + used + 1 <= d + 1 /\ d <= n
          BY <4>2
        <4>4. n = Len(units)
          BY <1>9
        <4>. QED BY <4>3, <4>4
      <3>. QED BY <1>4, <3>1
    <2>5. LengthEnd(all) = l /\ DateEnd(all) = d /\ PayloadEnd(all) = p /\ FrameEnd(all) = f
      BY <1>8, <1>9, <1>11, <1>12, <2>1
    <2>. QED BY <1>3, <1>6, <1>9, <2>1, <2>2, <2>3, <2>4, <2>5 DEF FrameOwid
  <1>13. n >= l => /\ Declared(all) = Declared(units) /\ FrameEnd(all) = FrameEnd(units)
                   /\ n >= FrameEnd(units) => FrameOwid(all) = FrameOwid(units)
    BY <1>11, <1>12
  <1>. QED BY <1>2, <1>3, <1>6, <1>7, <1>8, <1>9, <1>13 DEF all

\* More units change nothing about a framed read that did not stop early.
LEMMA PrefixExtends ==
  ASSUME NEW units \in Seq(Nat), NEW more \in Seq(Nat), NEW room \in Nat,
         ParsePrefix(units, room).status \notin {"UnexpectedEnd", "MissingInput"}
  PROVE  ParsePrefix(units \o more, room) = ParsePrefix(units, room)
  <1>. DEFINE all == units \o more
  <1>1. units # << >>
    BY ParseOneReads DEF ParsePrefix, Fail
  <1>2. all \in Seq(Nat) /\ all # << >> /\ all[1] = units[1] /\ Tail(all) = Tail(units) \o more
    BY <1>1, FirstAndRest, ConcatProperties
  <1>3. Tail(units) \in Seq(Nat)
    BY <1>1, FirstAndRest
  <1>4. CASE units[1] = Empty
    BY <1>1, <1>2, <1>4 DEF ParsePrefix
  <1>5. ASSUME units[1] # Empty PROVE ParseOne(all, "prefix", room) = ParseOne(units, "prefix", room)
    <2>. DEFINE named == ReadDomain(Tail(units))
    <2>1. ParseOne(units, "prefix", room).status \notin {"UnexpectedEnd", "MissingInput"}
      BY <1>1, <1>5 DEF ParsePrefix
    <2>2. CASE units[1] \notin Versions
      BY <1>1, <1>2, <1>5, <2>2, ParseOneReads
    <2>3. ASSUME units[1] \in Versions, named.status # "Parsed"
          PROVE  ParseOne(all, "prefix", room) = ParseOne(units, "prefix", room)
      <3>1. ParseOne(units, "prefix", room) = Fail(named.status)
        BY <1>1, <1>5, <2>3, ParseOneReads
      <3>2. named # Fail("UnexpectedEnd")
        BY <2>1, <3>1 DEF Fail
      <3>3. ReadDomain(Tail(all)) = named
        BY <1>2, <1>3, <3>2, DomainExtends
      <3>4. ParseOne(all, "prefix", room) = Fail(named.status)
        BY <1>2, <1>5, <2>3, <3>3, ParseOneReads
      <3>. QED BY <3>1, <3>4
    <2>4. ASSUME units[1] \in Versions, named.status = "Parsed"
          PROVE  ParseOne(all, "prefix", room) = ParseOne(units, "prefix", room)
      <3>1. Fielded(units)
        BY <1>1, <2>4 DEF Fielded
      <3>2. /\ ReadDomain(Tail(all)) = named /\ Len(all) = Len(units) + Len(more)
            /\ LengthEnd(all) = LengthEnd(units)
            /\ Len(units) >= LengthEnd(units) =>
                 /\ Declared(all) = Declared(units)
                 /\ FrameEnd(all) = FrameEnd(units)
                 /\ Len(units) >= FrameEnd(units) => FrameOwid(all) = FrameOwid(units)
        BY <3>1, FieldsExtend
      <3>. HIDE DEF all, named
      <3>3. PICK l \in Nat, n \in Nat, m \in Nat : /\ l = LengthEnd(units) /\ n = Len(units)
                                                   /\ m = Len(more)
        BY <3>1, FieldsType
      <3>4. n >= l
        <4>1. ASSUME n < l PROVE FALSE
          <5>1. ParseOne(units, "prefix", room) = Fail("UnexpectedEnd")
            BY <1>1, <1>5, <2>4, <3>3, <4>1, ParseOneReads DEF named
          <5>. QED BY <2>1, <5>1 DEF Fail
        <4>. QED BY <3>3, <4>1
      <3>5. PICK k \in Nat, f \in Nat : k = Declared(units) /\ f = FrameEnd(units) /\ f = l + k + SignatureLength
        <4>1. Declared(units) \in Nat
          BY <3>1, <3>3, <3>4, FieldsType
        <4>. QED BY <3>3, <4>1, UnitsType DEF FrameEnd, PayloadEnd
      <3>6. PICK w \in Nat : w = SignatureLength
        BY UnitsType
      <3>7. Present(units) = n - l - w /\ Present(all) = (n + m) - l - w
        <4>1. Len(all) = n + m /\ LengthEnd(all) = l
          BY <3>2, <3>3
        <4>2. /\ Present(units) = Len(units) - LengthEnd(units) - SignatureLength
              /\ Present(all) = Len(all) - LengthEnd(all) - SignatureLength
          BY DEF Present
        <4>3. n = Len(units) /\ l = LengthEnd(units) /\ w = SignatureLength
          BY <3>3, <3>6
        <4>. QED BY <4>1, <4>2, <4>3, Zenon
      <3>8. ~(Present(units) < k)
        <4>1. ASSUME Present(units) < k PROVE FALSE
          <5>1. Counts("prefix", k, Present(units)) = "UnexpectedEnd"
            BY <4>1 DEF Counts
          <5>2. ParseOne(units, "prefix", room) = Fail("UnexpectedEnd")
            <6>1. ~(Len(units) < LengthEnd(units))
              BY <3>3, <3>4
            <6>. QED BY <1>1, <1>5, <2>4, <3>5, <5>1, <6>1, ParseOneReads DEF named
          <5>. QED BY <2>1, <5>2 DEF Fail
        <4>. QED BY <4>1
      <3>9. /\ Counts("prefix", k, Present(units)) = "Parsed"
            /\ Counts("prefix", k, Present(all)) = "Parsed"
        <4>1. ~(Present(all) < k)
          BY <3>3, <3>6, <3>7, <3>8
        <4>. QED BY <3>8, <4>1 DEF Counts
      <3>10. n >= f
        <4>1. n - l - w >= k
          BY <3>7, <3>8
        <4>. QED BY <3>5, <3>6, <4>1
      <3>11. Declared(all) = k /\ FrameEnd(all) = f /\ FrameOwid(all) = FrameOwid(units)
        BY <3>2, <3>3, <3>4, <3>5, <3>10
      <3>12. ~(Len(units) < LengthEnd(units)) /\ ~(Len(all) < LengthEnd(all))
        BY <3>2, <3>3, <3>4
      <3>13. ParseOne(units, "prefix", room)
               = IF k > room THEN Fail("ImplementationCapacityExceeded")
                 ELSE [status |-> "Parsed", used |-> f, owid |-> FrameOwid(units)]
        BY <1>1, <1>5, <2>4, <3>5, <3>9, <3>12, ParseOneReads DEF named
      <3>14. ParseOne(all, "prefix", room)
               = IF k > room THEN Fail("ImplementationCapacityExceeded")
                 ELSE [status |-> "Parsed", used |-> f, owid |-> FrameOwid(units)]
        BY <1>2, <1>5, <2>4, <3>2, <3>9, <3>11, <3>12, ParseOneReads DEF named
      <3>. QED BY <3>13, <3>14
    <2>. QED BY <2>2, <2>3, <2>4
  <1>6. CASE units[1] # Empty
    BY <1>1, <1>2, <1>5, <1>6 DEF ParsePrefix
  <1>. QED BY <1>4, <1>6

\* The units begin with a frame, all of it there and room for it.
Framed(units, room) ==
  /\ Fielded(units) /\ units[1] \in Versions
  /\ Len(units) >= LengthEnd(units) /\ FrameEnd(units) <= Len(units)
  /\ Declared(units) <= room

\* Everything the two reads may answer, side by side.
LEMMA ReadsAnswer ==
  ASSUME NEW units \in Seq(Nat), NEW room \in Nat
  PROVE  \/ /\ units = << >>
            /\ ParsePrefix(units, room) = Fail("MissingInput")
            /\ ParseExact(units, room) = Fail("MissingInput")
         \/ /\ units # << >> /\ units[1] = Empty
            /\ ParsePrefix(units, room) = [status |-> "AbsentNode", used |-> 1, owid |-> Absent]
            /\ ParseExact(units, room) = Fail("AbsentNode")
         \/ /\ Framed(units, room) /\ units[1] # Empty
            /\ ParsePrefix(units, room)
                 = [status |-> "Parsed", used |-> FrameEnd(units), owid |-> FrameOwid(units)]
            /\ ParseExact(units, room) = IF FrameEnd(units) = Len(units)
                                         THEN ParsePrefix(units, room) ELSE Fail("ByteCountMismatch")
         \/ \E status \in {"UnsupportedVersion", "InvalidDomainEncoding", "UnexpectedEnd",
                           "ImplementationCapacityExceeded"} :
              /\ units # << >> /\ units[1] # Empty
              /\ ParsePrefix(units, room) = Fail(status)
              /\ \/ ParseExact(units, room) = Fail(status)
                 \/ /\ status \in {"UnexpectedEnd", "ImplementationCapacityExceeded"}
                    /\ ParseExact(units, room) = Fail("ByteCountMismatch")
  <1>. DEFINE failing(status) ==
         /\ ParsePrefix(units, room) = Fail(status)
         /\ \/ ParseExact(units, room) = Fail(status)
            \/ /\ status \in {"UnexpectedEnd", "ImplementationCapacityExceeded"}
               /\ ParseExact(units, room) = Fail("ByteCountMismatch")
  <1>1. CASE units = << >>
    BY <1>1, ParseOneReads DEF ParsePrefix, ParseExact
  <1>2. CASE units # << >> /\ units[1] = Empty
    BY <1>2, ParseOneReads DEF ParsePrefix, ParseExact
  <1>3. ASSUME units # << >>, units[1] # Empty
        PROVE  /\ ParsePrefix(units, room) = ParseOne(units, "prefix", room)
               /\ ParseExact(units, room) = ParseOne(units, "whole", room)
    BY <1>3 DEF ParsePrefix, ParseExact
  <1>4. ASSUME units # << >>, units[1] # Empty, units[1] \notin Versions
        PROVE  failing("UnsupportedVersion")
    BY <1>3, <1>4, ParseOneReads
  <1>5. ASSUME units # << >>, units[1] # Empty, units[1] \in Versions,
               ReadDomain(Tail(units)).status # "Parsed"
        PROVE  failing("InvalidDomainEncoding") \/ failing("UnexpectedEnd")
    <2>1. PICK status : status = ReadDomain(Tail(units)).status
      OBVIOUS
    <2>2. status \in {"InvalidDomainEncoding", "UnexpectedEnd"}
      <3>1. Tail(units) \in Seq(Nat)
        BY <1>5, HeadTailProperties
      <3>2. PICK rest \in Seq(Nat) : rest = Tail(units)
        BY <3>1
      <3>3. \/ ReadDomain(rest) = Fail("InvalidDomainEncoding")
            \/ ReadDomain(rest) = Fail("UnexpectedEnd")
            \/ \E end \in 1 .. Len(rest) :
                 ReadDomain(rest) =
                   [status |-> "Parsed", used |-> end, domain |-> SubSeq(rest, 1, end - 1)]
        BY DomainRead
      <3>. QED BY <1>5, <2>1, <3>2, <3>3 DEF Fail
    <2>3. /\ ParseOne(units, "prefix", room) = Fail(status)
          /\ ParseOne(units, "whole", room) = Fail(status)
      BY <1>5, <2>1, ParseOneReads
    <2>4. ParsePrefix(units, room) = Fail(status) /\ ParseExact(units, room) = Fail(status)
      BY <1>3, <1>5, <2>3
    <2>. QED BY <2>2, <2>4
  <1>6. ASSUME units # << >>, units[1] # Empty, units[1] \in Versions,
               ReadDomain(Tail(units)).status = "Parsed", Len(units) < LengthEnd(units)
        PROVE  failing("UnexpectedEnd")
    BY <1>3, <1>6, ParseOneReads
  <1>7. ASSUME units # << >>, units[1] # Empty, units[1] \in Versions,
               ReadDomain(Tail(units)).status = "Parsed", ~(Len(units) < LengthEnd(units))
        PROVE  \/ failing("UnexpectedEnd") \/ failing("ImplementationCapacityExceeded")
               \/ /\ Framed(units, room)
                  /\ ParsePrefix(units, room)
                       = [status |-> "Parsed", used |-> FrameEnd(units), owid |-> FrameOwid(units)]
                  /\ ParseExact(units, room) = IF FrameEnd(units) = Len(units)
                                               THEN ParsePrefix(units, room)
                                               ELSE Fail("ByteCountMismatch")
    <2>1. Fielded(units)
      BY <1>7 DEF Fielded
    <2>2. PICK l \in Nat, n \in Nat : l = LengthEnd(units) /\ n = Len(units) /\ n >= l
      <3>1. LengthEnd(units) \in Nat /\ Len(units) \in Nat
        BY <2>1, FieldsType
      <3>. QED BY <1>7, <3>1
    <2>3. PICK k \in Nat : k = Declared(units)
      <3>1. Declared(units) \in Nat
        BY <2>1, <2>2, FieldsType
      <3>. QED BY <3>1
    <2>4. PICK w \in Nat : w = SignatureLength
      BY UnitsType
    <2>5. Present(units) = (n - l) - w /\ FrameEnd(units) = (l + k) + w
      BY <2>2, <2>3, <2>4 DEF Present, FrameEnd, PayloadEnd
    <2>6. PICK present \in Int : present = Present(units) /\ present = (n - l) - w
      BY <2>5
    <2>. DEFINE reads(extent) ==
           IF Counts(extent, k, present) # "Parsed" THEN Fail(Counts(extent, k, present))
           ELSE IF k > room THEN Fail("ImplementationCapacityExceeded")
           ELSE [status |-> "Parsed", used |-> FrameEnd(units), owid |-> FrameOwid(units)]
    <2>7. ParsePrefix(units, room) = reads("prefix") /\ ParseExact(units, room) = reads("whole")
      <3>1. \A extent : ParseOne(units, extent, room) = reads(extent)
        BY <1>7, <2>3, <2>6, ParseOneReads
      <3>. HIDE DEF reads
      <3>. QED BY <1>3, <1>7, <3>1
    <2>8. /\ Counts("prefix", k, present) = IF present < k THEN "UnexpectedEnd" ELSE "Parsed"
          /\ Counts("whole", k, present) = IF present # k THEN "ByteCountMismatch" ELSE "Parsed"
      BY DEF Counts
    <2>9. CASE present < k
      <3>1. present # k
        BY <2>9
      <3>2. reads("prefix") = Fail("UnexpectedEnd") /\ reads("whole") = Fail("ByteCountMismatch")
        BY <2>8, <2>9, <3>1
      <3>. HIDE DEF reads
      <3>. QED BY <2>7, <3>2
    <2>10. CASE ~(present < k) /\ k > room
      <3>1. /\ reads("prefix") = Fail("ImplementationCapacityExceeded")
            /\ \/ reads("whole") = Fail("ImplementationCapacityExceeded")
               \/ reads("whole") = Fail("ByteCountMismatch")
        BY <2>8, <2>10
      <3>. HIDE DEF reads
      <3>. QED BY <2>7, <3>1
    <2>11. ASSUME ~(present < k), ~(k > room)
           PROVE  /\ Framed(units, room)
                  /\ ParsePrefix(units, room)
                       = [status |-> "Parsed", used |-> FrameEnd(units), owid |-> FrameOwid(units)]
                  /\ ParseExact(units, room) = IF FrameEnd(units) = Len(units)
                                               THEN ParsePrefix(units, room)
                                               ELSE Fail("ByteCountMismatch")
      <3>1. FrameEnd(units) <= Len(units) /\ (present = k <=> FrameEnd(units) = Len(units))
        <4>1. (l + k) + w <= n /\ (present = k <=> (l + k) + w = n)
          BY <2>6, <2>11
        <4>. QED BY <2>2, <2>5, <4>1
      <3>2. Framed(units, room)
        BY <1>7, <2>1, <2>2, <2>3, <2>11, <3>1 DEF Framed
      <3>3. reads("prefix")
              = [status |-> "Parsed", used |-> FrameEnd(units), owid |-> FrameOwid(units)]
        BY <2>8, <2>11
      <3>4. reads("whole")
              = IF FrameEnd(units) = Len(units)
                THEN [status |-> "Parsed", used |-> FrameEnd(units), owid |-> FrameOwid(units)]
                ELSE Fail("ByteCountMismatch")
        BY <2>8, <2>11, <3>1
      <3>. HIDE DEF reads
      <3>. QED BY <2>7, <3>2, <3>3, <3>4
    <2>. HIDE DEF reads, failing
    <2>. QED BY <2>9, <2>10, <2>11
  <1>8. CASE \E status \in {"UnsupportedVersion", "InvalidDomainEncoding", "UnexpectedEnd",
                            "ImplementationCapacityExceeded"} :
               units # << >> /\ units[1] # Empty /\ failing(status)
    BY <1>8
  <1>. HIDE DEF failing
  <1>. QED BY <1>1, <1>2, <1>4, <1>5, <1>6, <1>7, <1>8

-----------------------------------------------------------------------------
(***************************************************************************)
(* An identifier, written.                                                 *)
(***************************************************************************)

\* An identifier that no field of is refused when it is written.
Writable(o) ==
  /\ o.version \in Versions
  /\ o.domain \in Seq(Nat) /\ Len(o.domain) <= MaxDomain
  /\ \A i \in 1 .. Len(o.domain) : o.domain[i] # 0
  /\ WriteDate(o.date, o.version) = Written(WriteDate(o.date, o.version).units)
  /\ WriteDate(o.date, o.version).units \in Seq(Bytes)
  /\ Len(WriteDate(o.date, o.version).units) = DateLength(o.version)
  /\ o.payload \in Seq(Nat) /\ Fits(Len(o.payload), LongWidth)

DateUnits(o) == WriteDate(o.date, o.version).units
LengthUnits(o) == LittleEndian(Len(o.payload), LongWidth)

\* The units of its fields, and with its signature.
FieldUnits(o) ==
  ((<<o.version>> \o Append(o.domain, 0)) \o DateUnits(o)) \o (LengthUnits(o) \o o.payload)
OwidUnits(o) == FieldUnits(o) \o o.signature

\* Two sequences joined are as long as both.
LEMMA Joined ==
  ASSUME NEW S, NEW s \in Seq(S), NEW t \in Seq(S)
  PROVE  s \o t \in Seq(S) /\ Len(s \o t) = Len(s) + Len(t)
  BY ConcatProperties

\* The units each field of a writable identifier is written as.
LEMMA WritableUnits ==
  ASSUME NEW o, Writable(o)
  PROVE  /\ <<o.version>> \in Seq(Nat) /\ Len(<<o.version>>) = 1
         /\ Append(o.domain, 0) \in Seq(Nat) /\ Len(Append(o.domain, 0)) = Len(o.domain) + 1
         /\ DateUnits(o) \in Seq(Nat) /\ DateUnits(o) \in Seq(Bytes)
         /\ Len(DateUnits(o)) = DateLength(o.version)
         /\ LengthUnits(o) \in Seq(Nat) /\ LengthUnits(o) \in Seq(Bytes)
         /\ Len(LengthUnits(o)) = LongWidth
         /\ Len(o.payload) \in 0 .. Power[LongWidth] - 1
         /\ FieldUnits(o) \in Seq(Nat) /\ Len(FieldUnits(o)) = EncodedLen(o, FALSE)
  <1>1. o.version \in Nat /\ o.domain \in Seq(Nat) /\ o.payload \in Seq(Nat) /\ LongWidth \in Nat
    BY UnitsType DEF Writable, Versions, Version1, Version2, Version3
  <1>2. <<o.version>> \in Seq(Nat) /\ Len(<<o.version>>) = 1
    BY <1>1
  <1>3. Append(o.domain, 0) \in Seq(Nat) /\ Len(Append(o.domain, 0)) = Len(o.domain) + 1
    BY <1>1, AppendProperties
  <1>4. DateUnits(o) \in Seq(Bytes) /\ Len(DateUnits(o)) = DateLength(o.version)
    BY DEF DateUnits, Writable
  <1>5. DateUnits(o) \in Seq(Nat)
    BY <1>4, BytesAreNaturals
  <1>6. Len(o.payload) \in Nat
    BY <1>1
  <1>7. LengthUnits(o) \in Seq(Bytes) /\ Len(LengthUnits(o)) = LongWidth
    BY <1>1, <1>6, DigitsType DEF LengthUnits
  <1>8. LengthUnits(o) \in Seq(Nat)
    BY <1>7, BytesAreNaturals
  <1>9. Len(o.payload) \in 0 .. Power[LongWidth] - 1
    <2>1. Power[LongWidth] \in Nat
      BY <1>1, PowerFacts
    <2>. QED BY <1>6, <2>1 DEF Writable, Fits
  <1>. DEFINE a == <<o.version>> \o Append(o.domain, 0)
              b == a \o DateUnits(o)
              c == LengthUnits(o) \o o.payload
  <1>10. a \in Seq(Nat) /\ Len(a) = 1 + (Len(o.domain) + 1)
    BY <1>2, <1>3, Joined
  <1>11. b \in Seq(Nat) /\ Len(b) = Len(a) + DateLength(o.version)
    <2>. HIDE DEF a
    <2>. QED BY <1>4, <1>5, <1>10, Joined
  <1>12. c \in Seq(Nat) /\ Len(c) = LongWidth + Len(o.payload)
    BY <1>1, <1>7, <1>8, Joined
  <1>13. b \o c \in Seq(Nat) /\ Len(b \o c) = Len(b) + Len(c)
    <2>. HIDE DEF b, c
    <2>. QED BY <1>11, <1>12, Joined
  <1>14. FieldUnits(o) = b \o c
    BY DEF FieldUnits
  <1>15. Len(FieldUnits(o)) = (1 + (Len(o.domain) + 1) + DateLength(o.version)) + (LongWidth + Len(o.payload))
    <2>. HIDE DEF a, b, c
    <2>. QED BY <1>10, <1>11, <1>12, <1>13, <1>14
  <1>16. (1 + (Len(o.domain) + 1) + DateLength(o.version)) + (LongWidth + Len(o.payload))
           = EncodedLen(o, FALSE)
    <2>1. PICK d \in Nat, w \in Nat, p \in Nat, l \in Nat :
            d = Len(o.domain) /\ w = DateLength(o.version) /\ p = Len(o.payload) /\ l = LongWidth
      BY <1>1, <1>6, UnitsType
    <2>2. EncodedLen(o, FALSE) = 1 + d + 1 + w + l + p + 0
      BY <2>1 DEF EncodedLen
    <2>3. (1 + (d + 1) + w) + (l + p) = 1 + d + 1 + w + l + p + 0
      OBVIOUS
    <2>. QED BY <2>1, <2>2, <2>3
  <1>. HIDE DEF a, b, c
  <1>. QED BY <1>2, <1>3, <1>4, <1>5, <1>7, <1>8, <1>9, <1>13, <1>14, <1>15, <1>16

\* Such an identifier is written field by field, and takes the units that were
\* reserved for it.
LEMMA WritesFields ==
  ASSUME NEW o, Writable(o)
  PROVE  /\ NoSignature(o) = Written(FieldUnits(o))
         /\ LengthRefused(o, FALSE) = "none"
         /\ o.signature \in Seq(Nat) /\ Len(o.signature) = SignatureLength =>
              /\ ToBuffer(o) = Written(OwidUnits(o))
              /\ OwidUnits(o) \in Seq(Nat)
              /\ Len(OwidUnits(o)) = EncodedLen(o, TRUE)
              /\ Len(OwidUnits(o)) = EncodedLen(o, FALSE) + SignatureLength
              /\ LengthRefused(o, TRUE) = "none"
  <1>1. \A a, b : Then(Written(a), Written(b)) = Written(a \o b)
    BY DEF Then, Written
  <1>2. WriteDomain(o.domain) = Written(Append(o.domain, 0))
    <2>1. \A i \in DOMAIN o.domain : o.domain[i] # 0
      BY DEF Writable
    <2>2. ~(Len(o.domain) > MaxDomain)
      <3>1. PICK n \in Nat : n = Len(o.domain) /\ n <= MaxDomain
        BY DEF Writable
      <3>. QED BY <3>1, UnitsType
    <2>. QED BY <2>1, <2>2 DEF WriteDomain
  <1>3. WriteDate(o.date, o.version) = Written(DateUnits(o))
    BY DEF Writable, DateUnits
  <1>4. WriteByteArray(o.payload) = Written(LengthUnits(o) \o o.payload)
    BY DEF Writable, WriteByteArray, LengthUnits
  <1>5. NoSignature(o) = Written(FieldUnits(o))
    <2>1. Then(Written(<<o.version>>), WriteDomain(o.domain))
            = Written(<<o.version>> \o Append(o.domain, 0))
      BY <1>1, <1>2
    <2>2. Then(Written(<<o.version>> \o Append(o.domain, 0)), WriteDate(o.date, o.version))
            = Written((<<o.version>> \o Append(o.domain, 0)) \o DateUnits(o))
      BY <1>1, <1>3
    <2>. QED BY <1>1, <1>4, <2>1, <2>2 DEF NoSignature, FieldUnits
  <1>6. LengthRefused(o, FALSE) = "none"
    BY DEF LengthRefused, Writable
  <1>7. ASSUME o.signature \in Seq(Nat), Len(o.signature) = SignatureLength
        PROVE  /\ ToBuffer(o) = Written(OwidUnits(o))
               /\ OwidUnits(o) \in Seq(Nat)
               /\ Len(OwidUnits(o)) = EncodedLen(o, TRUE)
               /\ Len(OwidUnits(o)) = EncodedLen(o, FALSE) + SignatureLength
               /\ LengthRefused(o, TRUE) = "none"
    <2>1. WriteSignature(o.signature) = Written(o.signature)
      BY <1>7 DEF WriteSignature
    <2>2. ToBuffer(o) = Written(OwidUnits(o))
      BY <1>1, <1>5, <2>1 DEF ToBuffer, OwidUnits
    <2>3. /\ OwidUnits(o) \in Seq(Nat)
          /\ Len(OwidUnits(o)) = EncodedLen(o, FALSE) + SignatureLength
      <3>1. PICK fields \in Seq(Nat) : fields = FieldUnits(o) /\ Len(fields) = EncodedLen(o, FALSE)
        BY WritableUnits
      <3>. QED BY <1>7, <3>1, Joined DEF OwidUnits
    <2>4. EncodedLen(o, TRUE) = EncodedLen(o, FALSE) + SignatureLength
      <3>1. PICK d \in Nat, w \in Nat, p \in Nat, l \in Nat, k \in Nat :
              /\ d = Len(o.domain) /\ w = DateLength(o.version) /\ p = Len(o.payload)
              /\ l = LongWidth /\ k = SignatureLength
        BY UnitsType DEF Writable
      <3>2. /\ EncodedLen(o, FALSE) = 1 + d + 1 + w + l + p + 0
            /\ EncodedLen(o, TRUE) = 1 + d + 1 + w + l + p + k
        BY <3>1 DEF EncodedLen
      <3>3. 1 + d + 1 + w + l + p + k = (1 + d + 1 + w + l + p + 0) + k
        OBVIOUS
      <3>4. k = SignatureLength
        BY <3>1
      <3>. QED BY <3>2, <3>3, <3>4, Zenon
    <2>5. LengthRefused(o, TRUE) = "none"
      BY <1>7 DEF LengthRefused, Writable
    <2>. QED BY <2>2, <2>3, <2>4, <2>5
  <1>. QED BY <1>5, <1>6, <1>7

-----------------------------------------------------------------------------
(***************************************************************************)
(* What was read is written, and what was written is read.                 *)
(***************************************************************************)

\* Where the fields of a frame that was read lie, one after the other.
LEMMA FrameLayout ==
  ASSUME NEW units \in Seq(Nat), NEW room \in Nat, Framed(units, room)
  PROVE  \E end \in Nat \ {0}, d \in Nat, l \in Nat, p \in Nat, f \in Nat, w \in Nat :
           /\ end <= MaxDomain + 1 /\ 1 + end <= Len(units) /\ units[1 + end] = 0
           /\ \A i \in 2 .. end : units[i] # 0 /\ units[i] \notin NotText
           /\ w = DateLength(units[1]) /\ d = (1 + end) + w /\ l = d + LongWidth /\ 1 + end <= d /\ d <= l
           /\ l <= p /\ p <= f /\ f <= Len(units)
           /\ f = p + SignatureLength /\ p = l + LittleEndianValue(SubSeq(units, d + 1, l))
           /\ f = FrameEnd(units)
           /\ FrameOwid(units) =
                [version |-> units[1], domain |-> SubSeq(units, 2, end),
                 date |-> ReadDate(SubSeq(units, (1 + end) + 1, d), units[1]),
                 payload |-> SubSeq(units, l + 1, p),
                 signature |-> SubSeq(units, p + 1, f)]
  <1>1. Fielded(units) /\ Len(units) >= LengthEnd(units) /\ FrameEnd(units) <= Len(units)
    BY DEF Framed
  <1>2. PICK end \in 1 .. Len(units) - 1 :
          /\ end <= MaxDomain + 1 /\ units[1 + end] = 0
          /\ \A i \in 2 .. end : units[i] # 0 /\ units[i] \notin NotText
          /\ ReadDomain(Tail(units)).used = end
          /\ ReadDomain(Tail(units)).domain = SubSeq(units, 2, end)
          /\ DateEnd(units) = 1 + end + DateLength(units[1]) /\ DateEnd(units) \in Nat
          /\ LengthEnd(units) = DateEnd(units) + LongWidth /\ LengthEnd(units) \in Nat
          /\ Len(units) >= LengthEnd(units) =>
               /\ Declared(units) \in Nat /\ PayloadEnd(units) \in Nat /\ FrameEnd(units) \in Nat
    BY <1>1, FieldsType
  <1>3. PICK w \in Nat, v \in Nat, g \in Nat, n \in Nat :
          w = DateLength(units[1]) /\ v = LongWidth /\ g = SignatureLength /\ n = Len(units)
    <2>1. /\ DateLength(units[1]) \in Nat /\ LongWidth \in Nat /\ SignatureLength \in Nat
          /\ Len(units) \in Nat
      BY UnitsType
    <2>. QED BY <2>1
  <1>4. PICK d \in Nat, l \in Nat, k \in Nat, p \in Nat, f \in Nat :
          /\ d = DateEnd(units) /\ l = LengthEnd(units) /\ k = Declared(units)
          /\ p = PayloadEnd(units) /\ f = FrameEnd(units)
    BY <1>1, <1>2
  <1>5. k = LittleEndianValue(SubSeq(units, d + 1, l)) /\ p = l + k /\ f = p + g
    BY <1>3, <1>4 DEF Declared, PayloadEnd, FrameEnd
  <1>6. end \in Nat \ {0} /\ 1 + end <= n /\ d = (1 + end) + w /\ l = d + v /\ f <= n
    BY <1>1, <1>2, <1>3, <1>4
  <1>7. 1 + end <= d /\ d <= l /\ l <= p /\ p <= f
    BY <1>5, <1>6, SMTT(30)
  <1>8. FrameOwid(units) =
          [version |-> units[1], domain |-> SubSeq(units, 2, end),
           date |-> ReadDate(SubSeq(units, (1 + end) + 1, d), units[1]),
           payload |-> SubSeq(units, l + 1, p),
           signature |-> SubSeq(units, p + 1, f)]
    BY <1>2, <1>4 DEF FrameOwid
  <1>9. /\ end <= MaxDomain + 1 /\ 1 + end <= Len(units) /\ units[1 + end] = 0
        /\ \A i \in 2 .. end : units[i] # 0 /\ units[i] \notin NotText
        /\ w = DateLength(units[1]) /\ d = (1 + end) + w /\ l = d + LongWidth
        /\ f <= Len(units) /\ f = FrameEnd(units)
        /\ f = p + SignatureLength /\ p = l + LittleEndianValue(SubSeq(units, d + 1, l))
    BY <1>2, <1>3, <1>4, <1>5, <1>6
  <1>. QED BY <1>6, <1>7, <1>8, <1>9

\* A whole frame has the fields of an identifier.
LEMMA FrameIsOwid ==
  ASSUME NEW units \in Seq(Nat), NEW room \in Nat, Framed(units, room)
  PROVE  /\ FrameOwid(units).version \in Versions
         /\ FrameOwid(units).signature \in Seq(Nat)
         /\ Len(FrameOwid(units).signature) = SignatureLength
         /\ FrameEnd(units) \in 1 .. Len(units)
  <1>1. PICK p \in Nat, f \in Nat :
          /\ p <= f /\ f <= Len(units) /\ f = p + SignatureLength /\ f = FrameEnd(units)
          /\ FrameOwid(units).version = units[1]
          /\ FrameOwid(units).signature = SubSeq(units, p + 1, f)
    <2>1. PICK end \in Nat \ {0}, d \in Nat, l \in Nat, p \in Nat, f \in Nat, w \in Nat :
           /\ end <= MaxDomain + 1 /\ 1 + end <= Len(units) /\ units[1 + end] = 0
           /\ \A i \in 2 .. end : units[i] # 0 /\ units[i] \notin NotText
           /\ w = DateLength(units[1]) /\ d = (1 + end) + w /\ l = d + LongWidth /\ 1 + end <= d /\ d <= l
           /\ l <= p /\ p <= f /\ f <= Len(units)
           /\ f = p + SignatureLength /\ p = l + LittleEndianValue(SubSeq(units, d + 1, l))
           /\ f = FrameEnd(units)
           /\ FrameOwid(units) =
                [version |-> units[1], domain |-> SubSeq(units, 2, end),
                 date |-> ReadDate(SubSeq(units, (1 + end) + 1, d), units[1]),
                 payload |-> SubSeq(units, l + 1, p),
                 signature |-> SubSeq(units, p + 1, f)]
      BY FrameLayout
    <2>2. /\ FrameOwid(units).version = units[1]
          /\ FrameOwid(units).signature = SubSeq(units, p + 1, f)
      <3>1. FrameOwid(units) =
              [version |-> units[1], domain |-> SubSeq(units, 2, end),
               date |-> ReadDate(SubSeq(units, (1 + end) + 1, d), units[1]),
               payload |-> SubSeq(units, l + 1, p),
               signature |-> SubSeq(units, p + 1, f)]
        BY <2>1
      <3>. QED BY <3>1
    <2>. QED BY <2>1, <2>2
  <1>2. units[1] \in Versions
    BY DEF Framed
  <1>3. p + 1 \in Nat \ {0} /\ p + 1 <= f + 1
    BY <1>1
  <1>4. SubSeq(units, p + 1, f) \in Seq(Nat) /\ Len(SubSeq(units, p + 1, f)) = f - (p + 1) + 1
    BY <1>1, <1>3, PartFacts
  <1>5. f - (p + 1) + 1 = SignatureLength /\ f >= 1
    <2>1. PICK g \in Nat \ {0} : g = SignatureLength
      BY UnitsType
    <2>. QED BY <1>1, <2>1
  <1>. QED BY <1>1, <1>2, <1>4, <1>5, SMTT(30)

\* An identifier that was read can be written, and is written with the very units
\* it was read from.
LEMMA WritesWhatItReads ==
  ASSUME NEW units \in Seq(Bytes), NEW room \in Nat, Framed(units, room)
  PROVE  /\ Writable(FrameOwid(units))
         /\ OwidUnits(FrameOwid(units)) = SubSeq(units, 1, FrameEnd(units))
  <1>1. units \in Seq(Nat)
    BY BytesAreNaturals
  <1>2. PICK end \in Nat \ {0}, d \in Nat, l \in Nat, p \in Nat, f \in Nat, w \in Nat :
           /\ end <= MaxDomain + 1 /\ 1 + end <= Len(units) /\ units[1 + end] = 0
           /\ \A i \in 2 .. end : units[i] # 0 /\ units[i] \notin NotText
           /\ w = DateLength(units[1]) /\ d = (1 + end) + w /\ l = d + LongWidth /\ 1 + end <= d /\ d <= l
           /\ l <= p /\ p <= f /\ f <= Len(units)
           /\ f = p + SignatureLength /\ p = l + LittleEndianValue(SubSeq(units, d + 1, l))
           /\ f = FrameEnd(units)
           /\ FrameOwid(units) =
                [version |-> units[1], domain |-> SubSeq(units, 2, end),
                 date |-> ReadDate(SubSeq(units, (1 + end) + 1, d), units[1]),
                 payload |-> SubSeq(units, l + 1, p),
                 signature |-> SubSeq(units, p + 1, f)]
    BY <1>1, FrameLayout
  <1>3. PICK n \in Nat, v \in Nat, g \in Nat : n = Len(units) /\ v = LongWidth /\ g = SignatureLength
    BY UnitsType
  <1>0. /\ end \in Nat \ {0} /\ d \in Nat /\ l \in Nat /\ p \in Nat /\ f \in Nat /\ w \in Nat
        /\ 1 + end <= n /\ 1 + end <= d /\ d = (1 + end) + w /\ d <= l /\ l = d + v
        /\ l <= p /\ p <= f /\ f <= n /\ f = p + g
    <2>1. /\ 1 + end <= Len(units) /\ f <= Len(units) /\ f = p + SignatureLength
          /\ l = d + LongWidth
      BY <1>2
    <2>2. 1 + end <= d /\ d = (1 + end) + w /\ d <= l /\ l <= p /\ p <= f
      BY <1>2
    <2>. QED BY <1>3, <2>1, <2>2
  <1>4. units[1] \in Versions
    BY DEF Framed
  <1>5. ASSUME NEW first \in Nat \ {0}, NEW last \in Nat, first <= last + 1, last <= n
        PROVE  /\ SubSeq(units, first, last) \in Seq(Bytes)
               /\ SubSeq(units, first, last) \in Seq(Nat)
               /\ Len(SubSeq(units, first, last)) = last - first + 1
               /\ \A i \in 1 .. last - first + 1 : SubSeq(units, first, last)[i] = units[first + i - 1]
    BY <1>1, <1>3, <1>5, PartFacts
  <1>6. ASSUME NEW first \in Nat \ {0}, NEW middle \in Nat, NEW last \in Nat,
               first <= middle + 1, middle <= last, last <= n
        PROVE  SubSeq(units, first, middle) \o SubSeq(units, middle + 1, last) = SubSeq(units, first, last)
    BY <1>3, <1>6, PartsMeet
  <1>. DEFINE o == FrameOwid(units)
              domain == SubSeq(units, 2, end)
              date == SubSeq(units, (1 + end) + 1, d)
              count == SubSeq(units, d + 1, l)
              payload == SubSeq(units, l + 1, p)
              signature == SubSeq(units, p + 1, f)
  <1>7. /\ o.version = units[1] /\ o.domain = domain /\ o.date = ReadDate(date, units[1])
        /\ o.payload = payload /\ o.signature = signature
    <2>1. o = [version |-> units[1], domain |-> domain, date |-> ReadDate(date, units[1]),
               payload |-> payload, signature |-> signature]
      BY <1>2
    <2>. HIDE DEF o, domain, date, payload, signature
    <2>. QED BY <2>1
  <1>8. domain \in Seq(Nat) /\ Len(domain) = end - 1 /\ \A i \in 1 .. end - 1 : domain[i] = units[i + 1]
    <2>1. 2 \in Nat \ {0} /\ 2 <= end + 1 /\ end <= n
      BY <1>0
    <2>2. /\ domain \in Seq(Nat) /\ Len(domain) = end - 2 + 1
          /\ \A i \in 1 .. end - 2 + 1 : domain[i] = units[2 + i - 1]
      BY <1>5, <2>1
    <2>3. end - 2 + 1 = end - 1 /\ \A i \in Int : 2 + i - 1 = i + 1
      OBVIOUS
    <2>. QED BY <2>2, <2>3
  <1>9. date \in Seq(Bytes) /\ Len(date) = w
    <2>1. (1 + end) + 1 \in Nat \ {0} /\ (1 + end) + 1 <= d + 1 /\ d <= n
      BY <1>0
    <2>2. date \in Seq(Bytes) /\ Len(date) = d - ((1 + end) + 1) + 1
      BY <1>5, <2>1
    <2>3. d - ((1 + end) + 1) + 1 = w
      BY <1>0
    <2>. QED BY <2>2, <2>3
  <1>10. count \in Seq(Bytes) /\ Len(count) = v
    <2>1. d + 1 \in Nat \ {0} /\ d + 1 <= l + 1 /\ l <= n
      BY <1>0
    <2>2. count \in Seq(Bytes) /\ Len(count) = l - (d + 1) + 1
      BY <1>5, <2>1
    <2>3. l - (d + 1) + 1 = v
      BY <1>0
    <2>. QED BY <2>2, <2>3
  <1>11. PICK k \in Nat : k = LittleEndianValue(count) /\ p = l + k
    <2>1. count \in Seq(Nat)
      BY <1>10, BytesAreNaturals
    <2>. QED BY <1>2, <2>1, ValueType
  <1>12. payload \in Seq(Nat) /\ Len(payload) = k
    <2>1. l + 1 \in Nat \ {0} /\ l + 1 <= p + 1 /\ p <= n
      BY <1>0
    <2>2. payload \in Seq(Nat) /\ Len(payload) = p - (l + 1) + 1
      BY <1>5, <2>1
    <2>3. p - (l + 1) + 1 = k
      BY <1>11
    <2>. QED BY <2>2, <2>3
  <1>13. k \in 0 .. Power[v] - 1 /\ LittleEndian(k, v) = count
    <2>. HIDE DEF count
    <2>. QED BY <1>10, <1>11, WritesWhatWasRead
  <1>14. WriteDate(o.date, o.version) = Written(date)
    <2>. HIDE DEF date, o
    <2>. QED BY <1>2, <1>4, <1>7, <1>9, WritesDateRead
  <1>15. DateUnits(o) = date /\ LengthUnits(o) = count
    BY <1>3, <1>7, <1>12, <1>13, <1>14 DEF DateUnits, LengthUnits, Written
  <1>16. Writable(o)
    <2>1. o.domain \in Seq(Nat) /\ \A i \in 1 .. Len(o.domain) : o.domain[i] # 0
      <3>1. ASSUME NEW i \in 1 .. end - 1 PROVE domain[i] # 0
        <4>1. i + 1 \in 2 .. end
          BY <1>2
        <4>. QED BY <1>2, <1>8, <4>1
      <3>. HIDE DEF domain, o
      <3>. QED BY <1>7, <1>8, <3>1
    <2>2. Len(o.domain) <= MaxDomain
      <3>. HIDE DEF domain, o
      <3>. QED BY <1>2, <1>7, <1>8, UnitsType
    <2>3. Fits(Len(o.payload), LongWidth) /\ o.payload \in Seq(Nat)
      <3>1. Power[v] \in Nat
        BY PowerFacts
      <3>2. 0 <= k /\ k < Power[v]
        BY <1>13, <3>1
      <3>. HIDE DEF payload, o
      <3>. QED BY <1>3, <1>7, <1>12, <3>2 DEF Fits
    <2>4. /\ WriteDate(o.date, o.version) = Written(WriteDate(o.date, o.version).units)
          /\ WriteDate(o.date, o.version).units = date
      <3>. HIDE DEF o, date
      <3>. QED BY <1>14 DEF Written
    <2>. HIDE DEF o, date
    <2>. QED BY <1>2, <1>4, <1>7, <1>9, <2>1, <2>2, <2>3, <2>4 DEF Writable
  <1>17. <<o.version>> \o Append(o.domain, 0) = SubSeq(units, 1, 1 + end)
    <2>. DEFINE left == <<o.version>> \o Append(o.domain, 0)
                right == SubSeq(units, 1, 1 + end)
                tail == Append(o.domain, 0)
    <2>1. o.version \in Nat /\ o.version = units[1]
      BY <1>4, <1>7 DEF Versions, Version1, Version2, Version3
    <2>2. /\ tail \in Seq(Nat) /\ Len(tail) = end
          /\ \A i \in 1 .. end : tail[i] = units[i + 1]
      <3>. HIDE DEF o, domain
      <3>1. /\ tail \in Seq(Nat) /\ Len(tail) = (end - 1) + 1
            /\ \A i \in 1 .. end - 1 : tail[i] = domain[i]
            /\ tail[(end - 1) + 1] = 0
        BY <1>7, <1>8, AppendProperties
      <3>2. (end - 1) + 1 = end /\ units[end + 1] = 0
        BY <1>2
      <3>. HIDE DEF tail
      <3>3. ASSUME NEW i \in 1 .. end PROVE tail[i] = units[i + 1]
        <4>1. i \in 1 .. end - 1 \/ i = end
          OBVIOUS
        <4>. QED BY <1>8, <3>1, <3>2, <4>1
      <3>. QED BY <3>1, <3>2, <3>3
    <2>. HIDE DEF tail
    <2>3. /\ left \in Seq(Nat) /\ Len(left) = 1 + end
          /\ \A i \in 1 .. 1 + end : left[i] = IF i <= 1 THEN <<o.version>>[i] ELSE tail[i - 1]
      <3>1. <<o.version>> \in Seq(Nat) /\ Len(<<o.version>>) = 1
        BY <2>1
      <3>2. left = <<o.version>> \o tail
        BY DEF tail
      <3>. HIDE DEF o, left
      <3>. QED BY <2>2, <3>1, <3>2, ConcatProperties
    <2>4. /\ right \in Seq(Nat) /\ Len(right) = 1 + end
          /\ \A i \in 1 .. 1 + end : right[i] = units[i]
      <3>1. 1 \in Nat \ {0} /\ 1 + end \in Nat /\ 1 <= (1 + end) + 1 /\ 1 + end <= n
      BY <1>0
      <3>2. /\ right \in Seq(Nat) /\ Len(right) = (1 + end) - 1 + 1
            /\ \A i \in 1 .. (1 + end) - 1 + 1 : right[i] = units[1 + i - 1]
        BY <1>5, <3>1
      <3>3. (1 + end) - 1 + 1 = 1 + end /\ \A i \in Int : 1 + i - 1 = i
        OBVIOUS
      <3>. QED BY <3>2, <3>3
    <2>5. <<o.version>>[1] = units[1]
      BY <2>1
    <2>. HIDE DEF left, right, o
    <2>6. ASSUME NEW i \in 1 .. 1 + end PROVE left[i] = right[i]
      <3>1. CASE i = 1
        BY <2>3, <2>4, <2>5, <3>1
      <3>2. CASE i # 1
        <4>1. i - 1 \in 1 .. end /\ (i - 1) + 1 = i /\ ~(i <= 1)
          BY <3>2
        <4>. QED BY <2>2, <2>3, <2>4, <4>1
      <3>. QED BY <3>1, <3>2
    <2>7. left = right
      BY <2>3, <2>4, <2>6, SeqEqual
    <2>. QED BY <2>7 DEF left, right
  <1>18. SubSeq(units, 1, 1 + end) \o date = SubSeq(units, 1, d)
    <2>1. 1 \in Nat \ {0} /\ 1 + end \in Nat /\ 1 <= (1 + end) + 1 /\ 1 + end <= d /\ d <= n
      BY <1>0
    <2>. QED BY <1>6, <2>1
  <1>19. count \o payload = SubSeq(units, d + 1, p)
    <2>1. d + 1 \in Nat \ {0} /\ d + 1 <= l + 1 /\ l <= p /\ p <= n
      BY <1>0
    <2>. QED BY <1>6, <2>1
  <1>20. SubSeq(units, 1, d) \o SubSeq(units, d + 1, p) = SubSeq(units, 1, p)
    <2>1. 1 \in Nat \ {0} /\ 1 <= d + 1 /\ d <= p /\ p <= n
      BY <1>0
    <2>. QED BY <1>6, <2>1
  <1>21. SubSeq(units, 1, p) \o signature = SubSeq(units, 1, f)
    <2>1. 1 \in Nat \ {0} /\ 1 <= p + 1 /\ p <= f /\ f <= n
      BY <1>0
    <2>. QED BY <1>6, <2>1
  <1>22. OwidUnits(o) = SubSeq(units, 1, f)
    <2>1. FieldUnits(o) = ((<<o.version>> \o Append(o.domain, 0)) \o date) \o (count \o payload)
      BY <1>7, <1>15 DEF FieldUnits
    <2>2. FieldUnits(o) = SubSeq(units, 1, p)
      <3>. HIDE DEF o, date, count, payload
      <3>. QED BY <1>17, <1>18, <1>19, <1>20, <2>1
    <2>. QED BY <1>7, <1>21, <2>2 DEF OwidUnits
  <1>. QED BY <1>2, <1>16, <1>22

\* The units put after others are found after them.
LEMMA PartAtEnd ==
  ASSUME NEW S, NEW left \in Seq(S), NEW right \in Seq(S)
  PROVE  SubSeq(left \o right, Len(left) + 1, Len(left) + Len(right)) = right
  <1>. DEFINE all == left \o right
              part == SubSeq(all, Len(left) + 1, Len(left) + Len(right))
  <1>1. PICK n \in Nat, m \in Nat : n = Len(left) /\ m = Len(right)
    OBVIOUS
  <1>2. /\ all \in Seq(S) /\ Len(all) = n + m
        /\ \A i \in 1 .. n + m : all[i] = IF i <= n THEN left[i] ELSE right[i - n]
    BY <1>1, ConcatProperties
  <1>. HIDE DEF all
  <1>3. /\ part \in Seq(S) /\ Len(part) = (n + m) - (n + 1) + 1
        /\ \A i \in 1 .. (n + m) - (n + 1) + 1 : part[i] = all[(n + 1) + i - 1]
    <2>1. n + 1 \in Nat \ {0} /\ n + m \in Nat /\ n + 1 <= (n + m) + 1 /\ n + m <= Len(all)
      BY <1>2
    <2>2. part = SubSeq(all, n + 1, n + m)
      BY <1>1
    <2>. HIDE DEF part
    <2>. QED BY <1>2, <2>1, <2>2, PartFacts
  <1>. HIDE DEF part
  <1>4. (n + m) - (n + 1) + 1 = m
    OBVIOUS
  <1>5. ASSUME NEW i \in 1 .. m PROVE part[i] = right[i]
    <2>1. n + i \in 1 .. n + m /\ ~(n + i <= n) /\ (n + i) - n = i /\ (n + 1) + i - 1 = n + i
      OBVIOUS
    <2>2. part[i] = all[n + i]
      BY <1>3, <1>4, <2>1
    <2>3. all[n + i] = right[i]
      BY <1>2, <2>1
    <2>. QED BY <2>2, <2>3
  <1>6. part = right
    BY <1>1, <1>3, <1>4, <1>5, SeqEqual
  <1>. QED BY <1>6 DEF part, all

\* Joining sequences does not depend on how they are grouped.
LEMMA Regrouped ==
  ASSUME NEW S, NEW s \in Seq(S), NEW t \in Seq(S), NEW u \in Seq(S)
  PROVE  (s \o t) \o u = s \o (t \o u)
  BY ConcatAssociative

\* The units of an identifier are a whole frame, which reads as its fields.
LEMMA ReadsWhatItWrites ==
  ASSUME NEW o, Writable(o), \A i \in 1 .. Len(o.domain) : o.domain[i] \notin NotText,
         o.signature \in Seq(Nat), Len(o.signature) = SignatureLength,
         NEW room \in Nat, Len(o.payload) <= room
  PROVE  ParsePrefix(OwidUnits(o), room)
           = [status |-> "Parsed", used |-> Len(OwidUnits(o)),
              owid |-> [version |-> o.version, domain |-> o.domain,
                        date |-> ReadDate(DateUnits(o), o.version),
                        payload |-> o.payload, signature |-> o.signature]]
  <1>1. PICK v \in Nat, e \in Nat, t \in Nat, lw \in Nat, k \in Nat, g \in Nat :
          /\ v = o.version /\ e = Len(o.domain) + 1 /\ t = DateLength(o.version)
          /\ lw = LongWidth /\ k = Len(o.payload) /\ g = SignatureLength
    <2>1. /\ Len(o.domain) + 1 \in Nat /\ DateLength(o.version) \in Nat /\ LongWidth \in Nat
          /\ Len(o.payload) \in Nat /\ SignatureLength \in Nat
      BY UnitsType DEF Writable
    <2>2. o.version \in Nat
      BY DEF Writable, Versions, Version1, Version2, Version3
    <2>. QED BY <2>1, <2>2
  <1>. DEFINE D == Append(o.domain, 0)
              T == DateUnits(o)
              L == LengthUnits(o)
              P == o.payload
              G == o.signature
              A == <<v>> \o D
              B == A \o T
              C == L \o P
              F == B \o C
              w == F \o G
  <1>2. /\ <<v>> \in Seq(Nat) /\ Len(<<v>>) = 1 /\ v \in Nat /\ v \in Versions
        /\ D \in Seq(Nat) /\ Len(D) = e /\ T \in Seq(Nat) /\ Len(T) = t
        /\ L \in Seq(Nat) /\ Len(L) = lw /\ P \in Seq(Nat) /\ Len(P) = k
        /\ G \in Seq(Nat) /\ Len(G) = g
    BY <1>1, WritableUnits DEF Writable, Versions, Version1, Version2, Version3
  <1>3. w = OwidUnits(o)
    BY <1>1 DEF OwidUnits, FieldUnits
  <1>4. LittleEndianValue(L) = k
    <2>1. k \in 0 .. Power[LongWidth] - 1 /\ LongWidth \in Nat
      BY <1>1, WritableUnits
    <2>. QED BY <1>1, <2>1, ReadsWhatWasWritten DEF LengthUnits
  <1>5. /\ o.domain \in Seq(Nat) /\ e <= MaxDomain + 1
        /\ \A i \in 1 .. Len(o.domain) : o.domain[i] # 0 /\ o.domain[i] \notin NotText
    BY <1>1, UnitsType, SMTT(30) DEF Writable
  <1>6. /\ \A i \in 1 .. e - 1 : D[i] = o.domain[i]
        /\ D[e] = 0
    BY <1>1, <1>5, AppendProperties
  <1>7. ReadDomain(D) = [status |-> "Parsed", used |-> e, domain |-> o.domain]
    <2>1. PICK m \in Nat : m = Len(o.domain) /\ e = m + 1
      BY <1>1, <1>5
    <2>2. SubSeq(D, 1, e - 1) = o.domain
      <3>1. D = o.domain \o <<0>>
        BY <1>5, AppendIsConcat
      <3>2. <<0>> \in Seq(Nat) /\ 1 \in Nat \ {0} /\ 1 <= m + 1
        OBVIOUS
      <3>3. SubSeq(o.domain \o <<0>>, 1, m) = SubSeq(o.domain, 1, m)
        BY <1>5, <2>1, <3>2, PartOfLonger
      <3>4. SubSeq(o.domain, 1, m) = o.domain
        BY <1>5, <2>1, SubSeqFull
      <3>5. e - 1 = m
        BY <2>1
      <3>. HIDE DEF D
      <3>. QED BY <3>1, <3>3, <3>4, <3>5
    <2>3. e \in 1 .. DomainWindow(D)
      <3>1. e >= 1
        BY <2>1
      <3>. HIDE DEF D
      <3>. QED BY <1>2, <1>5, <3>1, UnitsType DEF DomainWindow
    <2>4. \A i \in 1 .. e - 1 : D[i] # 0
      <3>. HIDE DEF D
      <3>. QED BY <1>5, <1>6, <2>1, SMTT(30)
    <2>. HIDE DEF D
    <2>5. ReadDomain(D) =
            IF \E i \in DOMAIN SubSeq(D, 1, e - 1) : SubSeq(D, 1, e - 1)[i] \in NotText
            THEN Fail("InvalidDomainEncoding")
            ELSE [status |-> "Parsed", used |-> e, domain |-> SubSeq(D, 1, e - 1)]
      <3>1. D \in Seq(Nat) /\ D[e] = 0
        BY <1>2, <1>6
      <3>. QED BY <2>3, <2>4, <3>1, DomainFound
    <2>6. ReadDomain(D) = IF \E i \in DOMAIN o.domain : o.domain[i] \in NotText
                          THEN Fail("InvalidDomainEncoding")
                          ELSE [status |-> "Parsed", used |-> e, domain |-> o.domain]
      BY <2>2, <2>5
    <2>7. \A i \in DOMAIN o.domain : o.domain[i] \notin NotText
      BY <1>5
    <2>. QED BY <2>6, <2>7
  <1>. HIDE DEF D, T, L, P, G
  <1>D. D \in Seq(Nat) /\ Len(D) = e
    BY <1>2
  <1>T. T \in Seq(Nat) /\ Len(T) = t
    BY <1>2
  <1>L. L \in Seq(Nat) /\ Len(L) = lw
    BY <1>2
  <1>P. P \in Seq(Nat) /\ Len(P) = k
    BY <1>2
  <1>G. G \in Seq(Nat) /\ Len(G) = g
    BY <1>2
  <1>8. A \in Seq(Nat) /\ Len(A) = 1 + e
    BY <1>2, Joined
  <1>9. A # << >> /\ A[1] = v /\ Tail(A) = D
    <2>1. /\ \A i \in 1 .. 1 + e : A[i] = IF i <= 1 THEN <<v>>[i] ELSE D[i - 1]
      BY <1>2, ConcatProperties
    <2>. HIDE DEF A
    <2>2. A # << >> /\ A[1] = v
      BY <1>2, <1>8, <2>1
    <2>. DEFINE tail == Tail(A)
    <2>3. /\ tail \in Seq(Nat) /\ Len(tail) = (1 + e) - 1
          /\ \A i \in 1 .. (1 + e) - 1 : tail[i] = A[i + 1]
      BY <1>8, <2>2, HeadTailProperties
    <2>. HIDE DEF tail
    <2>4. ASSUME NEW i \in 1 .. e PROVE tail[i] = D[i]
      <3>1. i \in 1 .. (1 + e) - 1 /\ i + 1 \in 1 .. 1 + e /\ ~(i + 1 <= 1) /\ (i + 1) - 1 = i
        OBVIOUS
      <3>. QED BY <2>1, <2>3, <3>1
    <2>5. Len(tail) = e
      BY <2>3
    <2>6. tail = D
      BY <1>2, <2>3, <2>4, <2>5, SeqEqual
    <2>. QED BY <2>2, <2>6 DEF tail
  <1>. HIDE DEF A
  <1>10. B \in Seq(Nat) /\ Len(B) = (1 + e) + t
    BY <1>T, <1>8, Joined
  <1>11. C \in Seq(Nat) /\ Len(C) = lw + k
    BY <1>L, <1>P, Joined
  <1>12. F \in Seq(Nat) /\ Len(F) = ((1 + e) + t) + (lw + k)
    <2>. HIDE DEF B, C
    <2>. QED BY <1>10, <1>11, Joined
  <1>13. w \in Seq(Nat) /\ Len(w) = (((1 + e) + t) + (lw + k)) + g
    <2>. HIDE DEF F
    <2>. QED BY <1>G, <1>12, Joined
  <1>14. PICK X \in Seq(Nat) : w = A \o X
    <2>1. C \o G \in Seq(Nat)
      BY <1>G, <1>11, Joined
    <2>2. T \o (C \o G) \in Seq(Nat)
      BY <1>T, <2>1, Joined
    <2>3. (B \o C) \o G = B \o (C \o G)
      <3>. HIDE DEF B, C
      <3>1. B \in Seq(Nat) /\ C \in Seq(Nat) /\ G \in Seq(Nat)
        BY <1>G, <1>10, <1>11
      <3>. QED BY <3>1, Regrouped, SMTT(60)
    <2>4. (A \o T) \o (C \o G) = A \o (T \o (C \o G))
      <3>. HIDE DEF C
      <3>1. A \in Seq(Nat) /\ T \in Seq(Nat) /\ C \o G \in Seq(Nat)
        BY <1>T, <1>8, <2>1
      <3>. QED BY <3>1, Regrouped, SMTT(60)
    <2>. QED BY <2>2, <2>3, <2>4
  <1>15. F = (B \o L) \o P
    <2>1. (B \o L) \o P = B \o (L \o P)
      <3>. HIDE DEF B
      <3>1. B \in Seq(Nat) /\ L \in Seq(Nat) /\ P \in Seq(Nat)
        BY <1>L, <1>P, <1>10
      <3>. QED BY <3>1, Regrouped, SMTT(60)
    <2>. QED BY <2>1
  <1>16. B \o L \in Seq(Nat) /\ Len(B \o L) = ((1 + e) + t) + lw
    <2>. HIDE DEF B
    <2>. QED BY <1>L, <1>10, Joined
  <1>17. SubSeq(w, (1 + e) + 1, (1 + e) + t) = T
    <2>1. SubSeq(B, (1 + e) + 1, (1 + e) + t) = T
      BY <1>T, <1>8, PartAtEnd
    <2>2. C \o G \in Seq(Nat)
      <3>. HIDE DEF C
      <3>. QED BY <1>G, <1>11, Joined
    <2>3. w = B \o (C \o G)
      <3>. HIDE DEF B, C
      <3>1. B \in Seq(Nat) /\ C \in Seq(Nat) /\ G \in Seq(Nat)
        BY <1>G, <1>10, <1>11
      <3>. QED BY <3>1, Regrouped, SMTT(60)
    <2>4. (1 + e) + 1 \in Nat \ {0} /\ (1 + e) + t \in Nat /\ (1 + e) + 1 <= ((1 + e) + t) + 1
      OBVIOUS
    <2>5. SubSeq(B \o (C \o G), (1 + e) + 1, (1 + e) + t) = SubSeq(B, (1 + e) + 1, (1 + e) + t)
      <3>. HIDE DEF B, C
      <3>. QED BY <1>10, <2>2, <2>4, PartOfLonger
    <2>. QED BY <2>1, <2>3, <2>5
  <1>18. SubSeq(w, ((1 + e) + t) + 1, ((1 + e) + t) + lw) = L
    <2>1. SubSeq(B \o L, ((1 + e) + t) + 1, ((1 + e) + t) + lw) = L
      <3>. HIDE DEF B
      <3>. QED BY <1>L, <1>10, PartAtEnd
    <2>2. /\ ((1 + e) + t) + 1 \in Nat \ {0} /\ ((1 + e) + t) + lw \in Nat
          /\ ((1 + e) + t) + 1 <= (((1 + e) + t) + lw) + 1
          /\ ((1 + e) + t) + lw <= ((1 + e) + t) + (lw + k)
      OBVIOUS
    <2>3. SubSeq((B \o L) \o P, ((1 + e) + t) + 1, ((1 + e) + t) + lw)
            = SubSeq(B \o L, ((1 + e) + t) + 1, ((1 + e) + t) + lw)
      <3>1. PICK whole \in Seq(Nat) : whole = B \o L
        BY <1>16
      <3>2. ((1 + e) + t) + lw <= Len(whole)
        BY <1>16, <3>1
      <3>3. SubSeq(whole \o P, ((1 + e) + t) + 1, ((1 + e) + t) + lw)
              = SubSeq(whole, ((1 + e) + t) + 1, ((1 + e) + t) + lw)
        BY <1>P, <2>2, <3>2, PartOfLonger
      <3>. HIDE DEF B
      <3>. QED BY <3>1, <3>3
    <2>4. SubSeq(F \o G, ((1 + e) + t) + 1, ((1 + e) + t) + lw)
            = SubSeq(F, ((1 + e) + t) + 1, ((1 + e) + t) + lw)
      <3>. HIDE DEF F
      <3>. QED BY <1>G, <1>12, <2>2, PartOfLonger
    <2>. QED BY <1>15, <2>1, <2>3, <2>4
  <1>19. SubSeq(w, (((1 + e) + t) + lw) + 1, (((1 + e) + t) + lw) + k) = P
    <2>1. SubSeq((B \o L) \o P, (((1 + e) + t) + lw) + 1, (((1 + e) + t) + lw) + k) = P
      <3>. HIDE DEF B
      <3>. QED BY <1>P, <1>16, PartAtEnd
    <2>2. /\ (((1 + e) + t) + lw) + 1 \in Nat \ {0} /\ (((1 + e) + t) + lw) + k \in Nat
          /\ (((1 + e) + t) + lw) + 1 <= ((((1 + e) + t) + lw) + k) + 1
          /\ (((1 + e) + t) + lw) + k <= ((1 + e) + t) + (lw + k)
      OBVIOUS
    <2>3. SubSeq(F \o G, (((1 + e) + t) + lw) + 1, (((1 + e) + t) + lw) + k)
            = SubSeq(F, (((1 + e) + t) + lw) + 1, (((1 + e) + t) + lw) + k)
      <3>. HIDE DEF F
      <3>. QED BY <1>G, <1>12, <2>2, PartOfLonger
    <2>. QED BY <1>15, <2>1, <2>3
  <1>20. SubSeq(w, ((((1 + e) + t) + lw) + k) + 1, ((((1 + e) + t) + lw) + k) + g) = G
    <2>1. Len(F) = (((1 + e) + t) + lw) + k
      BY <1>12
    <2>. HIDE DEF F
    <2>. QED BY <1>G, <1>12, <2>1, PartAtEnd
  <1>. HIDE DEF w
  <1>21. w # << >> /\ w[1] = v /\ Tail(w) = D \o X
    BY <1>8, <1>9, <1>14, FirstAndRest
  <1>22. ReadDomain(Tail(w)) = [status |-> "Parsed", used |-> e, domain |-> o.domain]
    <2>1. ReadDomain(D) # Fail("UnexpectedEnd")
      BY <1>7 DEF Fail
    <2>2. ReadDomain(D \o X) = ReadDomain(D)
      BY <1>D, <2>1, DomainExtends
    <2>. QED BY <1>7, <1>21, <2>2
  <1>23. DateEnd(w) = (1 + e) + t /\ LengthEnd(w) = ((1 + e) + t) + lw
    BY <1>1, <1>21, <1>22 DEF DateEnd, LengthEnd
  <1>24. Declared(w) = k
    BY <1>4, <1>18, <1>23 DEF Declared
  <1>25. PayloadEnd(w) = (((1 + e) + t) + lw) + k /\ FrameEnd(w) = ((((1 + e) + t) + lw) + k) + g
    BY <1>1, <1>23, <1>24 DEF PayloadEnd, FrameEnd
  <1>26. FrameEnd(w) = Len(w) /\ Len(w) >= LengthEnd(w) /\ Present(w) = k
    <2>1. Len(w) = ((((1 + e) + t) + lw) + k) + g
      BY <1>13
    <2>2. Present(w) = (((((1 + e) + t) + lw) + k) + g) - (((1 + e) + t) + lw) - g
      BY <1>1, <1>23, <2>1 DEF Present
    <2>. QED BY <1>23, <1>25, <2>1, <2>2
  <1>27. FrameOwid(w) = [version |-> v, domain |-> o.domain, date |-> ReadDate(T, v),
                         payload |-> P, signature |-> G]
    <2>1. ReadDomain(Tail(w)).used = e /\ ReadDomain(Tail(w)).domain = o.domain
      BY <1>22
    <2>2. SubSeq(w, 1 + ReadDomain(Tail(w)).used + 1, DateEnd(w)) = T
      BY <1>17, <1>23, <2>1
    <2>3. SubSeq(w, LengthEnd(w) + 1, PayloadEnd(w)) = P
      BY <1>19, <1>23, <1>25
    <2>4. SubSeq(w, PayloadEnd(w) + 1, FrameEnd(w)) = G
      BY <1>20, <1>25
    <2>. QED BY <1>21, <2>1, <2>2, <2>3, <2>4, Zenon DEF FrameOwid
  <1>28. Counts("prefix", k, k) = "Parsed"
    BY DEF Counts
  <1>29. v # Empty
    BY <1>2 DEF Versions, Version1, Version2, Version3, Empty
  <1>30. ParseOne(w, "prefix", room) = [status |-> "Parsed", used |-> Len(w), owid |-> FrameOwid(w)]
    <2>1. ~(Len(w) < LengthEnd(w)) /\ ~(k > room)
      <3>1. k <= room
        BY <1>1
      <3>2. LengthEnd(w) \in Nat /\ Len(w) \in Nat
        BY <1>13, <1>23
      <3>. QED BY <1>26, <3>1, <3>2
    <2>2. ReadDomain(Tail(w)).status = "Parsed"
      BY <1>22
    <2>. QED BY <1>2, <1>21, <1>24, <1>26, <1>28, <1>29, <2>1, <2>2, ParseOneReads
  <1>31. ParsePrefix(w, room) = ParseOne(w, "prefix", room)
    BY <1>21, <1>29 DEF ParsePrefix
  <1>. QED BY <1>1, <1>3, <1>27, <1>30, <1>31 DEF T, P, G

-----------------------------------------------------------------------------
(***************************************************************************)
(* Signatures.                                                             *)
(***************************************************************************)

\* The largest key is one of the keys.
LEMMA LargestKey == Max(Keys) \in Nat
  <1>1. Keys \subseteq Nat /\ Keys # {} /\ IsFiniteSet(Keys)
    BY UnitsAssumption
  <1>2. PICK n \in Nat : ExistsSurjection(1 .. n, Keys)
    BY <1>1, FS_NatSurjection
  <1>3. PICK f : f \in [1 .. n -> Keys] /\ \A key \in Keys : \E i \in 1 .. n : f[i] = key
    BY <1>2 DEF ExistsSurjection, Surjection
  <1>. DEFINE bounded == {m \in 0 .. n : \E b \in Nat : \A i \in 1 .. m : f[i] <= b}
  <1>4. 0 \in bounded
    OBVIOUS
  <1>5. ASSUME NEW m \in 0 .. n - 1, m \in bounded PROVE m + 1 \in bounded
    <2>1. PICK b \in Nat : \A i \in 1 .. m : f[i] <= b
      BY <1>5
    <2>2. m + 1 \in 1 .. n /\ m + 1 \in 0 .. n
      OBVIOUS
    <2>3. PICK key \in Nat : key = f[m + 1]
      BY <1>1, <1>3, <2>2
    <2>4. \A i \in 1 .. m + 1 : f[i] <= b + key
      <3>1. ASSUME NEW i \in 1 .. m + 1 PROVE f[i] <= b + key
        <4>1. CASE i = m + 1
          BY <2>3, <4>1
        <4>2. ASSUME i # m + 1 PROVE f[i] <= b + key
          <5>1. i \in 1 .. m /\ i \in 1 .. n
            BY <4>2
          <5>2. f[i] \in Nat /\ f[i] <= b
            BY <1>1, <1>3, <2>1, <5>1
          <5>. QED BY <5>2
        <4>. QED BY <4>1, <4>2
      <3>. QED BY <3>1
    <2>5. b + key \in Nat
      OBVIOUS
    <2>. QED BY <2>2, <2>4, <2>5
  <1>6. \A m \in bounded : \E b \in Nat : \A i \in 1 .. m : f[i] <= b
    OBVIOUS
  <1>. HIDE DEF bounded
  <1>7. n \in bounded
    BY <1>4, <1>5, Inductive
  <1>8. PICK b \in Nat : \A i \in 1 .. n : f[i] <= b
    BY <1>6, <1>7
  <1>. DEFINE above == {m \in Nat : \A key \in Keys : key <= m}
  <1>9. b \in above
    BY <1>3, <1>8
  <1>10. above \in SUBSET Nat /\ \A m : m \in above <=> m \in Nat /\ \A key \in Keys : key <= m
    OBVIOUS
  <1>. HIDE DEF above
  <1>11. \E least \in above : \A m \in above : least <= m
    BY <1>9, <1>10, LeastNatural
  <1>12. PICK least \in above : \A m \in above : least <= m
    BY <1>11
  <1>13. least \in Nat /\ \A key \in Keys : key <= least
    BY <1>10
  <1>14. least \in Keys
    <2>1. ASSUME least \notin Keys PROVE FALSE
      <3>1. PICK key \in Keys : TRUE
        BY <1>1
      <3>2. ASSUME NEW k \in Keys PROVE k \in Nat /\ k <= least - 1
        BY <1>1, <1>13, <2>1
      <3>3. least - 1 \in Nat
        BY <1>13, <3>1, <3>2
      <3>4. least - 1 \in above
        BY <1>10, <3>2, <3>3
      <3>. QED BY <1>12, <1>13, <3>4
    <2>. QED BY <2>1
  <1>15. \E key \in Keys : \A other \in Keys : key >= other
    BY <1>1, <1>13, <1>14
  <1>16. Max(Keys) \in Keys
    BY <1>15 DEF Max
  <1>. QED BY <1>1, <1>16

\* A signature is a run of units of the right length, and over the same data no
\* two keys make the same one.
LEMMA SignatureFacts ==
  ASSUME NEW data \in Seq(Nat)
  PROVE  /\ \A key \in Keys : /\ SignByteArray(key, data) \in Seq(Nat)
                              /\ Len(SignByteArray(key, data)) = SignatureLength
         /\ \A key, other \in Keys :
              SignByteArray(key, data) = SignByteArray(other, data) => key = other
  <1>1. PICK n \in Nat : n = LittleEndianValue(Append(data, 1))
    <2>1. Append(data, 1) \in Seq(Nat)
      OBVIOUS
    <2>. QED BY <2>1, ValueType
  <1>2. PICK m \in Nat : m = n * (1 + Max(Keys))
    <2>1. PICK top \in Nat : top = Max(Keys)
      BY LargestKey
    <2>2. n * (1 + top) \in Nat
      OBVIOUS
    <2>. QED BY <2>1, <2>2
  <1>3. Base \in Nat /\ Keys \subseteq Nat
    BY UnitsAssumption
  <1>4. PICK g \in Nat \ {0} : g = SignatureLength
    BY UnitsType
  <1>5. ASSUME NEW key \in Keys
        PROVE  /\ Signed(key, data) = Base + (m + key) /\ Signed(key, data) \in Nat
               /\ SignByteArray(key, data) = [i \in 1 .. g |-> IF i = 1 THEN Base + (m + key) ELSE 0]
    <2>1. Signed(key, data) = Base + (m + key)
      BY <1>1, <1>2 DEF Signed
    <2>2. Base + (m + key) \in Nat
      BY <1>3
    <2>. QED BY <1>4, <2>1, <2>2 DEF SignByteArray
  <1>6. ASSUME NEW key \in Keys
        PROVE  /\ SignByteArray(key, data) \in Seq(Nat)
               /\ Len(SignByteArray(key, data)) = SignatureLength
               /\ SignByteArray(key, data)[1] = Base + (m + key)
    <2>1. PICK unit \in Nat : unit = Base + (m + key)
      BY <1>3
    <2>2. SignByteArray(key, data) = [i \in 1 .. g |-> IF i = 1 THEN unit ELSE 0]
      BY <1>5, <2>1
    <2>3. [i \in 1 .. g |-> IF i = 1 THEN unit ELSE 0] \in Seq(Nat)
      OBVIOUS
    <2>. QED BY <1>4, <2>1, <2>2, <2>3
  <1>7. ASSUME NEW key \in Keys, NEW other \in Keys,
               SignByteArray(key, data) = SignByteArray(other, data)
        PROVE  key = other
    <2>1. Base + (m + key) = Base + (m + other)
      BY <1>6, <1>7
    <2>2. key \in Nat /\ other \in Nat
      BY <1>3
    <2>. QED BY <1>3, <2>1, <2>2
  <1>. QED BY <1>6, <1>7
=============================================================================
