--------------------------- MODULE SourcingProofs ----------------------------
(***************************************************************************)
(* What a negotiation accepts of a supplier, and what is recommended of it, *)
(* for every order, every baseline price and every answer of the model.    *)
(***************************************************************************)
EXTENDS Services, TLAPS, FiniteSetTheorems, SequenceTheorems,
        WellFoundedInduction

------------------------------------------------------------------------------
(* Numbers, sets and sequences *)

Less == {p \in Nat \X Nat : p[1] < p[2]}

\* Every set of numbers has a least.
LEMMA Least ==
    ASSUME NEW T, T \subseteq Nat, T # {}
    PROVE  \E m \in T : \A k \in T : m <= k
  <1>1. IsWellFoundedOn(Less, Nat)
    <2>1. OpToRel(<, Nat) = Less
      BY DEF OpToRel, Less
    <2> QED
      BY <2>1, NatLessThanWellFounded
  <1>2. PICK m \in T : \A k \in T : <<k, m>> \notin Less
    BY <1>1, WFMin
  <1>3. ASSUME NEW k \in T PROVE m <= k
    <2>1. <<k, m>> \in Less <=> k < m
      BY DEF Less
    <2> QED
      BY <1>2, <2>1
  <1> QED
    BY <1>3

LEMMA SetInduction ==
    ASSUME NEW S, 0 \in S, \A n \in Nat : n \in S => n + 1 \in S
    PROVE  Nat \subseteq S
  <1>1. SUFFICES ASSUME Nat \ S # {} PROVE FALSE
    OBVIOUS
  <1>2. PICK x \in Nat \ S : \A y \in Nat \ S : x <= y
    BY <1>1, Least
  <1>3. x # 0 /\ x - 1 \in Nat /\ x - 1 \in S
    BY <1>2
  <1> QED
    BY <1>2, <1>3

LEMMA Counts == \A S : Sourcing!Cardinality(S) = Cardinality(S)
  BY DEF Sourcing!Cardinality, Cardinality, Sourcing!IsFiniteSet, IsFiniteSet

LEMMA Positions == \A n \in Nat : 1 .. n \subseteq Nat
  OBVIOUS

LEMMA Fourth ==
    ASSUME NEW n \in Nat
    PROVE  /\ n + 3 \in Nat
           /\ 1 \in 1 .. n + 3 /\ 2 \in 1 .. n + 3 /\ 3 \in 1 .. n + 3
           /\ \A i \in 1 .. n : i + 3 \in 1 .. n + 3
           /\ \A k \in 1 .. n + 3 : \/ k = 1 \/ k = 2 \/ k = 3
                                    \/ k - 3 \in 1 .. n /\ k = (k - 3) + 3
  OBVIOUS

\* A sequence after three elements.
LEMMA AfterThree ==
    ASSUME NEW a, NEW b, NEW c, NEW n \in Nat, NEW f, f = [i \in 1 .. n |-> f[i]],
           NEW t, t = <<a, b, c>> \o f
    PROVE  /\ DOMAIN t = 1 .. n + 3
           /\ t[1] = a /\ t[2] = b /\ t[3] = c
           /\ \A i \in 1 .. n : t[i + 3] = f[i]
  <1> DEFINE S == {a, b, c} \cup {f[i] : i \in 1 .. n}
  <1>1. <<a, b, c>> \in Seq(S) /\ Len(<<a, b, c>>) = 3
    OBVIOUS
  <1>2. f \in Seq(S) /\ Len(f) = n
    <2>1. f \in [1 .. n -> S]
      OBVIOUS
    <2> HIDE DEF S
    <2>2. f \in Seq(S)
      BY <2>1, SeqDef
    <2>3. DOMAIN f = 1 .. Len(f) /\ DOMAIN f = 1 .. n /\ Len(f) \in Nat
      BY <2>1, <2>2, LenProperties
    <2> QED
      BY <2>2, <2>3
  <1> HIDE DEF S
  <1>3. t \in Seq(S) /\ Len(t) = n + 3
    BY <1>1, <1>2
  <1>4. \A i \in 1 .. n : t[i + 3] = f[i]
    BY <1>1, <1>2
  <1>5. t[1] = a /\ t[2] = b /\ t[3] = c
    BY <1>1, <1>2
  <1> QED
    BY <1>3, <1>4, <1>5

------------------------------------------------------------------------------
(* SupplierAgent *)

\* No check fails exactly where the answer is "".
LEMMA NoneFails ==
    ASSUME NEW n \in Nat, NEW checks, DOMAIN checks = 1 .. n,
           \A i \in 1 .. n : checks[i].fails => checks[i].reason # ""
    PROVE  Sourcing!FirstFailing(checks) = "" <=> \A i \in 1 .. n : ~checks[i].fails
  <1> DEFINE failing == {i \in DOMAIN checks : checks[i].fails}
             first == CHOOSE i \in failing : \A j \in failing : i <= j
  <1>1. CASE failing = {}
    BY <1>1 DEF Sourcing!FirstFailing
  <1>2. CASE failing # {}
    <2>1. \E i \in failing : \A j \in failing : i <= j
      <3>1. failing \subseteq DOMAIN checks
        BY Zenon
      <3>2. 1 .. n \subseteq Nat
        BY Positions
      <3> HIDE DEF failing
      <3> QED
        BY <1>2, <3>1, <3>2, Least
    <2>2. first \in failing
      BY <2>1
    <2>3. Sourcing!FirstFailing(checks) = checks[first].reason
      BY <1>2 DEF Sourcing!FirstFailing
    <2> QED
      BY <2>2, <2>3
  <1> QED
    BY <1>1, <1>2

\* The same of three checks and a row of them.
LEMMA NoneOfFour ==
    ASSUME NEW n \in Nat, NEW t, DOMAIN t = 1 .. n + 3,
           t[1].reason # "" /\ t[2].reason # "" /\ t[3].reason # "",
           \A i \in 1 .. n : t[i + 3].fails => t[i + 3].reason # ""
    PROVE  Sourcing!FirstFailing(t) = ""
           <=> /\ ~t[1].fails /\ ~t[2].fails /\ ~t[3].fails
               /\ \A i \in 1 .. n : ~t[i + 3].fails
  <1>1. ASSUME NEW k \in 1 .. n + 3
        PROVE  \/ k = 1 \/ k = 2 \/ k = 3
               \/ \E i \in 1 .. n : k = i + 3
    <2>1. k = 1 \/ k = 2 \/ k = 3 \/ (k - 3 \in 1 .. n /\ k = (k - 3) + 3)
      BY Fourth
    <2> QED
      BY <2>1, Zenon
  <1>2. /\ 1 \in 1 .. n + 3 /\ 2 \in 1 .. n + 3 /\ 3 \in 1 .. n + 3 /\ n + 3 \in Nat
        /\ \A i \in 1 .. n : i + 3 \in 1 .. n + 3
    BY Fourth
  <1>3. ASSUME NEW k \in 1 .. n + 3, t[k].fails
        PROVE  t[k].reason # ""
    <2>1. CASE k = 1 \/ k = 2 \/ k = 3
      BY <2>1, Zenon
    <2>2. ASSUME NEW i \in 1 .. n, k = i + 3
          PROVE  t[k].reason # ""
      BY <1>3, <2>2, Zenon
    <2> QED
      BY <1>1, <2>1, <2>2, Zenon
  <1>4. Sourcing!FirstFailing(t) = "" <=> \A k \in 1 .. n + 3 : ~t[k].fails
    BY <1>2, <1>3, NoneFails, Zenon
  <1>5. ASSUME \A k \in 1 .. n + 3 : ~t[k].fails
        PROVE  /\ ~t[1].fails /\ ~t[2].fails /\ ~t[3].fails
               /\ \A i \in 1 .. n : ~t[i + 3].fails
    <2>1. ~t[1].fails /\ ~t[2].fails /\ ~t[3].fails
      BY <1>2, <1>5, Zenon
    <2>2. ASSUME NEW i \in 1 .. n PROVE ~t[i + 3].fails
      BY <1>2, <1>5, Zenon
    <2> QED
      BY <2>1, <2>2, Zenon
  <1>6. ASSUME ~t[1].fails /\ ~t[2].fails /\ ~t[3].fails,
               \A i \in 1 .. n : ~t[i + 3].fails,
               NEW k \in 1 .. n + 3
        PROVE  ~t[k].fails
    <2>1. CASE k = 1 \/ k = 2 \/ k = 3
      BY <1>6, <2>1, Zenon
    <2>2. ASSUME NEW i \in 1 .. n, k = i + 3
          PROVE  ~t[k].fails
      BY <1>6, <2>2, Zenon
    <2> QED
      BY <1>1, <2>1, <2>2, Zenon
  <1> QED
    BY <1>4, <1>5, <1>6, Zenon

\* The bounds of a round are numbers within the supplier's own.
Inside(round, own) ==
    /\ round[1] \in Nat /\ round[2] \in Nat /\ own[1] \in Nat /\ own[2] \in Nat
    /\ own[1] <= round[1] /\ round[2] <= own[2]

LEMMA Tables ==
    ASSUME NEW s \in Sourcing!SupplierIds, NEW r \in Sourcing!Rounds
    PROVE  LET R == Sourcing!RoundPolicy[s][r] S == Sourcing!SupplierPolicy[s] IN
           /\ Inside(R.price, S.price) /\ Inside(R.lead, S.lead)
           /\ Inside(R.order, S.order) /\ Inside(R.pre, S.pre)
           /\ R.price[1] >= 92 /\ R.lead[1] > 0
  <1>1. s = "S1" \/ s = "S2" \/ s = "S3"
    BY DEF Sourcing!SupplierIds
  <1>2. r = 1 \/ r = 2
    BY DEF Sourcing!Rounds
  <1> USE DEF Sourcing!RoundPolicy, Sourcing!SupplierPolicy, Sourcing!Bounds, Inside
  <1>3. CASE s = "S1"
    BY <1>2, <1>3
  <1>4. CASE s = "S2"
    BY <1>2, <1>4
  <1>5. CASE s = "S3"
    BY <1>2, <1>5
  <1> QED
    BY <1>1, <1>3, <1>4, <1>5

\* A share grows with its percentage, and no share of the tables is nothing.
LEMMA ShareGrows ==
    ASSUME NEW minor \in Nat \ {0}, NEW p \in Nat, NEW q \in Nat, p <= q
    PROVE  /\ Sourcing!RoundedShare(minor, p) \in Nat
           /\ Sourcing!RoundedShare(minor, p) <= Sourcing!RoundedShare(minor, q)
           /\ p >= 92 => Sourcing!RoundedShare(minor, p) > 0
  <1>1. minor * p \in Nat /\ minor * q \in Nat /\ minor * p <= minor * q
    OBVIOUS
  <1>2. p >= 92 => minor * p >= 92
    OBVIOUS
  <1> DEFINE a == minor * p b == minor * q
  <1>3. a \in Nat /\ b \in Nat /\ a <= b /\ (p >= 92 => a >= 92)
    BY <1>1, <1>2
  <1> HIDE DEF a, b
  <1>4. /\ (a + 50) \div 100 \in Nat /\ (a + 50) \div 100 <= (b + 50) \div 100
        /\ a >= 92 => (a + 50) \div 100 > 0
    BY <1>3
  <1> QED
    BY <1>3, <1>4 DEF Sourcing!RoundedShare, a, b

\* As many products as lines: no two lines are of one product.
LEMMA Distinct ==
    ASSUME NEW n \in Nat, NEW f
    PROVE  Cardinality({f[i] : i \in 1 .. n}) = n <=> \A i, j \in 1 .. n : f[i] = f[j] => i = j
  <1> DEFINE T == {f[i] : i \in 1 .. n}
             g == [i \in 1 .. n |-> f[i]]
  <1>1. IsFiniteSet(1 .. n) /\ Cardinality(1 .. n) = n
    BY FS_Interval
  <1>2. g \in Surjection(1 .. n, T)
    BY DEF Surjection
  <1>3. Cardinality(T) = Cardinality(1 .. n) <=> g \in Injection(1 .. n, T)
    BY <1>1, <1>2, FS_Surjection
  <1>4. g \in Injection(1 .. n, T) <=> \A i, j \in 1 .. n : f[i] = f[j] => i = j
    BY DEF Injection, IsInjective
  <1> QED
    BY <1>1, <1>3, <1>4

LEMMA PolicyHolds ==
    ASSUME NEW s \in Sourcing!SupplierIds, NEW x, Sourcing!WellTyped(x)
    PROVE  Sourcing!SupplierPolicyReason(s, x) = ""
           <=> /\ Sourcing!Within(x.lead, Sourcing!SupplierPolicy[s].lead)
               /\ Sourcing!Within(x.order, Sourcing!SupplierPolicy[s].order)
               /\ Sourcing!Within(Sourcing!PreShipment(x), Sourcing!SupplierPolicy[s].pre)
               /\ Len(x.lines) = Cardinality(Products)
               /\ \A i \in DOMAIN x.lines : Sourcing!LineReason(s, x, i) = ""
  <1> DEFINE n == Len(x.lines)
             own == Sourcing!SupplierPolicy[s]
             a == Sourcing!Check("lead-policy", ~Sourcing!Within(x.lead, own.lead))
             b == Sourcing!Check("payment-policy",
                      ~Sourcing!Within(x.order, own.order)
                      \/ ~Sourcing!Within(Sourcing!PreShipment(x), own.pre))
             c == Sourcing!Check("price-coverage", Len(x.lines) # Sourcing!Cardinality(Products))
             f == [i \in DOMAIN x.lines |->
                      Sourcing!Check(Sourcing!LineReason(s, x, i),
                                     Sourcing!LineReason(s, x, i) # "")]
             t == <<a, b, c>> \o f
  <1>1. n \in Nat /\ DOMAIN x.lines = 1 .. n
    BY LenProperties DEF Sourcing!WellTyped
  <1>2. f = [i \in 1 .. n |-> f[i]]
    BY <1>1
  <1>3. /\ DOMAIN t = 1 .. n + 3 /\ t[1] = a /\ t[2] = b /\ t[3] = c
        /\ \A i \in 1 .. n : t[i + 3] = f[i]
    <2> HIDE DEF a, b, c, f, n
    <2> QED
      BY <1>1, <1>2, AfterThree
  <1>4. \A i \in 1 .. n : /\ f[i].reason = Sourcing!LineReason(s, x, i)
                          /\ f[i].fails = (Sourcing!LineReason(s, x, i) # "")
    BY <1>1 DEF Sourcing!Check
  <1>5. /\ a.reason # "" /\ b.reason # "" /\ c.reason # ""
        /\ a.fails = ~Sourcing!Within(x.lead, own.lead)
        /\ b.fails = (\/ ~Sourcing!Within(x.order, own.order)
                      \/ ~Sourcing!Within(Sourcing!PreShipment(x), own.pre))
        /\ c.fails = (n # Cardinality(Products))
    BY Counts DEF Sourcing!Check
  <1>6. Sourcing!SupplierPolicyReason(s, x) = Sourcing!FirstFailing(t)
    BY DEF Sourcing!SupplierPolicyReason
  <1> HIDE DEF a, b, c, f, t, n, own
  <1>7. Sourcing!FirstFailing(t) = ""
         <=> ~a.fails /\ ~b.fails /\ ~c.fails /\ \A i \in 1 .. n : ~f[i].fails
    <2>1. \A i \in 1 .. n : t[i + 3].fails => t[i + 3].reason # ""
      BY <1>3, <1>4, Zenon
    <2>2. t[1].reason # "" /\ t[2].reason # "" /\ t[3].reason # ""
      BY <1>3, <1>5, Zenon
    <2>3. Sourcing!FirstFailing(t) = ""
          <=> /\ ~t[1].fails /\ ~t[2].fails /\ ~t[3].fails
              /\ \A i \in 1 .. n : ~t[i + 3].fails
      BY <1>1, <1>3, <2>1, <2>2, NoneOfFour
    <2> QED
      BY <1>3, <2>3, Zenon
  <1> QED
    BY <1>1, <1>4, <1>5, <1>6, <1>7, Zenon DEF n, own

LEMMA FactsHold ==
    ASSUME NEW x
    PROVE  Sourcing!CommercialReason(x) = ""
           <=> /\ ~x.expired
               /\ \A i \in DOMAIN x.lines :
                     /\ x.lines[i].quantity = Quantity[x.lines[i].product]
                     /\ ~(x.lines[i].price <= 0)
  <1> DEFINE a == Sourcing!Check("offer-expired", x.expired)
             b == Sourcing!Check("offer-complete",
                      \E i \in DOMAIN x.lines : LET l == x.lines[i] IN
                          l.quantity # Quantity[l.product] \/ l.price <= 0)
             t == <<a, b>>
  <1>1. DOMAIN t = 1 .. 2 /\ t[1] = a /\ t[2] = b /\ (\A k \in 1 .. 2 : k = 1 \/ k = 2)
    OBVIOUS
  <1>2. /\ a.reason # "" /\ b.reason # "" /\ a.fails = x.expired
        /\ b.fails = (\E i \in DOMAIN x.lines :
                         \/ x.lines[i].quantity # Quantity[x.lines[i].product]
                         \/ x.lines[i].price <= 0)
    BY DEF Sourcing!Check
  <1>3. Sourcing!CommercialReason(x) = Sourcing!FirstFailing(t)
    BY DEF Sourcing!CommercialReason
  <1> HIDE DEF a, b, t
  <1>4. 2 \in Nat /\ 1 \in 1 .. 2 /\ 2 \in 1 .. 2
    OBVIOUS
  <1>5. \A k \in 1 .. 2 : t[k].reason # ""
    BY <1>1, <1>2, Zenon
  <1>6. Sourcing!FirstFailing(t) = "" <=> \A k \in 1 .. 2 : ~t[k].fails
    BY <1>1, <1>4, <1>5, NoneFails, Zenon
  <1>7. Sourcing!FirstFailing(t) = "" <=> ~a.fails /\ ~b.fails
    BY <1>1, <1>4, <1>6, Zenon
  <1> QED
    BY <1>2, <1>3, <1>7, Zenon

LEMMA RoundHolds ==
    ASSUME NEW s, NEW r, NEW x
    PROVE  LET R == Sourcing!RoundPolicy[s][r] IN
           Sourcing!RoundPolicyReason(s, r, x) = ""
           <=> /\ Sourcing!Within(x.lead, R.lead)
               /\ Sourcing!Within(x.order, R.order)
               /\ Sourcing!Within(Sourcing!PreShipment(x), R.pre)
               /\ \A i \in DOMAIN x.lines :
                     Sourcing!Within(x.lines[i].price,
                                     Sourcing!PriceBounds(x.lines[i].product, R.price))
  <1> DEFINE R == Sourcing!RoundPolicy[s][r]
             a == Sourcing!Check("round-lead-policy", ~Sourcing!Within(x.lead, R.lead))
             b == Sourcing!Check("round-payment-policy",
                      ~Sourcing!Within(x.order, R.order)
                      \/ ~Sourcing!Within(Sourcing!PreShipment(x), R.pre))
             c == Sourcing!Check("round-price-policy",
                      \E i \in DOMAIN x.lines : LET l == x.lines[i] IN
                          ~Sourcing!Within(l.price, Sourcing!PriceBounds(l.product, R.price)))
             t == <<a, b, c>>
  <1>1. /\ DOMAIN t = 1 .. 3 /\ t[1] = a /\ t[2] = b /\ t[3] = c
        /\ \A k \in 1 .. 3 : k = 1 \/ k = 2 \/ k = 3
    OBVIOUS
  <1>2. /\ a.reason # "" /\ b.reason # "" /\ c.reason # ""
        /\ a.fails = ~Sourcing!Within(x.lead, R.lead)
        /\ b.fails = (\/ ~Sourcing!Within(x.order, R.order)
                      \/ ~Sourcing!Within(Sourcing!PreShipment(x), R.pre))
        /\ c.fails = (\E i \in DOMAIN x.lines :
                         ~Sourcing!Within(x.lines[i].price,
                                          Sourcing!PriceBounds(x.lines[i].product, R.price)))
    BY DEF Sourcing!Check
  <1>3. Sourcing!RoundPolicyReason(s, r, x) = Sourcing!FirstFailing(t)
    BY DEF Sourcing!RoundPolicyReason
  <1> HIDE DEF a, b, c, t, R
  <1>4. 3 \in Nat /\ 1 \in 1 .. 3 /\ 2 \in 1 .. 3 /\ 3 \in 1 .. 3
    OBVIOUS
  <1>5. \A k \in 1 .. 3 : t[k].reason # ""
    BY <1>1, <1>2, Zenon
  <1>6. Sourcing!FirstFailing(t) = "" <=> \A k \in 1 .. 3 : ~t[k].fails
    BY <1>1, <1>4, <1>5, NoneFails, Zenon
  <1>7. Sourcing!FirstFailing(t) = "" <=> ~a.fails /\ ~b.fails /\ ~c.fails
    BY <1>1, <1>4, <1>6, Zenon
  <1>8. Sourcing!RoundPolicyReason(s, r, x) = ""
        <=> /\ Sourcing!Within(x.lead, R.lead)
            /\ Sourcing!Within(x.order, R.order)
            /\ Sourcing!Within(Sourcing!PreShipment(x), R.pre)
            /\ \A i \in DOMAIN x.lines :
                  Sourcing!Within(x.lines[i].price,
                                  Sourcing!PriceBounds(x.lines[i].product, R.price))
    BY <1>2, <1>3, <1>7, Zenon
  <1> QED
    BY <1>8 DEF R

LEMMA WithinInside ==
    ASSUME NEW v \in Int, NEW round, NEW own, Inside(round, own),
           Sourcing!Within(v, round)
    PROVE  Sourcing!Within(v, own)
  BY DEF Inside, Sourcing!Within

\* The price bounds of a round are within those of the supplier.
LEMMA PricesInside ==
    ASSUME NEW s \in Sourcing!SupplierIds, NEW r \in Sourcing!Rounds, NEW p \in Products
    PROVE  LET R == Sourcing!PriceBounds(p, Sourcing!RoundPolicy[s][r].price) IN
           /\ Inside(R, Sourcing!PriceBounds(p, Sourcing!SupplierPolicy[s].price))
           /\ R[1] > 0
  <1> DEFINE R == Sourcing!RoundPolicy[s][r].price
             S == Sourcing!SupplierPolicy[s].price
             m == Baseline[p]
  <1>1. m \in Nat \ {0}
    BY SourcingAssumption DEF Sourcing!IsIntent
  <1>2. Inside(R, S) /\ R[1] >= 92
    BY Tables
  <1> HIDE DEF R, S, m
  <1>3. /\ Sourcing!RoundedShare(m, S[1]) \in Nat /\ Sourcing!RoundedShare(m, S[2]) \in Nat
        /\ Sourcing!RoundedShare(m, R[1]) \in Nat /\ Sourcing!RoundedShare(m, R[2]) \in Nat
        /\ Sourcing!RoundedShare(m, S[1]) <= Sourcing!RoundedShare(m, R[1])
        /\ Sourcing!RoundedShare(m, R[2]) <= Sourcing!RoundedShare(m, S[2])
        /\ Sourcing!RoundedShare(m, R[1]) > 0
    <2>1. /\ S[1] \in Nat /\ R[1] \in Nat /\ R[2] \in Nat /\ S[2] \in Nat
          /\ S[1] <= R[1] /\ R[2] <= S[2] /\ R[1] <= R[1] /\ S[2] <= S[2] /\ R[1] >= 92
      BY <1>2 DEF Inside
    <2>2. /\ Sourcing!RoundedShare(m, S[1]) \in Nat
          /\ Sourcing!RoundedShare(m, S[1]) <= Sourcing!RoundedShare(m, R[1])
      BY <1>1, <2>1, ShareGrows
    <2>3. /\ Sourcing!RoundedShare(m, R[2]) \in Nat
          /\ Sourcing!RoundedShare(m, R[2]) <= Sourcing!RoundedShare(m, S[2])
      BY <1>1, <2>1, ShareGrows
    <2>4. Sourcing!RoundedShare(m, R[1]) \in Nat /\ Sourcing!RoundedShare(m, R[1]) > 0
      BY <1>1, <2>1, ShareGrows
    <2>5. Sourcing!RoundedShare(m, S[2]) \in Nat
      BY <1>1, <2>1, ShareGrows
    <2> QED
      BY <2>2, <2>3, <2>4, <2>5
  <1> QED
    BY <1>3 DEF Inside, Sourcing!PriceBounds, R, S, m

LEMMA LineHolds ==
    ASSUME NEW s, NEW x, NEW i \in DOMAIN x.lines
    PROVE  Sourcing!LineReason(s, x, i) = ""
           <=> /\ ~ \E j \in 1 .. i - 1 : x.lines[j].product = x.lines[i].product
               /\ x.sameCurrency /\ x.lines[i].product \in Products
               /\ Sourcing!Within(x.lines[i].price,
                                  Sourcing!PriceBounds(x.lines[i].product,
                                                       Sourcing!SupplierPolicy[s].price))
  BY DEF Sourcing!LineReason

\* What a typed proposal is made of.
LEMMA Types ==
    ASSUME NEW x, Sourcing!WellTyped(x)
    PROVE  /\ Len(x.lines) \in Nat /\ DOMAIN x.lines = 1 .. Len(x.lines)
           /\ (x.lines = <<>>) = (Len(x.lines) = 0)
           /\ \A i \in DOMAIN x.lines : x.lines[i].quantity \in Int /\ x.lines[i].price \in Int
           /\ Sourcing!PreShipment(x) \in Int
           /\ Sourcing!Listed(x) = {x.lines[i].product : i \in 1 .. Len(x.lines)}
  <1> DEFINE L == [product : {x.lines[i].product : i \in DOMAIN x.lines},
                   quantity : Int, price : Int]
  <1>1. x.lines \in Seq(L)
    BY DEF Sourcing!WellTyped
  <1>2. /\ Len(x.lines) \in Nat /\ DOMAIN x.lines = 1 .. Len(x.lines)
        /\ x.lines \in [1 .. Len(x.lines) -> L]
    BY <1>1, LenProperties
  <1>3. \A i \in DOMAIN x.lines : x.lines[i].quantity \in Int /\ x.lines[i].price \in Int
    BY <1>2
  <1>4. (x.lines = <<>>) = (Len(x.lines) = 0)
    <2> HIDE DEF L
    <2> QED
      BY <1>1, <1>2, EmptySeq
  <1>5. Sourcing!PreShipment(x) \in Int
    BY DEF Sourcing!WellTyped, Sourcing!PreShipment
  <1> QED
    BY <1>2, <1>3, <1>4, <1>5 DEF Sourcing!Listed

\* The lines name every product once.
Covers(x) == /\ Sourcing!Listed(x) = Products
             /\ Len(x.lines) = Cardinality(Products)

LEMMA Covered ==
    ASSUME NEW x, Sourcing!WellTyped(x)
    PROVE  /\ Covers(x) <=> Sourcing!Listed(x) = Products /\ ~Sourcing!Duplicated(x)
           /\ Covers(x) <=> /\ Len(x.lines) = Cardinality(Products)
                            /\ \A i \in DOMAIN x.lines :
                                  /\ x.lines[i].product \in Products
                                  /\ ~ \E j \in 1 .. i - 1 :
                                         x.lines[j].product = x.lines[i].product
  <1> DEFINE n == Len(x.lines)
             f == [i \in 1 .. n |-> x.lines[i].product]
             T == {f[i] : i \in 1 .. n}
  <1>1. n \in Nat /\ DOMAIN x.lines = 1 .. n /\ Sourcing!Listed(x) = T
    <2>1. {x.lines[i].product : i \in 1 .. n} = T
      OBVIOUS
    <2> QED
      BY <2>1, Types
  <1>2. Sourcing!Duplicated(x) <=> Cardinality(T) # n
    BY <1>1, Counts DEF Sourcing!Duplicated
  <1>3. Cardinality(T) = n <=> \A i, j \in 1 .. n : f[i] = f[j] => i = j
    BY <1>1, Distinct
  <1>4. \A i \in 1 .. n : f[i] = x.lines[i].product
    OBVIOUS
  <1> HIDE DEF f, n
  <1>5. (\A i, j \in 1 .. n : f[i] = f[j] => i = j)
        <=> \A i \in 1 .. n : ~ \E j \in 1 .. i - 1 : f[j] = f[i]
    BY <1>1
  <1>6. T = Products /\ Cardinality(T) = n
        <=> n = Cardinality(Products) /\ T \subseteq Products /\ Cardinality(T) = n
    BY SourcingAssumption, FS_Subset
  <1>7. (\A i \in 1 .. n : ~ \E j \in 1 .. i - 1 : f[j] = f[i])
        <=> \A i \in 1 .. n : ~ \E j \in 1 .. i - 1 : x.lines[j].product = x.lines[i].product
    <2>1. \A i \in 1 .. n : \A j \in 1 .. i - 1 : j \in 1 .. n
      BY <1>1
    <2> QED
      BY <1>4, <2>1, Zenon
  <1>8. T \subseteq Products <=> \A i \in 1 .. n : x.lines[i].product \in Products
    BY <1>4
  <1> QED
    BY <1>1, <1>2, <1>3, <1>5, <1>6, <1>7, <1>8, Zenon DEF Covers, n

(* The system accepts exactly the answers that keep to what the prompt      *)
(* requires: the tables the prompt quotes, the supplier's bounds, the       *)
(* round's bounds and the checks on the offer agree for every order and     *)
(* every baseline price, rounding included (proposal-policy.ts, supplier-   *)
(* policy.ts, validate-offer.ts).                                           *)
THEOREM AcceptedIffObedient ==
    ASSUME NEW s \in Sourcing!SupplierIds, NEW r \in Sourcing!Rounds,
           NEW x, Sourcing!WellTyped(x)
    PROVE  Sourcing!Refusal(s, r, x) = "" <=> Sourcing!Obeys(s, r, x)
  <1> DEFINE R == Sourcing!RoundPolicy[s][r]
             S == Sourcing!SupplierPolicy[s]
             I == DOMAIN x.lines
             Capable == x.capacity = IF s = "S2" /\ r = 2 THEN 60 ELSE 100
             Terms(b) == /\ Sourcing!Within(x.lead, b.lead)
                         /\ Sourcing!Within(x.order, b.order)
                         /\ Sourcing!Within(Sourcing!PreShipment(x), b.pre)
             Priced(b, i) == Sourcing!Within(x.lines[i].price,
                                 Sourcing!PriceBounds(x.lines[i].product, b.price))
             Asked(i) == x.lines[i].quantity = Quantity[x.lines[i].product]
             Granted(i) == x.sameCurrency /\ Asked(i)
                           /\ Priced(S, i) /\ Priced(R, i) /\ ~(x.lines[i].price <= 0)
  <1>1. Sourcing!Refusal(s, r, x) = ""
        <=> /\ Sourcing!SchemaValid(x) /\ x.supplier = s /\ x.round = r
            /\ Sourcing!SupplierPolicyReason(s, x) = ""
            /\ Sourcing!CommercialReason(x) = ""
            /\ Sourcing!RoundPolicyReason(s, r, x) = ""
            /\ Capable
    BY DEF Sourcing!Refusal, Sourcing!ExpectedCapacity
  <1>2. Sourcing!SupplierPolicyReason(s, x) = ""
        <=> /\ Terms(S) /\ Covers(x)
            /\ \A i \in I : x.sameCurrency /\ Priced(S, i)
    <2> DEFINE Once(i) == ~ \E j \in 1 .. i - 1 : x.lines[j].product = x.lines[i].product
               Known(i) == x.lines[i].product \in Products
    <2>1. Sourcing!SupplierPolicyReason(s, x) = ""
          <=> /\ Terms(S) /\ Len(x.lines) = Cardinality(Products)
              /\ \A i \in I : Sourcing!LineReason(s, x, i) = ""
      BY PolicyHolds
    <2>2. \A i \in I : Sourcing!LineReason(s, x, i) = ""
                        <=> Once(i) /\ x.sameCurrency /\ Known(i) /\ Priced(S, i)
      BY LineHolds
    <2>3. Covers(x) <=> Len(x.lines) = Cardinality(Products) /\ \A i \in I : Known(i) /\ Once(i)
      BY Covered
    <2> HIDE DEF Once, Known, Terms, Priced, I, S
    <2> QED
      BY <2>1, <2>2, <2>3, Zenon
  <1>3. Sourcing!CommercialReason(x) = ""
        <=> ~x.expired /\ \A i \in I : Asked(i) /\ ~(x.lines[i].price <= 0)
    BY FactsHold
  <1>4. Sourcing!RoundPolicyReason(s, r, x) = "" <=> Terms(R) /\ \A i \in I : Priced(R, i)
    BY RoundHolds, Zenon
  <1>5. Sourcing!Obeys(s, r, x)
        <=> /\ x.supplier = s /\ x.round = r /\ x.sameCurrency /\ ~x.expired /\ Capable
            /\ Terms(R) /\ Sourcing!ScheduleTotal(x) = 100 /\ Covers(x)
            /\ \A i \in I : Asked(i) /\ Priced(R, i)
    BY Covered DEF Sourcing!Obeys
  <1>6. Terms(R) => Terms(S) /\ x.lead > 0
    <2>1. /\ Inside(R.lead, S.lead) /\ Inside(R.order, S.order) /\ Inside(R.pre, S.pre)
          /\ R.lead[1] > 0
      BY Tables
    <2>2. x.lead \in Int /\ x.order \in Int /\ Sourcing!PreShipment(x) \in Int
      BY Types DEF Sourcing!WellTyped
    <2>3. Terms(R) => Terms(S)
      BY <2>1, <2>2, WithinInside
    <2>4. Terms(R) => x.lead > 0
      BY <2>1, <2>2 DEF Sourcing!Within, Inside
    <2> QED
      BY <2>3, <2>4
  <1>7. ASSUME NEW i \in I, x.lines[i].product \in Products, Priced(R, i)
        PROVE  Priced(S, i) /\ ~(x.lines[i].price <= 0)
    <2> DEFINE p == x.lines[i].product
               v == x.lines[i].price
               B == Sourcing!PriceBounds(p, R.price)
    <2>1. Inside(B, Sourcing!PriceBounds(p, S.price)) /\ B[1] > 0
      BY <1>7, PricesInside
    <2>2. v \in Int /\ Sourcing!Within(v, B)
      BY <1>7, Types
    <2>3. Priced(S, i)
      BY <2>1, <2>2, WithinInside
    <2>4. v > 0
      <3> HIDE DEF v, B
      <3> QED
        BY <2>1, <2>2 DEF Sourcing!Within, Inside
    <2> QED
      BY <2>2, <2>3, <2>4
  <1>8. Covers(x) => x.lines # <<>> /\ \A i \in I : x.lines[i].product \in Products
    <2>1. SUFFICES ASSUME Covers(x)
                   PROVE  x.lines # <<>> /\ \A i \in I : x.lines[i].product \in Products
      OBVIOUS
    <2>2. \A i \in I : x.lines[i].product \in Products
      BY <2>1 DEF Covers, Sourcing!Listed
    <2>3. Products # {} /\ {x.lines[i].product : i \in I} = Products
      BY <2>1, SourcingAssumption DEF Covers, Sourcing!Listed, Sourcing!IsIntent
    <2>4. I # {}
      BY <2>3
    <2>5. x.lines # <<>>
      BY <2>4, Types
    <2> QED
      BY <2>2, <2>5
  <1>9. Capable => x.capacity \in 0 .. 100
    OBVIOUS
  <1>10. Sourcing!SchemaValid(x)
         <=> /\ Sourcing!ScheduleTotal(x) = 100 /\ x.lead > 0
             /\ x.capacity \in 0 .. 100 /\ x.lines # <<>>
    BY DEF Sourcing!SchemaValid
  <1>11. x.lines # <<>> => \E i \in I : TRUE
    BY Types
  <1> HIDE DEF Terms, Priced, Asked, Capable, I, R, S
  <1>12. ASSUME Sourcing!Refusal(s, r, x) = ""
         PROVE  Sourcing!Obeys(s, r, x)
    BY <1>1, <1>2, <1>3, <1>4, <1>5, <1>10, <1>11, <1>12, Zenon
  <1>13. ASSUME Sourcing!Obeys(s, r, x)
         PROVE  Sourcing!Refusal(s, r, x) = ""
    <2>1. \A i \in I : x.sameCurrency /\ Priced(S, i) /\ ~(x.lines[i].price <= 0)
      BY <1>5, <1>7, <1>8, <1>13, Zenon
    <2> QED
      BY <1>1, <1>2, <1>3, <1>4, <1>5, <1>6, <1>8, <1>9, <1>10, <1>13, <2>1, Zenon
  <1> QED
    BY <1>12, <1>13

------------------------------------------------------------------------------
(* Sums over the lines *)

\* The partial sums of a row of numbers.
Partial(f, n, a) == f = [i \in 0 .. n |-> IF i = 0 THEN 0 ELSE f[i - 1] + a[i]]

LEMMA PartialSteps ==
    ASSUME NEW n \in Nat, NEW a, NEW f, Partial(f, n, a)
    PROVE  f[0] = 0 /\ \A i \in 1 .. n : i - 1 \in 0 .. n /\ f[i] = f[i - 1] + a[i]
  <1>1. \A i \in 0 .. n : f[i] = IF i = 0 THEN 0 ELSE f[i - 1] + a[i]
    BY DEF Partial
  <1>2. 0 \in 0 .. n /\ \A i \in 1 .. n : i \in 0 .. n /\ i # 0 /\ i - 1 \in 0 .. n
    OBVIOUS
  <1> QED
    BY <1>1, <1>2

LEMMA PartialExists ==
    ASSUME NEW n \in Nat, NEW a \in [1 .. n -> Int]
    PROVE  \E f : Partial(f, n, a)
  <1> DEFINE S == {m \in Nat : m <= n => \E f : Partial(f, m, a)}
  <1>1. 0 \in S
    <2> DEFINE f == [i \in 0 .. 0 |-> 0]
    <2>1. f = [i \in 0 .. 0 |-> IF i = 0 THEN 0 ELSE f[i - 1] + a[i]]
      OBVIOUS
    <2> QED
      BY <2>1 DEF Partial
  <1>2. ASSUME NEW m \in Nat, m \in S, m + 1 <= n
        PROVE  \E f : Partial(f, m + 1, a)
    <2>1. PICK f : Partial(f, m, a)
      BY <1>2
    <2> DEFINE g == [i \in 0 .. m + 1 |-> IF i = m + 1 THEN f[m] + a[m + 1] ELSE f[i]]
    <2>2. f[0] = 0 /\ \A i \in 1 .. m : f[i] = f[i - 1] + a[i]
      BY <2>1, PartialSteps, Zenon
    <2>3. g[0] = 0
      BY <2>2
    <2>4. ASSUME NEW i \in 1 .. m + 1
          PROVE  g[i] = g[i - 1] + a[i]
      <3>1. i - 1 \in 0 .. m + 1 /\ i \in 0 .. m + 1 /\ i - 1 # m + 1
        OBVIOUS
      <3>2. g[i - 1] = f[i - 1]
        BY <3>1
      <3>3. CASE i = m + 1
        <4>1. g[i] = f[m] + a[m + 1] /\ i - 1 = m
          BY <3>1, <3>3
        <4> HIDE DEF g
        <4> QED
          BY <3>2, <3>3, <4>1
      <3>4. CASE i # m + 1
        <4>1. g[i] = f[i] /\ i \in 1 .. m
          BY <3>1, <3>4
        <4> HIDE DEF g
        <4> QED
          BY <2>2, <3>2, <4>1
      <3> QED
        BY <3>3, <3>4
    <2>5. \A i \in 0 .. m + 1 : g[i] = IF i = 0 THEN 0 ELSE g[i - 1] + a[i]
      <3>1. \A i \in 0 .. m + 1 : i = 0 \/ i \in 1 .. m + 1
        OBVIOUS
      <3> HIDE DEF g
      <3> QED
        BY <2>3, <2>4, <3>1
    <2>6. g = [i \in 0 .. m + 1 |-> g[i]]
      OBVIOUS
    <2> HIDE DEF g
    <2>7. g = [i \in 0 .. m + 1 |-> IF i = 0 THEN 0 ELSE g[i - 1] + a[i]]
      BY <2>5, <2>6
    <2> QED
      BY <2>7 DEF Partial
  <1>3. \A m \in Nat : m \in S => m + 1 \in S
    BY <1>2
  <1> HIDE DEF S
  <1>4. n \in S
    BY <1>1, <1>3, SetInduction
  <1> QED
    BY <1>4 DEF S

LEMMA PartialType ==
    ASSUME NEW n \in Nat, NEW a \in [1 .. n -> Int], NEW f, Partial(f, n, a)
    PROVE  f \in [0 .. n -> Int]
  <1> DEFINE S == {m \in Nat : m <= n => f[m] \in Int}
  <1>1. f[0] = 0 /\ \A i \in 1 .. n : f[i] = f[i - 1] + a[i]
    BY PartialSteps, Zenon
  <1>2. 0 \in S
    BY <1>1
  <1>3. ASSUME NEW m \in Nat, m \in S PROVE m + 1 \in S
    <2>1. CASE m + 1 <= n
      <3>1. m + 1 \in 1 .. n /\ (m + 1) - 1 = m /\ m <= n
        BY <2>1
      <3>2. f[m + 1] = f[m] + a[m + 1] /\ f[m] \in Int /\ a[m + 1] \in Int
        BY <1>1, <1>3, <3>1
      <3> QED
        BY <3>2
    <2> QED
      BY <2>1
  <1> HIDE DEF S
  <1>4. Nat \subseteq S
    BY <1>2, <1>3, SetInduction
  <1>5. \A i \in 0 .. n : f[i] \in Int
    BY <1>4 DEF S
  <1>6. f = [i \in 0 .. n |-> IF i = 0 THEN 0 ELSE f[i - 1] + a[i]]
    BY DEF Partial
  <1> QED
    BY <1>5, <1>6

LEMMA TotalIsSum ==
    ASSUME NEW x, Len(x.lines) \in Nat,
           \A i \in 1 .. Len(x.lines) : x.lines[i].quantity * x.lines[i].price \in Int
    PROVE  \E f : /\ Partial(f, Len(x.lines),
                             [i \in 1 .. Len(x.lines) |->
                                 x.lines[i].quantity * x.lines[i].price])
                  /\ Sourcing!TotalOf(x) = f[Len(x.lines)]
  <1> DEFINE n == Len(x.lines)
             a == [i \in 1 .. n |-> x.lines[i].quantity * x.lines[i].price]
             Total(f) == f = [i \in 0 .. n |->
                                 IF i = 0 THEN 0
                                 ELSE f[i - 1] + x.lines[i].quantity * x.lines[i].price]
             sum == CHOOSE f : Total(f)
  <1>1. PICK f : Partial(f, n, a)
    BY PartialExists
  <1>2. ASSUME NEW g PROVE Partial(g, n, a) <=> Total(g)
    <2>1. \A i \in 0 .. n : (IF i = 0 THEN 0 ELSE g[i - 1] + a[i])
                           = (IF i = 0 THEN 0
                              ELSE g[i - 1] + x.lines[i].quantity * x.lines[i].price)
      OBVIOUS
    <2>2. [i \in 0 .. n |-> IF i = 0 THEN 0 ELSE g[i - 1] + a[i]]
          = [i \in 0 .. n |-> IF i = 0 THEN 0
                             ELSE g[i - 1] + x.lines[i].quantity * x.lines[i].price]
      BY <2>1
    <2> QED
      BY <2>2, Zenon DEF Partial
  <1>3. Total(sum)
    <2>1. Total(f)
      BY <1>1, <1>2
    <2> HIDE DEF Total
    <2> QED
      BY <2>1
  <1>4. Sourcing!TotalOf(x) = sum[n]
    BY DEF Sourcing!TotalOf
  <1> HIDE DEF Total, sum
  <1> QED
    BY <1>2, <1>3, <1>4

\* Running totals of F along the row p.
Sums(f, F, p, n) ==
    /\ f \in [0 .. n -> Int] /\ f[0] = 0
    /\ \A i \in 1 .. n : F[p[i]] \in Int /\ f[i] = f[i - 1] + F[p[i]]

\* A row without its place k, and its running totals.
Without(q, k, n)     == [i \in 1 .. n |-> IF i < k THEN q[i] ELSE q[i + 1]]
TotalsWithout(g, k, n, v) == [i \in 0 .. n |-> IF i < k THEN g[i] ELSE g[i + 1] - v]

SplitAt(g, G, q, k, n) ==
    /\ Sums(TotalsWithout(g, k, n, G[q[k]]), G, Without(q, k, n), n)
    /\ TotalsWithout(g, k, n, G[q[k]])[n] = g[n + 1] - G[q[k]]

LEMMA SumsWithout ==
    ASSUME NEW n \in Nat, NEW G, NEW q, NEW g, Sums(g, G, q, n + 1), NEW k \in 1 .. n + 1
    PROVE  SplitAt(g, G, q, k, n)
  <1> DEFINE v == G[q[k]]
             h == TotalsWithout(g, k, n, v)
             r == Without(q, k, n)
  <1>1. /\ v \in Int /\ g \in [0 .. n + 1 -> Int] /\ g[0] = 0
        /\ g[k] = g[k - 1] + v
        /\ \A i \in 1 .. n + 1 : g[i] = g[i - 1] + G[q[i]] /\ G[q[i]] \in Int
    BY DEF Sums
  <1>2. \A i \in 0 .. n : /\ i < k => h[i] = g[i]
                          /\ ~(i < k) => h[i] = g[i + 1] - v
    BY DEF TotalsWithout
  <1>3. \A i \in 1 .. n : /\ i < k => r[i] = q[i]
                          /\ ~(i < k) => r[i] = q[i + 1]
    BY DEF Without
  <1>4. h \in [0 .. n -> Int]
    <2>1. \A i \in 0 .. n : i \in 0 .. n + 1 /\ i + 1 \in 0 .. n + 1
      OBVIOUS
    <2>2. \A i \in 0 .. n : g[i] \in Int /\ g[i + 1] \in Int
      BY <1>1, <2>1
    <2>3. v \in Int
      BY <1>1
    <2> HIDE DEF v
    <2>4. \A i \in 0 .. n : (IF i < k THEN g[i] ELSE g[i + 1] - v) \in Int
      BY <2>2, <2>3
    <2> QED
      BY <2>4 DEF TotalsWithout
  <1> HIDE DEF v, h, r
  <1>5. h[0] = 0
    BY <1>1, <1>2
  <1>6. ASSUME NEW i \in 1 .. n PROVE G[r[i]] \in Int /\ h[i] = h[i - 1] + G[r[i]]
    <2>1. i \in 0 .. n /\ i - 1 \in 0 .. n /\ i \in 1 .. n + 1 /\ i + 1 \in 1 .. n + 1
          /\ (i + 1) - 1 = i
      OBVIOUS
    <2>2. g[i] \in Int /\ g[i - 1] \in Int /\ g[i + 1] \in Int /\ G[q[i]] \in Int
          /\ G[q[i + 1]] \in Int /\ g[i] = g[i - 1] + G[q[i]] /\ g[i + 1] = g[i] + G[q[i + 1]]
      <3>1. i \in 0 .. n + 1 /\ i - 1 \in 0 .. n + 1 /\ i + 1 \in 0 .. n + 1
        OBVIOUS
      <3>2. g[i] \in Int /\ g[i - 1] \in Int /\ g[i + 1] \in Int
        BY <1>1, <3>1
      <3>3. g[i] = g[i - 1] + G[q[i]] /\ G[q[i]] \in Int
        BY <1>1, <2>1
      <3>4. g[i + 1] = g[(i + 1) - 1] + G[q[i + 1]] /\ G[q[i + 1]] \in Int
        BY <1>1, <2>1
      <3> QED
        BY <2>1, <3>2, <3>3, <3>4
    <2>3. CASE i < k
      <3>1. h[i] = g[i] /\ r[i] = q[i] /\ h[i - 1] = g[i - 1]
        BY <1>2, <1>3, <2>1, <2>3
      <3> QED
        BY <2>2, <3>1
    <2>4. CASE i = k
      <3>1. h[i] = g[i + 1] - v /\ r[i] = q[i + 1] /\ h[i - 1] = g[i - 1]
        BY <1>2, <1>3, <2>1, <2>4
      <3>2. g[i] = g[i - 1] + v /\ v \in Int
        BY <1>1, <2>4
      <3>3. G[r[i]] = G[q[i + 1]]
        BY <3>1
      <3> DEFINE w == G[q[i + 1]]
      <3>4. w \in Int /\ g[i + 1] = g[i] + w /\ G[r[i]] = w
        BY <2>2, <3>3
      <3> HIDE DEF w
      <3> QED
        BY <2>2, <3>1, <3>2, <3>4
    <2>5. CASE i > k
      <3>1. h[i] = g[i + 1] - v /\ r[i] = q[i + 1] /\ h[i - 1] = g[i] - v
        BY <1>2, <1>3, <2>1, <2>5
      <3> DEFINE w == G[q[i + 1]]
      <3>2. w \in Int /\ g[i + 1] = g[i] + w /\ G[r[i]] = w
        BY <2>2, <3>1
      <3> HIDE DEF w
      <3>3. v \in Int /\ g[i] \in Int
        BY <1>1, <2>2
      <3>4. h[i] = (g[i] + w) - v /\ h[i - 1] = g[i] - v
        BY <3>1, <3>2
      <3>5. h[i] = h[i - 1] + w
        BY <3>2, <3>3, <3>4
      <3> QED
        BY <3>2, <3>5
    <2> QED
      BY <2>3, <2>4, <2>5
  <1>7. h[n] = g[n + 1] - v
    <2>1. CASE n < k
      <3>1. k = n + 1 /\ h[n] = g[n] /\ k - 1 = n
        BY <1>2, <2>1
      <3>2. g[n + 1] = g[n] + v /\ g[n] \in Int /\ v \in Int
        BY <1>1, <3>1
      <3> QED
        BY <3>1, <3>2
    <2>2. CASE ~(n < k)
      BY <1>2, <2>2
    <2> QED
      BY <2>1, <2>2
  <1> QED
    BY <1>4, <1>5, <1>6, <1>7 DEF SplitAt, Sums, v, h, r

LEMMA AddedUp ==
    ASSUME NEW s \in Int, NEW t \in Int, NEW u \in Int, NEW v \in Int,
           s <= t - v, u <= v
    PROVE  s + u <= t
  OBVIOUS

\* The same things in any order: where each one adds less, so does the whole.
\* The first row names nothing twice, the second may name more.
LEMMA SumsCompare ==
    ASSUME NEW D, NEW F \in [D -> Int], NEW G \in [D -> Int], \A d \in D : F[d] <= G[d]
    PROVE  \A n \in Nat : \A p \in [1 .. n -> D], q \in [1 .. n -> D] : \A f, g :
              /\ \A i, j \in 1 .. n : p[i] = p[j] => i = j
              /\ \A i \in 1 .. n : \E j \in 1 .. n : q[j] = p[i]
              /\ Sums(f, F, p, n) /\ Sums(g, G, q, n)
              => f[n] <= g[n]
  <1> DEFINE C(n) == \A p \in [1 .. n -> D], q \in [1 .. n -> D] : \A f, g :
                        /\ \A i, j \in 1 .. n : p[i] = p[j] => i = j
                        /\ \A i \in 1 .. n : \E j \in 1 .. n : q[j] = p[i]
                        /\ Sums(f, F, p, n) /\ Sums(g, G, q, n)
                        => f[n] <= g[n]
             S == {n \in Nat : C(n)}
  <1>1. C(0)
    BY DEF Sums
  <1>2. ASSUME NEW n \in Nat, C(n) PROVE C(n + 1)
    <2>1. SUFFICES ASSUME NEW p \in [1 .. n + 1 -> D], NEW q \in [1 .. n + 1 -> D],
                          NEW f, NEW g,
                          \A i, j \in 1 .. n + 1 : p[i] = p[j] => i = j,
                          \A i \in 1 .. n + 1 : \E j \in 1 .. n + 1 : q[j] = p[i],
                          Sums(f, F, p, n + 1), Sums(g, G, q, n + 1)
                   PROVE  f[n + 1] <= g[n + 1]
      OBVIOUS
    <2>2. n + 1 \in 1 .. n + 1 /\ (n + 1) - 1 = n /\ n \in 0 .. n + 1 /\ n \in 0 .. n
          /\ n + 1 \in 0 .. n + 1
      OBVIOUS
    <2>3. PICK k \in 1 .. n + 1 : q[k] = p[n + 1]
      BY <2>1, <2>2
    <2> DEFINE a == p[n + 1]
               p1 == [i \in 1 .. n |-> p[i]]
               f1 == [i \in 0 .. n |-> f[i]]
               q1 == Without(q, k, n)
               g1 == TotalsWithout(g, k, n, G[q[k]])
    <2>4. p1 \in [1 .. n -> D] /\ q1 \in [1 .. n -> D]
      BY DEF Without
    <2>5. \A i, j \in 1 .. n : p1[i] = p1[j] => i = j
      BY <2>1
    <2>6. ASSUME NEW i \in 1 .. n
          PROVE  \E j \in 1 .. n : q1[j] = p1[i]
      <3>1. i \in 1 .. n + 1 /\ i # n + 1
        OBVIOUS
      <3>2. PICK j \in 1 .. n + 1 : q[j] = p[i]
        BY <2>1, <3>1
      <3>3. j # k
        BY <2>1, <2>2, <2>3, <3>1, <3>2
      <3>4. CASE j < k
        <4>1. j \in 1 .. n /\ q1[j] = q[j]
          BY <3>4 DEF Without
        <4> QED
          BY <3>2, <4>1
      <3>5. CASE k < j
        <4>1. j - 1 \in 1 .. n /\ ~(j - 1 < k) /\ (j - 1) + 1 = j
          BY <3>5
        <4>2. q1[j - 1] = q[j]
          BY <4>1 DEF Without
        <4> QED
          BY <3>2, <4>1, <4>2
      <3> QED
        BY <3>3, <3>4, <3>5
    <2>7. Sums(f1, F, p1, n) /\ f1[n] = f[n]
      <3>1. f1 \in [0 .. n -> Int] /\ f1[0] = 0
        BY <2>1 DEF Sums
      <3>2. ASSUME NEW i \in 1 .. n
            PROVE  F[p1[i]] \in Int /\ f1[i] = f1[i - 1] + F[p1[i]]
        <4>1. i \in 1 .. n + 1 /\ i \in 0 .. n /\ i - 1 \in 0 .. n
          OBVIOUS
        <4>2. F[p[i]] \in Int /\ f[i] = f[i - 1] + F[p[i]]
          BY <2>1, <4>1 DEF Sums
        <4> QED
          BY <4>1, <4>2
      <3>3. f1[n] = f[n]
        BY <2>2
      <3> HIDE DEF f1, p1
      <3> QED
        BY <3>1, <3>2, <3>3 DEF Sums
    <2>8. Sums(g1, G, q1, n) /\ g1[n] = g[n + 1] - G[a]
      <3>1. SplitAt(g, G, q, k, n)
        <4>1. Sums(g, G, q, n + 1)
          BY <2>1
        <4> QED
          BY <4>1, SumsWithout
      <3> QED
        BY <2>3, <3>1 DEF SplitAt
    <2>9. f[n + 1] = f[n] + F[a] /\ f[n] \in Int /\ F[a] \in Int /\ G[a] \in Int
          /\ F[a] <= G[a] /\ g[n + 1] \in Int
      BY <2>1, <2>2 DEF Sums
    <2> HIDE DEF p1, f1, q1, g1, a
    <2>10. f1[n] <= g1[n]
      BY <1>2, <2>4, <2>5, <2>6, <2>7, <2>8
    <2>11. f[n] <= g[n + 1] - G[a]
      BY <2>7, <2>8, <2>10
    <2> QED
      BY <2>9, <2>11, AddedUp
  <1> HIDE DEF C
  <1>3. 0 \in S /\ \A n \in Nat : n \in S => n + 1 \in S
    BY <1>1, <1>2
  <1> HIDE DEF S
  <1>4. Nat \subseteq S
    BY <1>3, SetInduction
  <1> QED
    BY <1>4 DEF S, C

Cost(l) == l.quantity * l.price

LEMMA CostsAreInt ==
    ASSUME NEW x, Sourcing!WellTyped(x)
    PROVE  \A i \in DOMAIN x.lines : Cost(x.lines[i]) \in Int
  BY Types DEF Cost

\* The row p names what the lines are for, and F what each of them costs.
CostsOf(x, F, p) == \A i \in 1 .. Len(x.lines) : F[p[i]] = Cost(x.lines[i])

\* The total is the sum of what each product costs.
LEMMA TotalByProduct ==
    ASSUME NEW x, Sourcing!WellTyped(x), NEW p, NEW F, CostsOf(x, F, p)
    PROVE  \E f : Sums(f, F, p, Len(x.lines)) /\ Sourcing!TotalOf(x) = f[Len(x.lines)]
  <1> DEFINE n == Len(x.lines)
             a == [i \in 1 .. n |-> x.lines[i].quantity * x.lines[i].price]
  <1>1. n \in Nat /\ DOMAIN x.lines = 1 .. n
        /\ \A i \in 1 .. n : x.lines[i].quantity * x.lines[i].price \in Int
    BY Types
  <1>2. PICK f : Partial(f, n, a) /\ Sourcing!TotalOf(x) = f[n]
    BY <1>1, TotalIsSum
  <1>3. a \in [1 .. n -> Int]
    BY <1>1
  <1>4. \A i \in 1 .. n : a[i] = F[p[i]] /\ a[i] \in Int
    BY <1>1 DEF CostsOf, Cost
  <1> HIDE DEF a, n
  <1>5. f[0] = 0 /\ \A i \in 1 .. n : f[i] = f[i - 1] + a[i]
    BY <1>1, <1>2, PartialSteps
  <1>6. f \in [0 .. n -> Int]
    BY <1>1, <1>2, <1>3, PartialType
  <1>7. Sums(f, F, p, n)
    BY <1>4, <1>5, <1>6 DEF Sums
  <1> QED
    BY <1>2, <1>7 DEF n

LEMMA TotalInt ==
    ASSUME NEW x, Sourcing!WellTyped(x)
    PROVE  Sourcing!TotalOf(x) \in Int
  <1> DEFINE n == Len(x.lines)
             a == [i \in 1 .. n |-> x.lines[i].quantity * x.lines[i].price]
  <1>1. n \in Nat /\ DOMAIN x.lines = 1 .. n
        /\ \A i \in 1 .. n : x.lines[i].quantity * x.lines[i].price \in Int
    BY Types
  <1>2. PICK f : Partial(f, n, a) /\ Sourcing!TotalOf(x) = f[n]
    BY <1>1, TotalIsSum
  <1>3. a \in [1 .. n -> Int]
    BY <1>1
  <1> HIDE DEF a, n
  <1>4. f \in [0 .. n -> Int]
    BY <1>1, <1>2, <1>3, PartialType
  <1> QED
    BY <1>1, <1>2, <1>4

\* Two offers for the same products, in whatever order: where no product costs
\* more in the one, the whole does not.
LEMMA TotalsCompare ==
    ASSUME NEW x, Sourcing!WellTyped(x), Covers(x),
           NEW y, Sourcing!WellTyped(y), Covers(y),
           \A i \in DOMAIN y.lines, j \in DOMAIN x.lines :
              y.lines[i].product = x.lines[j].product
              => Cost(y.lines[i]) <= Cost(x.lines[j])
    PROVE  Sourcing!TotalOf(y) <= Sourcing!TotalOf(x)
  <1> DEFINE n == Cardinality(Products)
             p == [i \in 1 .. n |-> y.lines[i].product]
             q == [i \in 1 .. n |-> x.lines[i].product]
             Of(z, d) == CHOOSE i \in 1 .. n : z.lines[i].product = d
             F == [d \in Products |-> Cost(y.lines[Of(y, d)])]
             G == [d \in Products |-> Cost(x.lines[Of(x, d)])]
  <1>1. /\ n \in Nat /\ Len(y.lines) = n /\ Len(x.lines) = n
        /\ DOMAIN y.lines = 1 .. n /\ DOMAIN x.lines = 1 .. n
    BY Types DEF Covers
  <1>2. ASSUME NEW z, Sourcing!WellTyped(z), Covers(z)
        PROVE  /\ DOMAIN z.lines = 1 .. n
               /\ \A i \in 1 .. n : z.lines[i].product \in Products
               /\ \A i, j \in 1 .. n : z.lines[i].product = z.lines[j].product => i = j
               /\ \A d \in Products : \E i \in 1 .. n : z.lines[i].product = d
    <2>1. Len(z.lines) = n /\ DOMAIN z.lines = 1 .. n
      BY <1>2, Types DEF Covers
    <2>2. {z.lines[i].product : i \in 1 .. n} = Products
      BY <1>2, <2>1 DEF Covers, Sourcing!Listed
    <2>3. \A i \in 1 .. n : \A j \in 1 .. i - 1 : z.lines[j].product # z.lines[i].product
      BY <1>2, <2>1, Covered
    <2>4. ASSUME NEW i \in 1 .. n, NEW j \in 1 .. n, z.lines[i].product = z.lines[j].product
          PROVE  i = j
      <3>1. i < j \/ i = j \/ j < i
        BY <1>1
      <3>2. (i < j => i \in 1 .. j - 1) /\ (j < i => j \in 1 .. i - 1)
        BY <1>1
      <3> QED
        BY <2>3, <2>4, <3>1, <3>2
    <2> QED
      BY <2>1, <2>2, <2>4
  <1>3. ASSUME NEW z, Sourcing!WellTyped(z), Covers(z), NEW d \in Products
        PROVE  Of(z, d) \in 1 .. n /\ z.lines[Of(z, d)].product = d
    BY <1>2, <1>3
  <1>4. ASSUME NEW z, Sourcing!WellTyped(z), Covers(z), NEW i \in 1 .. n
        PROVE  z.lines[i].product \in Products /\ Of(z, z.lines[i].product) = i
    <2>1. z.lines[i].product \in Products
      BY <1>2, <1>4
    <2>2. /\ Of(z, z.lines[i].product) \in 1 .. n
          /\ z.lines[Of(z, z.lines[i].product)].product = z.lines[i].product
      BY <1>3, <1>4, <2>1
    <2> HIDE DEF Of
    <2> QED
      BY <1>2, <1>4, <2>1, <2>2
  <1> HIDE DEF Of, n
  <1>5. p \in [1 .. n -> Products] /\ q \in [1 .. n -> Products]
    BY <1>2
  <1>6. F \in [Products -> Int] /\ G \in [Products -> Int]
    BY <1>1, <1>3, CostsAreInt
  <1>7. \A d \in Products : F[d] <= G[d]
    <2>1. ASSUME NEW d \in Products PROVE F[d] <= G[d]
      <3>1. /\ Of(y, d) \in DOMAIN y.lines /\ Of(x, d) \in DOMAIN x.lines
            /\ y.lines[Of(y, d)].product = x.lines[Of(x, d)].product
        BY <1>1, <1>3
      <3>2. Cost(y.lines[Of(y, d)]) <= Cost(x.lines[Of(x, d)])
        BY <3>1
      <3> QED
        BY <3>2
    <2> QED
      BY <2>1
  <1>8. CostsOf(y, F, p) /\ CostsOf(x, G, q)
    BY <1>1, <1>4 DEF CostsOf
  <1>9. /\ \A i, j \in 1 .. n : p[i] = p[j] => i = j
        /\ \A i \in 1 .. n : \E j \in 1 .. n : q[j] = p[i]
    BY <1>2
  <1> HIDE DEF F, G
  <1>10. PICK f : Sums(f, F, p, n) /\ Sourcing!TotalOf(y) = f[n]
    BY <1>1, <1>8, TotalByProduct
  <1>11. PICK g : Sums(g, G, q, n) /\ Sourcing!TotalOf(x) = g[n]
    BY <1>1, <1>8, TotalByProduct
  <1> HIDE DEF p, q
  <1>12. f[n] <= g[n]
    BY <1>1, <1>5, <1>6, <1>7, <1>9, <1>10, <1>11, SumsCompare
  <1> QED
    BY <1>10, <1>11, <1>12

------------------------------------------------------------------------------
(* Concessions *)

LEMMA ConcessionTables ==
    ASSUME NEW s \in Sourcing!SupplierIds
    PROVE  LET opening == Sourcing!RoundPolicy[s][1]
               concession == Sourcing!RoundPolicy[s][2]
           IN /\ concession.price[2] <= opening.price[1]
              /\ concession.lead[2] < opening.lead[1]
              /\ concession.pre[2] < opening.pre[1]
  <1>1. s = "S1" \/ s = "S2" \/ s = "S3"
    BY DEF Sourcing!SupplierIds
  <1> USE DEF Sourcing!RoundPolicy, Sourcing!Bounds
  <1>2. CASE s = "S1"
    BY <1>2
  <1>3. CASE s = "S2"
    BY <1>3
  <1>4. CASE s = "S3"
    BY <1>4
  <1> QED
    BY <1>1, <1>2, <1>3, <1>4

LEMMA ObeysCovers ==
    ASSUME NEW s, NEW r, NEW x, Sourcing!WellTyped(x), Sourcing!Obeys(s, r, x)
    PROVE  /\ Covers(x)
           /\ \A i \in DOMAIN x.lines :
                 /\ x.lines[i].product \in Products
                 /\ x.lines[i].quantity = Quantity[x.lines[i].product]
                 /\ Sourcing!Within(x.lines[i].price,
                        Sourcing!PriceBounds(x.lines[i].product, Sourcing!RoundPolicy[s][r].price))
  <1>1. Covers(x)
    BY Covered DEF Sourcing!Obeys
  <1>2. \A i \in DOMAIN x.lines : x.lines[i].product \in Products
    BY <1>1 DEF Covers, Sourcing!Listed
  <1> QED
    BY <1>1, <1>2 DEF Sourcing!Obeys

\* No line of a second offer costs more than the same line of the first.
LEMMA LineCostsLess ==
    ASSUME NEW s \in Sourcing!SupplierIds,
           NEW x, Sourcing!WellTyped(x), Sourcing!Obeys(s, 1, x),
           NEW y, Sourcing!WellTyped(y), Sourcing!Obeys(s, 2, y),
           NEW i \in DOMAIN y.lines, NEW j \in DOMAIN x.lines,
           y.lines[i].product = x.lines[j].product
    PROVE  Cost(y.lines[i]) <= Cost(x.lines[j])
  <1> DEFINE p == x.lines[j].product
             m == Baseline[p]
             R1 == Sourcing!RoundPolicy[s][1].price
             R2 == Sourcing!RoundPolicy[s][2].price
             v == y.lines[i].price
             w == x.lines[j].price
             k == Quantity[p]
  <1>1. /\ p \in Products /\ y.lines[i].quantity = k /\ x.lines[j].quantity = k
        /\ Sourcing!Within(v, Sourcing!PriceBounds(p, R2))
        /\ Sourcing!Within(w, Sourcing!PriceBounds(p, R1))
    BY ObeysCovers
  <1>2. m \in Nat \ {0} /\ k \in Nat
    BY <1>1, SourcingAssumption DEF Sourcing!IsIntent
  <1>3. v \in Int /\ w \in Int
    BY Types
  <1>4. R2[2] \in Nat /\ R1[1] \in Nat /\ R2[2] <= R1[1]
    <2>1. 1 \in Sourcing!Rounds /\ 2 \in Sourcing!Rounds
      BY DEF Sourcing!Rounds
    <2> QED
      BY <2>1, Tables, ConcessionTables DEF Inside
  <1>5. v <= Sourcing!RoundedShare(m, R2[2]) /\ Sourcing!RoundedShare(m, R1[1]) <= w
    BY <1>1 DEF Sourcing!Within, Sourcing!PriceBounds
  <1> HIDE DEF p, m, R1, R2, v, w, k
  <1>6. /\ Sourcing!RoundedShare(m, R2[2]) <= Sourcing!RoundedShare(m, R1[1])
        /\ Sourcing!RoundedShare(m, R2[2]) \in Nat
    BY <1>2, <1>4, ShareGrows
  <1>7. Sourcing!RoundedShare(m, R1[1]) \in Nat
    <2>1. R1[1] <= R1[1]
      BY <1>4
    <2> QED
      BY <1>2, <1>4, <2>1, ShareGrows
  <1>8. v <= w
    BY <1>3, <1>5, <1>6, <1>7
  <1>9. k * v <= k * w
    BY <1>2, <1>3, <1>8
  <1>10. Cost(y.lines[i]) = k * v /\ Cost(x.lines[j]) = k * w
    BY <1>1 DEF Cost, v, w
  <1> QED
    BY <1>9, <1>10

LEMMA SecondImproves ==
    ASSUME NEW s \in Sourcing!SupplierIds,
           NEW x, Sourcing!WellTyped(x), Sourcing!Obeys(s, 1, x),
           NEW y, Sourcing!WellTyped(y), Sourcing!Obeys(s, 2, y)
    PROVE  /\ Sourcing!TotalOf(y) <= Sourcing!TotalOf(x)
           /\ y.lead < x.lead
           /\ Sourcing!PreShipment(y) < Sourcing!PreShipment(x)
  <1>1. Sourcing!TotalOf(y) <= Sourcing!TotalOf(x)
    <2>1. Covers(x) /\ Covers(y)
      BY ObeysCovers
    <2>2. \A i \in DOMAIN y.lines, j \in DOMAIN x.lines :
             y.lines[i].product = x.lines[j].product
             => Cost(y.lines[i]) <= Cost(x.lines[j])
      BY LineCostsLess
    <2> QED
      BY <2>1, <2>2, TotalsCompare
  <1>2. y.lead < x.lead /\ Sourcing!PreShipment(y) < Sourcing!PreShipment(x)
    <2> DEFINE R1 == Sourcing!RoundPolicy[s][1]
               R2 == Sourcing!RoundPolicy[s][2]
    <2>1. /\ Sourcing!Within(x.lead, R1.lead) /\ Sourcing!Within(y.lead, R2.lead)
          /\ Sourcing!Within(Sourcing!PreShipment(x), R1.pre)
          /\ Sourcing!Within(Sourcing!PreShipment(y), R2.pre)
      BY DEF Sourcing!Obeys
    <2>2. 1 \in Sourcing!Rounds /\ 2 \in Sourcing!Rounds
      BY DEF Sourcing!Rounds
    <2>3. /\ R2.lead[2] < R1.lead[1] /\ R2.pre[2] < R1.pre[1]
          /\ R2.lead[2] \in Nat /\ R1.lead[1] \in Nat
          /\ R2.pre[2] \in Nat /\ R1.pre[1] \in Nat
      BY <2>2, Tables, ConcessionTables DEF Inside
    <2>4. /\ x.lead \in Int /\ y.lead \in Int
          /\ Sourcing!PreShipment(x) \in Int /\ Sourcing!PreShipment(y) \in Int
      BY Types DEF Sourcing!WellTyped
    <2> HIDE DEF R1, R2
    <2> QED
      BY <2>1, <2>3, <2>4 DEF Sourcing!Within
  <1> QED
    BY <1>1, <1>2

------------------------------------------------------------------------------
(* Sourcing: the turns *)

\* A turn that was recorded holds nothing, or the one proposal it accepted.
Accepted(k, proposal) ==
    proposal # {} => \E x : /\ proposal = {x} /\ Sourcing!WellTyped(x)
                            /\ Sourcing!Obeys(k[1], k[2], x)

Refused(kept) ==
    \A x \in kept : /\ Sourcing!WellTyped(x)
                    /\ Sourcing!Refusal(Sourcing!Supplier, Sourcing!Round, x) # ""

\* What the second attempt is told to repair was refused.
TalkInv ==
    /\ DOMAIN talk = DOMAIN Sourcing!Silent
    /\ \A x \in talk.sent : /\ left # <<>> /\ Sourcing!WellTyped(x)
                            /\ Sourcing!Refusal(Sourcing!Supplier, Sourcing!Round, x) # ""

TurnsInv ==
    /\ left \in Seq(Sourcing!SupplierIds \X Sourcing!Rounds)
    /\ TalkInv
    /\ DOMAIN turns \subseteq Sourcing!SupplierIds \X Sourcing!Rounds
    /\ \A k \in DOMAIN turns : Accepted(k, turns[k])

LEMMA TurnsInit ==
    ASSUME Sourcing!Init
    PROVE  TurnsInv
  <1>1. left \in Seq(Sourcing!SupplierIds \X Sourcing!Rounds)
    BY DEF Sourcing!Init, Sourcing!TurnsInOrder, Sourcing!SupplierIds, Sourcing!Rounds
  <1>2. TalkInv
    BY DEF Sourcing!Init, Sourcing!Silent, TalkInv
  <1>3. DOMAIN turns = {}
    BY DEF Sourcing!Init
  <1> QED
    BY <1>1, <1>2, <1>3 DEF TurnsInv

\* The turn that runs.
LEMMA Turn ==
    ASSUME TurnsInv, left # <<>>
    PROVE  /\ Head(left) \in Sourcing!SupplierIds \X Sourcing!Rounds
           /\ Sourcing!Supplier \in Sourcing!SupplierIds /\ Sourcing!Round \in Sourcing!Rounds
           /\ Tail(left) \in Seq(Sourcing!SupplierIds \X Sourcing!Rounds)
  BY DEF TurnsInv, Sourcing!Supplier, Sourcing!Round

LEMMA TurnEnds ==
    ASSUME TurnsInv, left # <<>>, NEW proposal, Sourcing!EndTurn(proposal),
           Accepted(Head(left), proposal)
    PROVE  TurnsInv'
  <1> DEFINE k == Head(left)
             D == DOMAIN turns \cup {k}
  <1>1. turns' = [j \in D |-> IF j = k THEN proposal ELSE turns[j]]
    BY DEF Sourcing!EndTurn
  <1>2. D \subseteq Sourcing!SupplierIds \X Sourcing!Rounds
    BY Turn DEF TurnsInv
  <1> HIDE DEF k, D
  <1>3. DOMAIN turns' = D /\ \A j \in D : turns'[j] = IF j = k THEN proposal ELSE turns[j]
    BY <1>1
  <1>4. ASSUME NEW j \in D PROVE Accepted(j, turns'[j])
    <2>1. CASE j = k
      BY <1>3, <2>1 DEF k
    <2>2. CASE j # k
      BY <1>3, <2>2 DEF D, TurnsInv
    <2> QED
      BY <2>1, <2>2
  <1>5. TalkInv'
    BY DEF Sourcing!EndTurn, Sourcing!Silent, TalkInv
  <1>6. left' \in Seq(Sourcing!SupplierIds \X Sourcing!Rounds)
    BY Turn DEF Sourcing!EndTurn
  <1> QED
    BY <1>2, <1>3, <1>4, <1>5, <1>6 DEF TurnsInv

LEMMA AttemptFails ==
    ASSUME TurnsInv, left # <<>>, NEW kept, NEW reason, Sourcing!FailAttempt(kept, reason),
           Refused(kept)
    PROVE  TurnsInv'
  <1>1. CASE talk.attempt < Sourcing!MaxValidationAttempts
    <2>1. /\ talk' = [talk EXCEPT !.attempt = @ + 1, !.sent = kept,
                                  !.advice = Sourcing!Advice(reason)]
          /\ UNCHANGED <<left, turns>>
      BY <1>1 DEF Sourcing!FailAttempt
    <2>2. DOMAIN talk' = DOMAIN talk /\ talk'.sent = kept
      BY <2>1 DEF TurnsInv, TalkInv, Sourcing!Silent
    <2>3. TalkInv'
      BY <2>1, <2>2 DEF TurnsInv, TalkInv, Refused, Sourcing!Supplier, Sourcing!Round,
                        Sourcing!Silent
    <2> QED
      BY <2>1, <2>3 DEF TurnsInv
  <1>2. CASE ~(talk.attempt < Sourcing!MaxValidationAttempts)
    <2>1. Sourcing!EndTurn({})
      BY <1>2 DEF Sourcing!FailAttempt
    <2> QED
      BY <2>1, TurnEnds DEF Accepted
  <1> QED
    BY <1>1, <1>2

LEMMA TurnsNext ==
    ASSUME TurnsInv, [Sourcing!Next]_(Sourcing!vars)
    PROVE  TurnsInv'
  <1>1. ASSUME UNCHANGED <<left, talk, turns>>
        PROVE  TurnsInv'
    BY <1>1 DEF TurnsInv, TalkInv, Sourcing!Supplier, Sourcing!Round
  <1>2. CASE Sourcing!PreviewPolicy
    BY <1>1, <1>2 DEF Sourcing!PreviewPolicy
  <1>3. CASE Sourcing!PlanMove
    <2>1. /\ talk' = [Sourcing!Silent EXCEPT !.step = "propose", !.attempt = 1]
          /\ UNCHANGED <<left, turns>>
      BY <1>3 DEF Sourcing!PlanMove
    <2>2. DOMAIN talk' = DOMAIN Sourcing!Silent /\ talk'.sent = {}
      BY <2>1 DEF Sourcing!Silent
    <2>3. TalkInv'
      BY <2>2 DEF TalkInv, Sourcing!Silent
    <2> QED
      BY <2>1, <2>3 DEF TurnsInv
  <1>4. ASSUME Sourcing!Running("propose"),
               NEW x \in Answers(Sourcing!Supplier, Sourcing!Round), Sourcing!Propose(x)
        PROVE  TurnsInv'
    <2>1. left # <<>>
      BY <1>4 DEF Sourcing!Running
    <2>2. Sourcing!WellTyped(x)
      BY <2>1, Turn, SourcingAssumption
    <2>3. CASE Sourcing!Refusal(Sourcing!Supplier, Sourcing!Round, x) = ""
      <3>1. Sourcing!EndTurn({x})
        BY <1>4, <2>3 DEF Sourcing!Propose
      <3>2. Sourcing!Obeys(Sourcing!Supplier, Sourcing!Round, x)
        BY <2>1, <2>2, <2>3, Turn, AcceptedIffObedient
      <3>3. Accepted(Head(left), {x})
        BY <2>2, <3>2 DEF Accepted, Sourcing!Supplier, Sourcing!Round
      <3> QED
        BY <2>1, <3>1, <3>3, TurnEnds
    <2>4. CASE Sourcing!Refusal(Sourcing!Supplier, Sourcing!Round, x) # ""
      <3>1. Sourcing!FailAttempt({x}, Sourcing!Refusal(Sourcing!Supplier, Sourcing!Round, x))
        BY <1>4, <2>4 DEF Sourcing!Propose
      <3>2. Refused({x})
        BY <2>2, <2>4 DEF Refused
      <3> QED
        BY <2>1, <3>1, <3>2, AttemptFails
    <2> QED
      BY <2>3, <2>4
  <1>5. CASE Sourcing!Truncate \/ Sourcing!Refuse
    <2>1. left # <<>>
      BY <1>5 DEF Sourcing!Truncate, Sourcing!Refuse, Sourcing!Running
    <2>2. PICK reason : Sourcing!FailAttempt({}, reason)
      BY <1>5 DEF Sourcing!Truncate, Sourcing!Refuse
    <2>3. Refused({})
      BY DEF Refused
    <2> QED
      BY <2>1, <2>2, <2>3, AttemptFails
  <1>6. CASE Sourcing!GiveUp
    <2>1. left # <<>> /\ Sourcing!EndTurn({})
      BY <1>6 DEF Sourcing!GiveUp, Sourcing!Running
    <2> QED
      BY <2>1, TurnEnds DEF Accepted
  <1>7. CASE Sourcing!Decide
    BY <1>1, <1>7 DEF Sourcing!Decide
  <1>8. CASE UNCHANGED Sourcing!vars
    BY <1>1, <1>8 DEF Sourcing!vars
  <1> QED
    BY <1>2, <1>3, <1>4, <1>5, <1>6, <1>7, <1>8 DEF Sourcing!Next

LEMMA RefusedIsDisobedient ==
    ASSUME TurnsInv
    PROVE  Sourcing!ObedientProposalAccepted
  <1>1. ASSUME NEW x \in talk.sent
        PROVE  ~Sourcing!Obeys(Sourcing!Supplier, Sourcing!Round, x)
    <2>1. /\ left # <<>> /\ Sourcing!WellTyped(x)
          /\ Sourcing!Refusal(Sourcing!Supplier, Sourcing!Round, x) # ""
      BY DEF TurnsInv, TalkInv
    <2> QED
      BY <2>1, Turn, AcceptedIffObedient
  <1> QED
    BY <1>1 DEF Sourcing!ObedientProposalAccepted

\* The offer a turn ended with.
LEMMA OfferIs ==
    ASSUME TurnsInv, NEW k, Sourcing!Offered(k)
    PROVE  /\ k \in Sourcing!SupplierIds \X Sourcing!Rounds
           /\ Sourcing!WellTyped(Sourcing!Offer(k))
           /\ Sourcing!Obeys(k[1], k[2], Sourcing!Offer(k))
  <1>1. k \in DOMAIN turns /\ turns[k] # {}
    BY DEF Sourcing!Offered
  <1>2. PICK x : /\ turns[k] = {x} /\ Sourcing!WellTyped(x)
                 /\ Sourcing!Obeys(k[1], k[2], x)
    BY <1>1 DEF TurnsInv, Accepted
  <1>3. Sourcing!Offer(k) = x
    BY <1>2 DEF Sourcing!Offer
  <1> QED
    BY <1>1, <1>2, <1>3 DEF TurnsInv

LEMMA SecondOffersImprove ==
    ASSUME TurnsInv
    PROVE  Sourcing!ConcessionsImprove
  <1>1. SUFFICES ASSUME NEW s \in Sourcing!SupplierIds,
                        Sourcing!Offered(<<s, 1>>), Sourcing!Offered(<<s, 2>>)
                 PROVE  LET opening == Sourcing!Offer(<<s, 1>>)
                            concession == Sourcing!Offer(<<s, 2>>)
                        IN /\ Sourcing!TotalOf(concession) <= Sourcing!TotalOf(opening)
                           /\ concession.lead < opening.lead
                           /\ Sourcing!PreShipment(concession) < Sourcing!PreShipment(opening)
    BY DEF Sourcing!ConcessionsImprove
  <1> DEFINE x == Sourcing!Offer(<<s, 1>>)
             y == Sourcing!Offer(<<s, 2>>)
  <1>2. Sourcing!WellTyped(x) /\ Sourcing!Obeys(s, 1, x)
    BY <1>1, OfferIs
  <1>3. Sourcing!WellTyped(y) /\ Sourcing!Obeys(s, 2, y)
    BY <1>1, OfferIs
  <1> QED
    BY <1>2, <1>3, SecondImproves

LEMMA SourcingTurns ==
    Spec => [](service = "sourcing" => TurnsInv)
  <1> DEFINE TurnsHold == service = "sourcing" => TurnsInv
  <1>1. Init => TurnsHold
    BY TurnsInit DEF Init
  <1>2. TurnsHold /\ [Next]_vars => TurnsHold'
    <2>1. SUFFICES ASSUME TurnsHold, [Next]_vars, service' = "sourcing"
                   PROVE  TurnsInv'
      OBVIOUS
    <2>2. service = "sourcing" /\ [Sourcing!Next]_(Sourcing!vars)
      BY <2>1 DEF Next, vars, sourcing, Sourcing!vars
    <2> QED
      BY <2>1, <2>2, TurnsNext
  <1> QED
    BY <1>1, <1>2, PTL DEF Spec

(* No answer that keeps to everything the prompt requires of it is refused, *)
(* for every order, baseline price and answer (openai-negotiation-model.ts, *)
(* proposal-policy.ts).                                                     *)
THEOREM ObedientAccepted == Spec => []ObedientProposalAccepted
  <1>1. (service = "sourcing" => TurnsInv) => ObedientProposalAccepted
    BY RefusedIsDisobedient DEF ObedientProposalAccepted
  <1> QED
    BY <1>1, SourcingTurns, PTL

(* The second offer of a supplier costs no more in all, is sooner and asks  *)
(* for less before shipment, for every order and every rounding of a price  *)
(* (supplier-policy.ts, roundMinorByBasisPoints).                           *)
THEOREM SecondOfferImproves == Spec => []ConcessionsImprove
  <1>1. (service = "sourcing" => TurnsInv) => ConcessionsImprove
    BY SecondOffersImprove DEF ConcessionsImprove
  <1> QED
    BY <1>1, SourcingTurns, PTL

------------------------------------------------------------------------------
(* DecisionEngine *)

\* What a decision compares of an offer, and with what weights.
Comparable(c) ==
    c.total \in Int /\ c.quality \in Int /\ c.lead \in Int /\ c.pre \in Int

Weights(w) ==
    w.cost \in Nat /\ w.quality \in Nat /\ w.lead \in Nat /\ w.payment \in Nat

LEMMA ClampInt ==
    ASSUME NEW span \in Nat, NEW n \in Int
    PROVE  Sourcing!P!Clamp(n, span) \in Int
  BY DEF Sourcing!P!Clamp

(* Clamping keeps an order, if not a strict one.                           *)
LEMMA ClampMonotone ==
    ASSUME NEW span \in Nat, NEW n \in Int, NEW m \in Int, n <= m
    PROVE  Sourcing!P!Clamp(n, span) <= Sourcing!P!Clamp(m, span)
  BY DEF Sourcing!P!Clamp

LEMMA Weighted ==
    ASSUME NEW w \in Nat, NEW k \in Nat, NEW x \in Int, NEW y \in Int, x <= y
    PROVE  /\ w * (x * k) \in Int /\ w * (y * k) \in Int
           /\ w * (x * k) <= w * (y * k)
  <1>1. x * k \in Int /\ y * k \in Int /\ x * k <= y * k
    OBVIOUS
  <1> QED
    BY <1>1

LEMMA ScoreInt ==
    ASSUME NEW c, Comparable(c), NEW w, Weights(w), NEW b \in Nat
    PROVE  Sourcing!P!ScoreOf(c, w, b) \in Int
  <1> DEFINE v == Sourcing!P!NormalizedValues(c, b)
  <1>1. /\ 115 * b - 100 * c.total \in Int /\ 23 * b \in Nat
        /\ c.quality - 40 \in Int /\ 55 - c.lead \in Int /\ 100 - c.pre \in Int
    BY DEF Comparable
  <1>2. v.cost \in Int /\ v.quality \in Int /\ v.lead \in Int /\ v.payment \in Int
    BY <1>1, ClampInt DEF Sourcing!P!NormalizedValues
  <1> HIDE DEF v
  <1>3. 9890 * b \in Nat /\ 1610 * b \in Nat /\ 989 * b \in Nat
    OBVIOUS
  <1>4. /\ w.cost * (v.cost * 3010) \in Int
        /\ w.quality * (v.quality * (9890 * b)) \in Int
        /\ w.lead * (v.lead * (1610 * b)) \in Int
        /\ w.payment * (v.payment * (989 * b)) \in Int
    BY <1>2, <1>3, Weighted DEF Weights
  <1>5. Sourcing!P!Score(v, w, b) \in Int
    BY <1>4 DEF Sourcing!P!Score
  <1> QED
    BY <1>5 DEF Sourcing!P!ScoreOf, v

(* An offer that dominates another scores at least as much, whatever the   *)
(* weights.                                                                *)
LEMMA DominatorScores ==
    ASSUME NEW d, NEW c, Comparable(d), Comparable(c), Sourcing!P!Dominates(d, c),
           NEW w, Weights(w), NEW b \in Nat
    PROVE  /\ Sourcing!P!ScoreOf(c, w, b) \in Int /\ Sourcing!P!ScoreOf(d, w, b) \in Int
           /\ Sourcing!P!ScoreOf(c, w, b) <= Sourcing!P!ScoreOf(d, w, b)
  <1> DEFINE v == Sourcing!P!NormalizedValues(c, b)
             u == Sourcing!P!NormalizedValues(d, b)
  <1>1. /\ v.cost \in Int /\ u.cost \in Int /\ v.cost <= u.cost
        /\ v.quality \in Int /\ u.quality \in Int /\ v.quality <= u.quality
    <2>1. 115 * b - 100 * c.total <= 115 * b - 100 * d.total
      BY DEF Comparable, Sourcing!P!Dominates
    <2>2. c.quality - 40 <= d.quality - 40
      BY DEF Comparable, Sourcing!P!Dominates
    <2>3. /\ 23 * b \in Nat /\ 115 * b - 100 * c.total \in Int
          /\ 115 * b - 100 * d.total \in Int
          /\ c.quality - 40 \in Int /\ d.quality - 40 \in Int
      BY DEF Comparable
    <2> QED
      BY <2>1, <2>2, <2>3, ClampInt, ClampMonotone DEF Sourcing!P!NormalizedValues
  <1>2. /\ v.lead \in Int /\ u.lead \in Int /\ v.lead <= u.lead
        /\ v.payment \in Int /\ u.payment \in Int /\ v.payment <= u.payment
    <2>1. 55 - c.lead <= 55 - d.lead /\ 100 - c.pre <= 100 - d.pre
      BY DEF Comparable, Sourcing!P!Dominates
    <2>2. /\ 55 - c.lead \in Int /\ 55 - d.lead \in Int
          /\ 100 - c.pre \in Int /\ 100 - d.pre \in Int
      BY DEF Comparable
    <2> QED
      BY <2>1, <2>2, ClampInt, ClampMonotone DEF Sourcing!P!NormalizedValues
  <1> HIDE DEF v, u
  <1>3. 9890 * b \in Nat /\ 1610 * b \in Nat /\ 989 * b \in Nat
    OBVIOUS
  <1>4. /\ w.cost * (v.cost * 3010) \in Int /\ w.cost * (u.cost * 3010) \in Int
        /\ w.cost * (v.cost * 3010) <= w.cost * (u.cost * 3010)
    BY <1>1, Weighted DEF Weights
  <1>5. /\ w.quality * (v.quality * (9890 * b)) \in Int
        /\ w.quality * (u.quality * (9890 * b)) \in Int
        /\ w.quality * (v.quality * (9890 * b)) <= w.quality * (u.quality * (9890 * b))
    BY <1>1, <1>3, Weighted DEF Weights
  <1>6. /\ w.lead * (v.lead * (1610 * b)) \in Int
        /\ w.lead * (u.lead * (1610 * b)) \in Int
        /\ w.lead * (v.lead * (1610 * b)) <= w.lead * (u.lead * (1610 * b))
    BY <1>2, <1>3, Weighted DEF Weights
  <1>7. /\ w.payment * (v.payment * (989 * b)) \in Int
        /\ w.payment * (u.payment * (989 * b)) \in Int
        /\ w.payment * (v.payment * (989 * b)) <= w.payment * (u.payment * (989 * b))
    BY <1>2, <1>3, Weighted DEF Weights
  <1>8. /\ Sourcing!P!Score(v, w, b) \in Int /\ Sourcing!P!Score(u, w, b) \in Int
        /\ Sourcing!P!Score(v, w, b) <= Sourcing!P!Score(u, w, b)
    BY <1>4, <1>5, <1>6, <1>7 DEF Sourcing!P!Score
  <1> QED
    BY <1>8 DEF Sourcing!P!ScoreOf, v, u

(* No offer is recommended that another eligible offer beats in one respect *)
(* and matches in all others: scores alone would allow it, where both are  *)
(* clamped to one value, and so would the tie-break, which does not look at *)
(* the payment; the demand that one candidate is left does not.            *)
THEOREM WinnerUndominated ==
    ASSUME NEW E, \A c \in E : Comparable(c),
           NEW w, Weights(w), NEW b \in Nat
    PROVE  Sourcing!P!Winner(E, w, b) \subseteq Sourcing!P!Pareto(E)
  <1>1. SUFFICES ASSUME NEW c \in Sourcing!P!Winner(E, w, b), NEW d \in E,
                          Sourcing!P!Dominates(d, c)
                 PROVE  FALSE
    BY DEF Sourcing!P!Winner, Sourcing!P!Tied, Sourcing!P!Finest, Sourcing!P!Fastest,
           Sourcing!P!Cheapest, Sourcing!P!TopScored, Sourcing!P!Pareto
  <1>2. /\ c \in E /\ c \in Sourcing!P!TopScored(E, w, b)
        /\ c \in Sourcing!P!Cheapest(Sourcing!P!TopScored(E, w, b))
        /\ c \in Sourcing!P!Fastest(Sourcing!P!Cheapest(Sourcing!P!TopScored(E, w, b)))
        /\ c \in Sourcing!P!Tied(E, w, b)
    BY DEF Sourcing!P!Winner, Sourcing!P!Tied, Sourcing!P!Finest, Sourcing!P!Fastest,
           Sourcing!P!Cheapest, Sourcing!P!TopScored
  <1>3. Comparable(c) /\ Comparable(d)
    BY <1>2
  <1>4. d \in Sourcing!P!TopScored(E, w, b)
    <2>1. /\ Sourcing!P!ScoreOf(c, w, b) \in Int
          /\ Sourcing!P!ScoreOf(c, w, b) <= Sourcing!P!ScoreOf(d, w, b)
      BY <1>1, <1>3, DominatorScores
    <2>2. ASSUME NEW e \in E
          PROVE  Sourcing!P!ScoreOf(e, w, b) <= Sourcing!P!ScoreOf(d, w, b)
      <3>1. Sourcing!P!ScoreOf(e, w, b) <= Sourcing!P!ScoreOf(c, w, b)
        BY <1>2 DEF Sourcing!P!TopScored
      <3>2. Sourcing!P!ScoreOf(e, w, b) \in Int /\ Sourcing!P!ScoreOf(d, w, b) \in Int
        BY <1>3, <2>2, <1>1, ScoreInt
      <3> QED
        BY <2>1, <3>1, <3>2
    <2> QED
      BY <2>2 DEF Sourcing!P!TopScored
  <1>5. c.total = d.total
    BY <1>1, <1>2, <1>3, <1>4 DEF Sourcing!P!Cheapest, Sourcing!P!Dominates, Comparable
  <1>6. d \in Sourcing!P!Cheapest(Sourcing!P!TopScored(E, w, b))
    BY <1>2, <1>4, <1>5 DEF Sourcing!P!Cheapest
  <1>7. c.lead = d.lead
    BY <1>1, <1>2, <1>3, <1>6 DEF Sourcing!P!Fastest, Sourcing!P!Dominates, Comparable
  <1>8. d \in Sourcing!P!Fastest(Sourcing!P!Cheapest(Sourcing!P!TopScored(E, w, b)))
    BY <1>2, <1>6, <1>7 DEF Sourcing!P!Fastest
  <1>9. c.quality = d.quality
    BY <1>1, <1>2, <1>3, <1>8 DEF Sourcing!P!Tied, Sourcing!P!Finest,
                               Sourcing!P!Dominates, Comparable
  <1>10. d \in Sourcing!P!Tied(E, w, b)
    BY <1>2, <1>8, <1>9 DEF Sourcing!P!Tied, Sourcing!P!Finest
  <1>11. d = c
    BY <1>10 DEF Sourcing!P!Winner
  <1> QED
    BY <1>1, <1>3, <1>11 DEF Sourcing!P!Dominates, Comparable

------------------------------------------------------------------------------
(* The offers a decision compares *)

\* What the tables leave of a candidate of S1, and of one of S3.
LikeS1(c) == c.lead \in 42 .. 50 /\ c.pre \in 60 .. 66
LikeS3(c) == c.lead \in 12 .. 15 /\ c.pre \in 70 .. 100

\* At most one of each, and no other.
Slate(E) ==
    /\ \A c \in E : c.total \in Int /\ c.quality = 40 /\ (LikeS1(c) \/ LikeS3(c))
    /\ \A c, d \in E : (LikeS1(c) /\ LikeS1(d)) \/ (LikeS3(c) /\ LikeS3(d)) => c = d

\* What a candidate scores, as a sum that is linear in its normalized cost and
\* in the baseline's multiples of its lead time and payment.
Weighed(wc, wl, wy, c, l, y) == 3010 * (wc * c) + 1610 * (wl * l) + 989 * (wy * y)

Points(c, b, cost, lead, payment) ==
    /\ 0 <= cost /\ cost <= 23 * b
    /\ cost = Sourcing!P!Clamp(115 * b - 100 * c.total, 23 * b)
    /\ LikeS1(c) => /\ 5 * b <= lead /\ lead <= 13 * b
                    /\ 34 * b <= payment /\ payment <= 40 * b
    /\ LikeS3(c) => /\ 40 * b <= lead /\ lead <= 43 * b
                    /\ 0 <= payment /\ payment <= 30 * b
    /\ \A w : w.cost \in Nat /\ w.quality \in Nat /\ w.lead \in Nat /\ w.payment \in Nat
         => Sourcing!P!ScoreOf(c, w, b)
            = Weighed(w.cost, w.lead, w.payment, cost, lead, payment)

LEMMA HasPoints ==
    ASSUME NEW b \in Nat \ {0}, NEW c, c.total \in Int, c.quality = 40,
           LikeS1(c) \/ LikeS3(c)
    PROVE  \E cost \in Int, lead \in Int, payment \in Int : Points(c, b, cost, lead, payment)
  <1> DEFINE v == Sourcing!P!NormalizedValues(c, b)
             cost == v.cost
             L == v.lead
             Y == v.payment
  <1>1. v.quality = 0
    BY DEF Sourcing!P!NormalizedValues, Sourcing!P!Clamp
  <1>2. /\ cost \in Int /\ 0 <= cost /\ cost <= 23 * b
        /\ cost = Sourcing!P!Clamp(115 * b - 100 * c.total, 23 * b)
    <2> DEFINE n == 115 * b - 100 * c.total
               s == 23 * b
    <2>1. n \in Int /\ s \in Nat
      OBVIOUS
    <2> HIDE DEF n, s
    <2>2. LET k == Sourcing!P!Clamp(n, s) IN k \in Int /\ 0 <= k /\ k <= s
      BY <2>1 DEF Sourcing!P!Clamp
    <2> QED
      BY <2>2 DEF Sourcing!P!NormalizedValues, n, s
  <1>3. /\ L \in Int /\ Y \in Int
        /\ LikeS1(c) => 5 <= L /\ L <= 13 /\ 34 <= Y /\ Y <= 40
        /\ LikeS3(c) => 40 <= L /\ L <= 43 /\ 0 <= Y /\ Y <= 30
    BY DEF Sourcing!P!NormalizedValues, Sourcing!P!Clamp, LikeS1, LikeS3
  <1> DEFINE lead == L * b
             payment == Y * b
  <1>4. /\ lead \in Int /\ payment \in Int
        /\ LikeS1(c) => /\ 5 * b <= lead /\ lead <= 13 * b
                        /\ 34 * b <= payment /\ payment <= 40 * b
        /\ LikeS3(c) => /\ 40 * b <= lead /\ lead <= 43 * b
                        /\ 0 <= payment /\ payment <= 30 * b
    <2> HIDE DEF L, Y
    <2>1. ASSUME NEW x \in Int, NEW m \in Int, NEW k \in Int, m <= x, x <= k
          PROVE  m * b <= x * b /\ x * b <= k * b
      BY <2>1
    <2> QED
      BY <1>3, <2>1
  <1>5. ASSUME NEW w, w.cost \in Nat, w.quality \in Nat, w.lead \in Nat, w.payment \in Nat
        PROVE  Sourcing!P!ScoreOf(c, w, b)
               = Weighed(w.cost, w.lead, w.payment, cost, lead, payment)
    <2>1. Sourcing!P!ScoreOf(c, w, b)
          = w.cost * (v.cost * 3010) + w.quality * (v.quality * (9890 * b))
            + w.lead * (v.lead * (1610 * b)) + w.payment * (v.payment * (989 * b))
      BY DEF Sourcing!P!ScoreOf, Sourcing!P!Score
    <2> HIDE DEF v
    <2>2. w.cost * (v.cost * 3010) = 3010 * (w.cost * cost)
      BY <1>2, <1>5
    <2>3. w.quality * (v.quality * (9890 * b)) = 0
      BY <1>1, <1>5
    <2>4. w.lead * (v.lead * (1610 * b)) = 1610 * (w.lead * lead)
      BY <1>3, <1>5
    <2>5. w.payment * (v.payment * (989 * b)) = 989 * (w.payment * payment)
      BY <1>3, <1>5
    <2>6. /\ 3010 * (w.cost * cost) \in Int /\ 1610 * (w.lead * lead) \in Int
          /\ 989 * (w.payment * payment) \in Int
      BY <1>2, <1>4, <1>5
    <2> QED
      BY <2>1, <2>2, <2>3, <2>4, <2>5, <2>6 DEF Weighed
  <1> HIDE DEF cost, lead, payment
  <1>6. Points(c, b, cost, lead, payment)
    <2>1. \A w : w.cost \in Nat /\ w.quality \in Nat /\ w.lead \in Nat /\ w.payment \in Nat
            => Sourcing!P!ScoreOf(c, w, b)
               = Weighed(w.cost, w.lead, w.payment, cost, lead, payment)
      BY <1>5, Zenon
    <2>2. /\ 0 <= cost /\ cost <= 23 * b
          /\ cost = Sourcing!P!Clamp(115 * b - 100 * c.total, 23 * b)
      BY <1>2, Zenon
    <2> QED
      BY <1>4, <2>1, <2>2, Zenon DEF Points
  <1> QED
    BY <1>2, <1>4, <1>6

\* Of an offer of S1 and one of S3, with the weights that a priority gives: the
\* lead times are too far apart, and the payments too close, for a priority to
\* have another effect than its own.
Apart(b, c1, l1, y1, c3, l3, y3) ==
    /\ 0 <= c1 /\ c1 <= 23 * b /\ 5 * b <= l1 /\ l1 <= 13 * b /\ 34 * b <= y1 /\ y1 <= 40 * b
    /\ 0 <= c3 /\ c3 <= 23 * b /\ 40 * b <= l3 /\ l3 <= 43 * b /\ 0 <= y3 /\ y3 <= 30 * b

LEMMA CostPulls ==
    ASSUME NEW b \in Nat \ {0},
           NEW c1 \in Int, NEW l1 \in Int, NEW y1 \in Int,
           NEW c3 \in Int, NEW l3 \in Int, NEW y3 \in Int,
           Apart(b, c1, l1, y1, c3, l3, y3)
    PROVE  /\ /\ Weighed(9, 4, 2, c3, l3, y3) <= Weighed(9, 4, 2, c1, l1, y1)
              /\ Weighed(11, 2, 2, c1, l1, y1) <= Weighed(11, 2, 2, c3, l3, y3)
              => c1 < c3
           /\ /\ Weighed(9, 4, 2, c1, l1, y1) <= Weighed(9, 4, 2, c3, l3, y3)
              /\ Weighed(11, 2, 2, c3, l3, y3) <= Weighed(11, 2, 2, c1, l1, y1)
              => c3 < c1
  BY DEF Apart, Weighed

LEMMA LeadPulls ==
    ASSUME NEW b \in Nat \ {0},
           NEW c1 \in Int, NEW l1 \in Int, NEW y1 \in Int,
           NEW c3 \in Int, NEW l3 \in Int, NEW y3 \in Int,
           Apart(b, c1, l1, y1, c3, l3, y3)
    PROVE  ~(/\ Weighed(9, 4, 2, c1, l1, y1) <= Weighed(9, 4, 2, c3, l3, y3)
             /\ Weighed(6, 7, 2, c3, l3, y3) <= Weighed(6, 7, 2, c1, l1, y1))
  BY DEF Apart, Weighed

LEMMA PaymentPulls ==
    ASSUME NEW b \in Nat \ {0},
           NEW c1 \in Int, NEW l1 \in Int, NEW y1 \in Int,
           NEW c3 \in Int, NEW l3 \in Int, NEW y3 \in Int,
           Apart(b, c1, l1, y1, c3, l3, y3)
    PROVE  ~(/\ Weighed(9, 4, 2, c3, l3, y3) <= Weighed(9, 4, 2, c1, l1, y1)
             /\ Weighed(7, 3, 5, c1, l1, y1) <= Weighed(7, 3, 5, c3, l3, y3))
  BY DEF Apart, Weighed

\* What winning says of two candidates.
LEMMA WinnersCompare ==
    ASSUME NEW E, NEW b, NEW w, NEW v, NEW c \in Sourcing!P!Winner(E, w, b),
           NEW d \in Sourcing!P!Winner(E, v, b)
    PROVE  /\ c \in E /\ d \in E
           /\ Sourcing!P!ScoreOf(d, w, b) <= Sourcing!P!ScoreOf(c, w, b)
           /\ Sourcing!P!ScoreOf(c, v, b) <= Sourcing!P!ScoreOf(d, v, b)
           /\ w = v => c = d
  BY DEF Sourcing!P!Winner, Sourcing!P!Tied, Sourcing!P!Finest, Sourcing!P!Fastest,
         Sourcing!P!Cheapest, Sourcing!P!TopScored

\* What the buyer put first, of the served candidate against the standard one.
NoWorse(priority, served, standard) ==
    CASE priority = "cost"          -> served.total <= standard.total
      [] priority = "lead_time"     -> served.lead <= standard.lead
      [] priority = "quality"       -> served.quality >= standard.quality
      [] priority = "payment_terms" -> served.pre <= standard.pre
      [] OTHER                      -> served = standard

LEMMA WeightsAre ==
    LET W(priority) == Sourcing!P!WeightsFor(priority) IN
    /\ LET w == Sourcing!P!BaseWeights IN w.cost = 9 /\ w.quality = 5 /\ w.lead = 4 /\ w.payment = 2
    /\ LET w == W("cost") IN w.cost = 11 /\ w.quality = 5 /\ w.lead = 2 /\ w.payment = 2
    /\ LET w == W("lead_time") IN w.cost = 6 /\ w.quality = 5 /\ w.lead = 7 /\ w.payment = 2
    /\ LET w == W("payment_terms") IN w.cost = 7 /\ w.quality = 5 /\ w.lead = 3 /\ w.payment = 5
  BY DEF Sourcing!P!WeightsFor, Sourcing!P!BaseWeights

\* The normalized cost grows as the total falls.
LEMMA CheaperScores ==
    ASSUME NEW b \in Nat, NEW t \in Int, NEW u \in Int,
           Sourcing!P!Clamp(115 * b - 100 * t, 23 * b) < Sourcing!P!Clamp(115 * b - 100 * u, 23 * b)
    PROVE  u <= t
  BY DEF Sourcing!P!Clamp

LEMMA ServesWhatIsFirst ==
    ASSUME NEW b \in Nat \ {0}, NEW E, Slate(E), NEW priority,
           NEW standard \in Sourcing!P!Winner(E, Sourcing!P!BaseWeights, b),
           NEW served \in Sourcing!P!Winner(E, Sourcing!P!WeightsFor(priority), b)
    PROVE  NoWorse(priority, served, standard)
  <1> DEFINE base == Sourcing!P!BaseWeights
             w == Sourcing!P!WeightsFor(priority)
  <1>1. /\ standard \in E /\ served \in E
        /\ Sourcing!P!ScoreOf(served, base, b) <= Sourcing!P!ScoreOf(standard, base, b)
        /\ Sourcing!P!ScoreOf(standard, w, b) <= Sourcing!P!ScoreOf(served, w, b)
        /\ base = w => standard = served
    BY WinnersCompare
  <1>2. /\ standard.total \in Int /\ standard.quality = 40
        /\ (LikeS1(standard) \/ LikeS3(standard))
        /\ served.total \in Int /\ served.quality = 40
        /\ (LikeS1(served) \/ LikeS3(served))
    BY <1>1 DEF Slate
  <1>3. PICK c \in Int, l \in Int, y \in Int : Points(standard, b, c, l, y)
    BY <1>2, HasPoints
  <1>4. PICK d \in Int, m \in Int, z \in Int : Points(served, b, d, m, z)
    BY <1>2, HasPoints
  <1>5. ASSUME NEW v, v.cost \in Nat, v.quality \in Nat, v.lead \in Nat, v.payment \in Nat
        PROVE  /\ Sourcing!P!ScoreOf(standard, v, b) = Weighed(v.cost, v.lead, v.payment, c, l, y)
               /\ Sourcing!P!ScoreOf(served, v, b) = Weighed(v.cost, v.lead, v.payment, d, m, z)
    BY <1>3, <1>4, <1>5 DEF Points
  <1>6. Weighed(9, 4, 2, d, m, z) <= Weighed(9, 4, 2, c, l, y)
    <2>1. base.cost = 9 /\ base.quality = 5 /\ base.lead = 4 /\ base.payment = 2
      BY WeightsAre
    <2> HIDE DEF base
    <2>2. /\ Sourcing!P!ScoreOf(standard, base, b) = Weighed(9, 4, 2, c, l, y)
          /\ Sourcing!P!ScoreOf(served, base, b) = Weighed(9, 4, 2, d, m, z)
      BY <1>5, <2>1
    <2> QED
      BY <1>1, <2>2
  <1>7. ASSUME NEW i \in Nat, NEW j \in Nat, NEW k \in Nat, NEW q \in Nat,
               w.cost = i, w.quality = q, w.lead = j, w.payment = k
        PROVE  Weighed(i, j, k, c, l, y) <= Weighed(i, j, k, d, m, z)
    <2> HIDE DEF w
    <2>1. /\ Sourcing!P!ScoreOf(standard, w, b) = Weighed(i, j, k, c, l, y)
          /\ Sourcing!P!ScoreOf(served, w, b) = Weighed(i, j, k, d, m, z)
      BY <1>5, <1>7
    <2> QED
      BY <1>1, <2>1
  <1>8. LikeS1(standard) /\ LikeS3(served) => Apart(b, c, l, y, d, m, z)
    BY <1>3, <1>4 DEF Points, Apart
  <1>9. LikeS3(standard) /\ LikeS1(served) => Apart(b, d, m, z, c, l, y)
    BY <1>3, <1>4 DEF Points, Apart
  <1>10. CASE standard = served
    BY <1>2, <1>10 DEF NoWorse, LikeS1, LikeS3
  <1>11. ASSUME standard # served
         PROVE  \/ (LikeS1(standard) /\ LikeS3(served))
                \/ (LikeS3(standard) /\ LikeS1(served))
    <2>1. (LikeS1(standard) /\ LikeS1(served)) \/ (LikeS3(standard) /\ LikeS3(served))
          => standard = served
      BY <1>1, Zenon DEF Slate
    <2> QED
      BY <1>2, <1>11, <2>1, Zenon
  <1>12. ASSUME priority = "cost", standard # served
         PROVE  served.total <= standard.total
    <2>1. Weighed(11, 2, 2, c, l, y) <= Weighed(11, 2, 2, d, m, z)
      BY <1>7, <1>12, WeightsAre
    <2>2. c < d
      BY <1>6, <1>8, <1>9, <1>11, <1>12, <2>1, CostPulls
    <2>3. /\ c = Sourcing!P!Clamp(115 * b - 100 * standard.total, 23 * b)
          /\ d = Sourcing!P!Clamp(115 * b - 100 * served.total, 23 * b)
      BY <1>3, <1>4 DEF Points
    <2> QED
      BY <1>2, <2>2, <2>3, CheaperScores
  <1>13. ASSUME priority = "lead_time", standard # served
         PROVE  served.lead <= standard.lead
    <2>1. Weighed(6, 7, 2, c, l, y) <= Weighed(6, 7, 2, d, m, z)
      BY <1>7, <1>13, WeightsAre
    <2>2. ~(LikeS3(standard) /\ LikeS1(served))
      BY <1>6, <1>9, <2>1, LeadPulls
    <2> QED
      BY <1>11, <1>13, <2>2 DEF LikeS1, LikeS3
  <1>14. ASSUME priority = "payment_terms", standard # served
         PROVE  served.pre <= standard.pre
    <2>1. Weighed(7, 3, 5, c, l, y) <= Weighed(7, 3, 5, d, m, z)
      BY <1>7, <1>14, WeightsAre
    <2>2. ~(LikeS1(standard) /\ LikeS3(served))
      BY <1>6, <1>8, <2>1, PaymentPulls
    <2> QED
      BY <1>11, <1>14, <2>2 DEF LikeS1, LikeS3
  <1>15. priority \notin {"cost", "lead_time", "quality", "payment_terms"}
         => standard = served
    BY <1>1 DEF Sourcing!P!WeightsFor
  <1>16. served.quality >= standard.quality
    BY <1>2
  <1> QED
    BY <1>10, <1>12, <1>13, <1>14, <1>15, <1>16 DEF NoWorse

------------------------------------------------------------------------------
(* Sourcing: the decision *)

LEMMA BaselineInt == Sourcing!BaselineTotal \in Int
  <1> DEFINE n == Cardinality(Products)
             in == CHOOSE s \in [1 .. n -> Products] : {s[i] : i \in DOMAIN s} = Products
             x == [lines |-> [i \in DOMAIN in |-> [quantity |-> Quantity[in[i]],
                                                   price |-> Baseline[in[i]]]]]
             a == [i \in 1 .. Len(x.lines) |-> x.lines[i].quantity * x.lines[i].price]
  <1>1. /\ n \in Nat
        /\ \E s \in [1 .. n -> Products] : {s[i] : i \in DOMAIN s} = Products
    <2>1. n \in Nat /\ ExistsBijection(1 .. n, Products)
      BY SourcingAssumption, FS_CardinalityType
    <2>2. PICK s \in Bijection(1 .. n, Products) : TRUE
      BY <2>1 DEF ExistsBijection
    <2>3. s \in [1 .. n -> Products] /\ \A p \in Products : \E i \in 1 .. n : s[i] = p
      BY <2>2 DEF Bijection, Surjection
    <2> HIDE DEF n
    <2>4. {s[i] : i \in DOMAIN s} = Products
      BY <2>3
    <2> QED
      BY <2>1, <2>3, <2>4
  <1>2. in \in [1 .. n -> Products]
    BY <1>1
  <1>3. Sourcing!BaselineTotal = Sourcing!TotalOf(x)
    BY Counts DEF Sourcing!BaselineTotal
  <1> HIDE DEF in, n
  <1>4. /\ Len(x.lines) = n
        /\ \A i \in 1 .. n : x.lines[i].quantity * x.lines[i].price \in Int
    <2>1. x.lines = [i \in 1 .. n |-> [quantity |-> Quantity[in[i]], price |-> Baseline[in[i]]]]
      BY <1>2
    <2>2. \A i \in 1 .. n : Quantity[in[i]] \in Int /\ Baseline[in[i]] \in Int
      BY <1>2, SourcingAssumption DEF Sourcing!IsIntent
    <2>3. x.lines \in [1 .. n -> [quantity : Int, price : Int]]
      BY <2>1, <2>2
    <2> DEFINE L == x.lines
               Line == [quantity : Int, price : Int]
    <2> HIDE DEF x, L, Line
    <2>4. L \in Seq(Line)
      <3>1. L \in [1 .. n -> Line]
        BY <2>3 DEF L, Line
      <3> QED
        BY <1>1, <3>1, SeqDef
    <2> USE DEF L, Line
    <2>5. Len(x.lines) \in Nat /\ DOMAIN x.lines = 1 .. Len(x.lines) /\ DOMAIN x.lines = 1 .. n
      BY <2>3, <2>4, LenProperties
    <2>6. Len(x.lines) = n
      BY <1>1, <2>5
    <2>7. \A i \in 1 .. n : x.lines[i].quantity \in Int /\ x.lines[i].price \in Int
      BY <2>3
    <2> QED
      BY <2>6, <2>7
  <1> HIDE DEF x
  <1>5. PICK f : Partial(f, Len(x.lines), a) /\ Sourcing!TotalOf(x) = f[Len(x.lines)]
    BY <1>1, <1>4, TotalIsSum
  <1>6. a \in [1 .. Len(x.lines) -> Int]
    BY <1>4
  <1> HIDE DEF a
  <1>7. f \in [0 .. Len(x.lines) -> Int]
    BY <1>1, <1>4, <1>5, <1>6, PartialType
  <1> QED
    BY <1>1, <1>3, <1>4, <1>5, <1>7

\* What a supplier may offer in lead time and payment in either round.
LEMMA OfferTerms ==
    ASSUME NEW s \in {"S1", "S3"}, NEW r \in Sourcing!Rounds, NEW x, Sourcing!WellTyped(x),
           Sourcing!Obeys(s, r, x)
    PROVE  /\ s = "S1" => x.lead \in 42 .. 50 /\ Sourcing!PreShipment(x) \in 60 .. 66
           /\ s = "S3" => x.lead \in 12 .. 15 /\ Sourcing!PreShipment(x) \in 70 .. 100
  <1>1. /\ Sourcing!Within(x.lead, Sourcing!RoundPolicy[s][r].lead)
        /\ Sourcing!Within(Sourcing!PreShipment(x), Sourcing!RoundPolicy[s][r].pre)
    BY DEF Sourcing!Obeys
  <1>2. x.lead \in Int /\ Sourcing!PreShipment(x) \in Int
    BY Types DEF Sourcing!WellTyped
  <1>3. r = 1 \/ r = 2
    BY DEF Sourcing!Rounds
  <1>4. CASE s = "S1"
    BY <1>1, <1>2, <1>3, <1>4 DEF Sourcing!RoundPolicy, Sourcing!Bounds, Sourcing!Within
  <1>5. CASE s = "S3"
    BY <1>1, <1>2, <1>3, <1>5 DEF Sourcing!RoundPolicy, Sourcing!Bounds, Sourcing!Within
  <1> QED
    BY <1>4, <1>5

\* Only S1 and S3 can be eligible, each with its latest offer.
LEMMA EligibleSlate ==
    ASSUME TurnsInv, NEW limit
    PROVE  Slate({c \in {Sourcing!CandidateFrom(k) : k \in Sourcing!Latest} :
                     Sourcing!P!ExclusionReasons(c, limit) = {}})
  <1> DEFINE E == {c \in {Sourcing!CandidateFrom(k) : k \in Sourcing!Latest} :
                      Sourcing!P!ExclusionReasons(c, limit) = {}}
  <1>1. ASSUME NEW k \in Sourcing!Latest,
               Sourcing!P!ExclusionReasons(Sourcing!CandidateFrom(k), limit) = {}
        PROVE  LET c == Sourcing!CandidateFrom(k) IN
               /\ c.total \in Int /\ c.quality = 40
               /\ \/ (k[1] = "S1" /\ LikeS1(c) /\ ~LikeS3(c))
                  \/ (k[1] = "S3" /\ LikeS3(c) /\ ~LikeS1(c))
    <2> DEFINE x == Sourcing!Offer(k)
               c == Sourcing!CandidateFrom(k)
    <2>1. Sourcing!Offered(k) /\ k[1] \in Sourcing!SupplierIds /\ k[2] \in Sourcing!Rounds
      BY DEF Sourcing!Latest
    <2>2. Sourcing!WellTyped(x) /\ Sourcing!Obeys(k[1], k[2], x)
      BY <2>1, OfferIs
    <2> HIDE DEF x
    <2>3. /\ c.total = Sourcing!TotalOf(x) /\ c.quality = Sourcing!Quality(k[1])
          /\ c.lead = x.lead /\ c.pre = Sourcing!PreShipment(x)
          /\ c.policyValid = (Sourcing!FullOrderEligible(k) /\ x.capacity = 100)
      BY DEF Sourcing!CandidateFrom, Sourcing!P!CandidateOf, x
    <2>4. Sourcing!FullOrderEligible(k)
      BY <1>1, <2>3 DEF Sourcing!P!ExclusionReasons
    <2>5. k[1] = "S1" \/ k[1] = "S3"
      BY <2>1, <2>4 DEF Sourcing!FullOrderEligible, Sourcing!SupplierIds
    <2>6. c.quality = 40
      BY <2>3, <2>5 DEF Sourcing!Quality
    <2>7. c.total \in Int
      BY <2>2, <2>3, TotalInt
    <2>8. /\ k[1] = "S1" => x.lead \in 42 .. 50 /\ Sourcing!PreShipment(x) \in 60 .. 66
          /\ k[1] = "S3" => x.lead \in 12 .. 15 /\ Sourcing!PreShipment(x) \in 70 .. 100
      BY <2>1, <2>2, <2>5, OfferTerms
    <2> HIDE DEF c
    <2>9. /\ k[1] = "S1" => LikeS1(c) /\ ~LikeS3(c)
          /\ k[1] = "S3" => LikeS3(c) /\ ~LikeS1(c)
      BY <2>3, <2>8 DEF LikeS1, LikeS3
    <2> QED
      BY <2>5, <2>6, <2>7, <2>9 DEF c
  <1>2. ASSUME NEW k \in Sourcing!Latest, NEW l \in Sourcing!Latest, k[1] = l[1]
        PROVE  k = l
    <2>1. /\ k \in Sourcing!SupplierIds \X {1, 2} /\ l \in Sourcing!SupplierIds \X {1, 2}
          /\ Sourcing!Offered(k) /\ Sourcing!Offered(l)
          /\ k[2] = 1 => ~Sourcing!Offered(<<k[1], 2>>)
          /\ l[2] = 1 => ~Sourcing!Offered(<<l[1], 2>>)
      BY DEF Sourcing!Latest, Sourcing!Rounds
    <2>2. k = <<k[1], k[2]>> /\ l = <<l[1], l[2]>> /\ k[2] \in {1, 2} /\ l[2] \in {1, 2}
      BY <2>1
    <2>3. k[2] = l[2]
      BY <1>2, <2>1, <2>2
    <2> QED
      BY <1>2, <2>2, <2>3
  <1>3. ASSUME NEW c \in E
        PROVE  c.total \in Int /\ c.quality = 40 /\ (LikeS1(c) \/ LikeS3(c))
    BY <1>1
  <1>4. ASSUME NEW c \in E, NEW d \in E,
               (LikeS1(c) /\ LikeS1(d)) \/ (LikeS3(c) /\ LikeS3(d))
        PROVE  c = d
    <2>1. PICK k \in Sourcing!Latest : c = Sourcing!CandidateFrom(k)
      OBVIOUS
    <2>2. PICK l \in Sourcing!Latest : d = Sourcing!CandidateFrom(l)
      OBVIOUS
    <2>3. /\ (k[1] = "S1" /\ ~LikeS3(c)) \/ (k[1] = "S3" /\ ~LikeS1(c))
          /\ (l[1] = "S1" /\ ~LikeS3(d)) \/ (l[1] = "S3" /\ ~LikeS1(d))
      BY <1>1, <2>1, <2>2
    <2>4. k[1] = l[1]
      BY <1>4, <2>3
    <2> QED
      BY <1>2, <2>1, <2>2, <2>4
  <1> HIDE DEF E
  <1>5. Slate(E)
    BY <1>3, <1>4 DEF Slate
  <1> QED
    BY <1>5 DEF E

\* A policy is derived from its priority; a decision is one of a slate, by it.
PolicyInv == policy # {} => \E p : /\ policy = {p}
                                   /\ p.weights = Sourcing!P!WeightsFor(p.priority)

DecisionInv ==
    /\ PolicyInv
    /\ \A d \in decision :
          /\ policy # {} /\ Sourcing!BaselineTotal \in Nat \ {0} /\ Slate(d.eligible)
          /\ d.pareto = Sourcing!P!Pareto(d.eligible)
          /\ d.winner = Sourcing!P!Winner(d.eligible, Sourcing!ThePolicy.weights,
                                          Sourcing!BaselineTotal)

LEMMA PolicyIs ==
    ASSUME PolicyInv, policy # {}
    PROVE  Sourcing!ThePolicy.weights = Sourcing!P!WeightsFor(Sourcing!ThePolicy.priority)
  BY DEF PolicyInv, Sourcing!ThePolicy

LEMMA DecisionNext ==
    ASSUME TurnsInv, DecisionInv, [Sourcing!Next]_(Sourcing!vars)
    PROVE  DecisionInv'
  <1>1. ASSUME UNCHANGED <<policy, decision>>
        PROVE  DecisionInv'
    BY <1>1 DEF DecisionInv, PolicyInv, Sourcing!ThePolicy
  <1>2. CASE Sourcing!PreviewPolicy
    <2>1. policy = {} /\ decision' = decision
      BY <1>2 DEF Sourcing!PreviewPolicy
    <2>2. decision = {}
      BY <2>1 DEF DecisionInv
    <2>3. PolicyInv'
      <3>1. \/ UNCHANGED policy
            \/ \E i : policy' = {Sourcing!P!NegotiationPolicy(i)}
        BY <1>2 DEF Sourcing!PreviewPolicy
      <3>2. \A i : Sourcing!P!NegotiationPolicy(i).weights
                   = Sourcing!P!WeightsFor(Sourcing!P!NegotiationPolicy(i).priority)
        BY DEF Sourcing!P!NegotiationPolicy
      <3> QED
        BY <2>1, <3>1, <3>2 DEF PolicyInv
    <2> QED
      BY <2>1, <2>2, <2>3 DEF DecisionInv
  <1>3. CASE Sourcing!Decide
    <2> DEFINE E == {c \in {Sourcing!CandidateFrom(k) : k \in Sourcing!Latest} :
                        Sourcing!P!ExclusionReasons(c, Sourcing!ThePolicy.hardMaxLead) = {}}
               d == Sourcing!P!Decide({Sourcing!CandidateFrom(k) : k \in Sourcing!Latest},
                                      Sourcing!BaselineTotal, Sourcing!ThePolicy.weights,
                                      Sourcing!ThePolicy.hardMaxLead)
    <2>1. /\ policy # {} /\ policy' = policy /\ decision' = {d}
          /\ Sourcing!P!InputValid(Sourcing!BaselineTotal, Sourcing!ThePolicy.hardMaxLead)
      BY <1>3 DEF Sourcing!Decide
    <2>2. /\ d.eligible = E /\ d.pareto = Sourcing!P!Pareto(E)
          /\ d.winner = Sourcing!P!Winner(E, Sourcing!ThePolicy.weights, Sourcing!BaselineTotal)
      BY DEF Sourcing!P!Decide
    <2>3. Slate(E)
      BY EligibleSlate
    <2>4. Sourcing!BaselineTotal \in Nat \ {0}
      BY <2>1, BaselineInt DEF Sourcing!P!InputValid
    <2> HIDE DEF E, d
    <2>5. Sourcing!ThePolicy' = Sourcing!ThePolicy
      BY <2>1 DEF Sourcing!ThePolicy
    <2> QED
      BY <2>1, <2>2, <2>3, <2>4, <2>5 DEF DecisionInv, PolicyInv
  <1>4. ASSUME Sourcing!PlanMove \/ Sourcing!Truncate \/ Sourcing!Refuse \/ Sourcing!GiveUp
               \/ \E x : Sourcing!Propose(x)
        PROVE  UNCHANGED <<policy, decision>>
    BY <1>4 DEF Sourcing!PlanMove, Sourcing!Truncate, Sourcing!Refuse, Sourcing!GiveUp,
                Sourcing!Propose, Sourcing!FailAttempt, Sourcing!EndTurn
  <1>5. CASE UNCHANGED Sourcing!vars
    BY <1>1, <1>5 DEF Sourcing!vars
  <1> QED
    BY <1>1, <1>2, <1>3, <1>4, <1>5 DEF Sourcing!Next

LEMMA DecisionServes ==
    ASSUME DecisionInv
    PROVE  Sourcing!PriorityServed
  <1>1. ASSUME NEW d \in decision,
               NEW standard \in Sourcing!P!Winner(d.eligible, Sourcing!P!BaseWeights,
                                                  Sourcing!BaselineTotal),
               NEW served \in d.winner
        PROVE  NoWorse(Sourcing!ThePolicy.priority, served, standard)
    <2>1. /\ Sourcing!BaselineTotal \in Nat \ {0} /\ Slate(d.eligible)
          /\ served \in Sourcing!P!Winner(d.eligible,
                            Sourcing!P!WeightsFor(Sourcing!ThePolicy.priority),
                            Sourcing!BaselineTotal)
      BY PolicyIs DEF DecisionInv
    <2> QED
      BY <2>1, ServesWhatIsFirst
  <1> QED
    BY <1>1 DEF Sourcing!PriorityServed, NoWorse

LEMMA SourcingDecisions ==
    Spec => [](service = "sourcing" => DecisionInv)
  <1> DEFINE TurnsHold == service = "sourcing" => TurnsInv
             DecisionsHold == service = "sourcing" => DecisionInv
  <1>1. Init => DecisionsHold
    BY DEF Init, Sourcing!Init, DecisionInv, PolicyInv
  <1>2. TurnsHold /\ DecisionsHold /\ [Next]_vars => DecisionsHold'
    <2>1. SUFFICES ASSUME TurnsHold, DecisionsHold, [Next]_vars, service' = "sourcing"
                   PROVE  DecisionInv'
      OBVIOUS
    <2>2. service = "sourcing" /\ [Sourcing!Next]_(Sourcing!vars)
      BY <2>1 DEF Next, vars, sourcing, Sourcing!vars
    <2> QED
      BY <2>1, <2>2, DecisionNext
  <1> QED
    BY <1>1, <1>2, SourcingTurns, PTL DEF Spec

(* A priority the buyer confirmed never costs the buyer on that very        *)
(* criterion, for every order, every baseline price and everything the      *)
(* suppliers may answer: the tables keep lead times so far apart and        *)
(* payments so close that no other criterion takes over (policy.ts,         *)
(* supplier-policy.ts, scoring.ts).                                         *)
THEOREM PriorityAlwaysServed == Spec => []PriorityServed
  <1>1. (service = "sourcing" => DecisionInv) => PriorityServed
    BY DecisionServes DEF PriorityServed
  <1> QED
    BY <1>1, SourcingDecisions, PTL

LEMMA DecisionUndominated ==
    ASSUME DecisionInv, NEW d \in decision
    PROVE  d.winner \subseteq d.pareto
  <1> DEFINE w == Sourcing!P!WeightsFor(Sourcing!ThePolicy.priority)
             b == Sourcing!BaselineTotal
  <1>1. /\ b \in Nat /\ Slate(d.eligible) /\ d.pareto = Sourcing!P!Pareto(d.eligible)
        /\ d.winner = Sourcing!P!Winner(d.eligible, w, b)
    BY PolicyIs DEF DecisionInv
  <1>2. Weights(w)
    BY DEF Weights, Sourcing!P!WeightsFor, Sourcing!P!BaseWeights
  <1> HIDE DEF w, b
  <1>3. \A c \in d.eligible : Comparable(c)
    BY <1>1 DEF Slate, Comparable, LikeS1, LikeS3
  <1> QED
    BY <1>1, <1>2, <1>3, WinnerUndominated

(* Over the whole negotiation: no offer that was eligible beats the          *)
(* recommended one on one criterion and matches it in the others, for every  *)
(* order, every confirmed policy and everything the suppliers may answer     *)
(* (decide.ts, pareto.ts, tie-break.ts).                                     *)
THEOREM RecommendationUndominated ==
    Spec => [](service = "sourcing" => \A d \in decision : d.winner \subseteq d.pareto)
  <1>1. (service = "sourcing" => DecisionInv)
        => (service = "sourcing" => \A d \in decision : d.winner \subseteq d.pareto)
    BY DecisionUndominated
  <1> QED
    BY <1>1, SourcingDecisions, PTL

==============================================================================
