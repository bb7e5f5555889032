------------------------- MODULE InstallmentsProofs -------------------------
(***************************************************************************)
(* The division of a purchase is right for every total, reimbursement,     *)
(* number of installments and calendar.                                    *)
(***************************************************************************)
EXTENDS Installments, WellFoundedInduction, TLAPS

(* The parts of a date, and the length of the months. *)
LEMMA DateParts ==
  /\ LastMonth \in Nat
  /\ \A m \in Month : DaysIn[m] \in 1..31
  /\ \A d : d \in Date <=> /\ d \in [month : Month, day : 1..31]
                          /\ d.day <= DaysIn[d.month]
BY CalendarAssumption DEF Date

(* Products of integers, which the arithmetic below leaves opaque. *)
LEMMA OneTimeLess ==
  ASSUME NEW a \in Int, NEW b \in Int
  PROVE  a * b \in Int /\ a * (b - 1) = a * b - a
  OBVIOUS

(* A share is a natural number, and the shares of all but the last          *)
(* installment leave the last one at least as much, and less than n more.   *)
LEMMA ShareBounds ==
  ASSUME NEW sum \in Nat, NEW n \in Nat \ {0}
  PROVE  /\ sum \div n \in Nat
         /\ sum - (sum \div n) * (n - 1) \in Nat
         /\ sum \div n <= sum - (sum \div n) * (n - 1)
         /\ sum - (sum \div n) * (n - 1) - (sum \div n) < n
<1>1. PICK q \in Int : q = sum \div n
  BY Z3
<1>2. q * n <= sum /\ sum < q * n + n
  BY <1>1, Z3
<1>3. q >= 0
  BY <1>1, Z3
<1>4. q * n \in Int /\ q * (n - 1) = q * n - q
  BY OneTimeLess
<1>5. q \in Nat /\ sum - q * (n - 1) \in Nat /\ q <= sum - q * (n - 1)
      /\ sum - q * (n - 1) - q < n
  BY <1>2, <1>3, <1>4
<1>. QED
  BY <1>1, <1>5

(* The caps are the amounts: natural numbers, one per installment. *)
LEMMA CapsAreNatural ==
  ASSUME total \in Nat, count \in Nat \ {0}
  PROVE  /\ Caps \in [1..count -> Nat]
         /\ \A k \in 1..(count - 1) : Caps[k] = total \div count
         /\ Caps[count] = total - (total \div count) * (count - 1)
<1> DEFINE q == total \div count
           last == total - q * (count - 1)
<1>1. q \in Nat /\ last \in Nat
  BY ShareBounds
<1>2. Caps = [k \in 1..count |-> IF k = count THEN last ELSE q]
  BY DEF Caps, Shares
<1> HIDE DEF q, last
<1>3. /\ Caps \in [1..count -> Nat]
      /\ \A k \in 1..(count - 1) : Caps[k] = q
      /\ Caps[count] = last
  BY <1>1, <1>2
<1>. QED
  BY <1>3 DEF q, last

(* The strengthening: what the loops rely on, with the caps. *)
WithinCaps == TypeOK /\ ReimbursedWithinShares

LEMMA InitWithinCaps == Init => WithinCaps
<1> SUFFICES ASSUME Init PROVE WithinCaps
  OBVIOUS
<1>1. TypeOK
  BY InstallmentAssumption DEF Init, TypeOK
<1>2. Caps \in [1..count -> Nat]
  BY <1>1, CapsAreNatural DEF TypeOK
<1>3. \A k \in 1..count : allocated[k] = 0
  BY DEF Init
<1>4. ReimbursedWithinShares
  BY <1>2, <1>3 DEF ReimbursedWithinShares
<1>. QED
  BY <1>1, <1>4 DEF WithinCaps

LEMMA NextWithinCaps == WithinCaps /\ [Next]_vars => WithinCaps'
<1> SUFFICES ASSUME WithinCaps, [Next]_vars PROVE WithinCaps'
  OBVIOUS
<1> USE DEF WithinCaps
<1>1. /\ total \in Nat /\ reimbursed \in 0..total /\ count \in 2..MaxCount
      /\ count \in Nat \ {0} /\ reimbursed \in Nat /\ remaining \in Nat
      /\ allocated \in [1..count -> Nat]
  BY InstallmentAssumption DEF TypeOK
<1>2. Caps \in [1..count -> Nat]
  BY <1>1, CapsAreNatural
<1>3. CASE Share
  <2> DEFINE share == reimbursed \div count
             amount == AtMost(AtMost(share, Caps[i]), remaining)
  <2>1. i \in 1..count
    BY <1>1, <1>3 DEF TypeOK, Share
  <2>2. share \in Nat
    BY <1>1, ShareBounds
  <2>3. amount \in 0..remaining /\ amount <= Caps[i]
    BY <1>1, <1>2, <2>1, <2>2 DEF AtMost
  <2>4. /\ allocated' = [allocated EXCEPT ![i] = amount]
        /\ remaining' = remaining - amount
        /\ UNCHANGED <<total, reimbursed, first, count>>
    BY <1>3 DEF Share
  <2>5. Caps' = Caps
    BY <2>4 DEF Caps
  <2>6. phase' \in {"SHARE", "FILL"} /\ i' \in 1..count
    BY <1>1, <1>3, <2>1 DEF Share
  <2> HIDE DEF share, amount
  <2>7. /\ allocated' \in [1..count -> Nat]
        /\ remaining' \in 0..reimbursed
    <3>1. amount \in Nat
      BY <1>1, <2>3
    <3>2. allocated' \in [1..count -> Nat]
      BY <1>1, <2>4, <3>1
    <3>3. remaining \in 0..reimbursed
      BY DEF TypeOK
    <3>4. remaining' \in 0..reimbursed
      BY <1>1, <2>3, <2>4, <3>3
    <3>. QED
      BY <3>2, <3>4
  <2>8. \A k \in 1..count : allocated'[k] <= Caps[k]
    BY <1>1, <1>2, <2>1, <2>3, <2>4 DEF ReimbursedWithinShares
  <2>9. TypeOK'
    BY <1>1, <2>4, <2>6, <2>7 DEF TypeOK
  <2>. QED
    BY <2>4, <2>5, <2>8, <2>9 DEF ReimbursedWithinShares
<1>4. CASE Fill
  <2>1. CASE i > 0 /\ remaining > 0
    <3> DEFINE amount == AtMost(Caps[i] - allocated[i], remaining)
    <3>1. i \in 1..count
      BY <1>1, <2>1 DEF TypeOK
    <3>2. allocated[i] \in Nat /\ Caps[i] \in Nat /\ allocated[i] <= Caps[i]
      BY <1>1, <1>2, <3>1 DEF ReimbursedWithinShares
    <3>3. amount \in 0..remaining /\ allocated[i] + amount <= Caps[i]
      BY <1>1, <3>2 DEF AtMost
    <3>4. /\ allocated' = [allocated EXCEPT ![i] = allocated[i] + amount]
          /\ remaining' = remaining - amount
          /\ i' = i - 1 /\ phase' = phase /\ phase = "FILL"
          /\ UNCHANGED <<total, reimbursed, first, count>>
      BY <1>4, <2>1 DEF Fill
    <3>5. Caps' = Caps
      BY <3>4 DEF Caps
    <3> HIDE DEF amount
    <3>6. /\ allocated' \in [1..count -> Nat]
          /\ remaining' \in 0..reimbursed
      <4>1. allocated[i] + amount \in Nat
        BY <1>1, <3>2, <3>3
      <4>2. allocated' \in [1..count -> Nat]
        BY <1>1, <3>4, <4>1
      <4>3. remaining \in 0..reimbursed
        BY DEF TypeOK
      <4>4. remaining' \in 0..reimbursed
        BY <1>1, <3>3, <3>4, <4>3
      <4>. QED
        BY <4>2, <4>4
    <3>7. \A k \in 1..count : allocated'[k] <= Caps[k]
      BY <1>1, <1>2, <3>1, <3>3, <3>4 DEF ReimbursedWithinShares
    <3>8. i' \in 0..count
      BY <1>1, <3>1, <3>4
    <3>9. TypeOK'
      BY <1>1, <3>4, <3>6, <3>8 DEF TypeOK
    <3>. QED
      BY <3>4, <3>5, <3>7, <3>9 DEF ReimbursedWithinShares
  <2>2. CASE ~(i > 0 /\ remaining > 0)
    <3>1. phase' = "DONE" /\ UNCHANGED <<total, reimbursed, first, count, allocated, remaining, i>>
      BY <1>4, <2>2 DEF Fill
    <3>. QED
      BY <1>1, <3>1 DEF TypeOK, ReimbursedWithinShares, Caps
  <2>. QED
    BY <2>1, <2>2
<1>5. CASE UNCHANGED vars
  BY <1>5 DEF vars, TypeOK, ReimbursedWithinShares, Caps
<1>. QED
  BY <1>3, <1>4, <1>5 DEF Next

(* Type correctness: the indices of both loops stay inside the schedule and *)
(* nothing becomes negative (allocateMinorUnitsWithinCaps).                 *)
THEOREM TypeCorrect == Spec => []TypeOK
<1>1. WithinCaps => TypeOK
  BY DEF WithinCaps
<1>. QED
  BY <1>1, InitWithinCaps, NextWithinCaps, PTL DEF Spec

(* No installment is reimbursed beyond its amount, for every total,         *)
(* reimbursement and number of installments.                                *)
THEOREM NeverOverReimbursed == Spec => []ReimbursedWithinShares
<1>1. WithinCaps => ReimbursedWithinShares
  BY DEF WithinCaps
<1>. QED
  BY <1>1, InitWithinCaps, NextWithinCaps, PTL DEF Spec

(* Only the last installment differs, upwards, and by less than a cent per  *)
(* installment (allocateMinorUnits).                                        *)
THEOREM RemainderInLast == Spec => []LastShareCarriesRemainder
<1>1. ASSUME WithinCaps PROVE LastShareCarriesRemainder
  <2>1. total \in Nat /\ count \in Nat \ {0} /\ count >= 2
    BY <1>1, InstallmentAssumption DEF WithinCaps, TypeOK
  <2>2. PICK q \in Nat, last \in Nat :
          /\ \A k \in 1..(count - 1) : Caps[k] = q
          /\ Caps[count] = last
          /\ last - q \in 0..(count - 1)
    <3>1. total \div count \in Nat /\ total - (total \div count) * (count - 1) \in Nat
      BY <2>1, ShareBounds
    <3>2. /\ \A k \in 1..(count - 1) : Caps[k] = total \div count
          /\ Caps[count] = total - (total \div count) * (count - 1)
      BY <2>1, CapsAreNatural
    <3>3. total - (total \div count) * (count - 1) - total \div count \in 0..(count - 1)
      <4>1. PICK q \in Nat, last \in Nat :
              q = total \div count /\ last = total - (total \div count) * (count - 1)
        BY <3>1
      <4>2. q <= last /\ last - q < count
        BY <2>1, <4>1, ShareBounds
      <4>3. last - q \in 0..(count - 1)
        BY <2>1, <4>2
      <4>. QED
        BY <4>1, <4>3
    <3>. QED
      BY <3>1, <3>2, <3>3
  <2>3. 1 \in 1..(count - 1)
    BY <2>1
  <2>. QED
    BY <2>2, <2>3 DEF LastShareCarriesRemainder
<1>. QED
  BY <1>1, InitWithinCaps, NextWithinCaps, PTL DEF Spec

(* Every installment falls on a date that exists, in its own month, on the  *)
(* owner's day or on the last day of a shorter month.                       *)
THEOREM DatesExist == Spec => []DatesKeepTheDay
<1>1. ASSUME WithinCaps PROVE DatesKeepTheDay
  <2> SUFFICES ASSUME NEW k \in 1..count
               PROVE  /\ Dates[k] \in Date
                      /\ Dates[k].month = first.month + k - 1
                      /\ \/ Dates[k].day = first.day
                         \/ /\ Dates[k].day = DaysIn[Dates[k].month]
                            /\ Dates[k].day < first.day
    BY DEF DatesKeepTheDay
  <2>1. /\ count \in Nat /\ first \in Date /\ first.month + count - 1 <= LastMonth
    BY <1>1, InstallmentAssumption DEF WithinCaps, TypeOK
  <2>2. first.month \in Nat /\ first.day \in 1..31
    BY <2>1 DEF Date, Month
  <2>3. PICK month \in Month : month = first.month + (k - 1) /\ month = first.month + k - 1
    BY <2>1, <2>2, DateParts DEF Month
  <2>4. DaysIn[month] \in 1..31
    BY DateParts
  <2>5. Dates[k] = Clamped(month, first.day)
    BY <2>3 DEF Dates, InstallmentDate
  <2>. QED
    BY <2>2, <2>3, <2>4, <2>5, DateParts DEF Clamped
<1>. QED
  BY <1>1, InitWithinCaps, NextWithinCaps, PTL DEF Spec

-----------------------------------------------------------------------------
(* Sums of a list, by induction over its length. *)

(* A nonempty set of natural numbers has a least element. *)
LEMMA LeastNatural ==
  ASSUME NEW T, T \subseteq Nat, T # {}
  PROVE  \E n \in T : \A m \in T : n <= m
<1> DEFINE R == {ss \in Nat \X Nat : ss[1] < ss[2]}
<1>1. IsWellFoundedOn(R, Nat)
  BY NatLessThanWellFounded DEF OpToRel
<1> HIDE DEF R
<1>2. PICK n \in T : \A m \in T : ~(<<m, n>> \in R)
  BY <1>1, WFMin
<1>3. \A m \in T : ~(m < n)
  BY <1>2 DEF R
<1>. QED
  BY <1>3

(* Induction, for a property given as the set of the numbers that have it. *)
LEMMA Induction ==
  ASSUME NEW S, 0 \in S, \A n \in Nat : n \in S => n + 1 \in S
  PROVE  Nat \subseteq S
<1> DEFINE T == Nat \ S
<1> SUFFICES ASSUME T # {} PROVE FALSE
  OBVIOUS
<1>1. PICK n \in T : \A m \in T : n <= m
  BY LeastNatural
<1>2. n # 0 /\ n - 1 \in Nat /\ ~(n <= n - 1)
  BY <1>1
<1>3. n - 1 \in S
  BY <1>1, <1>2
<1>4. (n - 1) + 1 \in S
  BY <1>2, <1>3
<1>. QED
  BY <1>1, <1>4

(* The sums of the first 0, 1, ..., n values of f. *)
Sums(g, f, n) ==
  /\ g \in [0..n -> Int]
  /\ g[0] = 0
  /\ \A k \in 1..n : g[k] = g[k - 1] + f[k]

LEMMA SumsExist ==
  ASSUME NEW f, NEW m \in Nat, f \in [1..m -> Int]
  PROVE  \E g : Sums(g, f, m)
<1> DEFINE S == {n \in Nat : n <= m => \E g : Sums(g, f, n)}
<1>1. 0 \in S
  <2>1. Sums([k \in 0..0 |-> 0], f, 0)
    BY DEF Sums
  <2>. QED
    BY <2>1
<1>2. ASSUME NEW n \in Nat, n \in S PROVE n + 1 \in S
  <2> SUFFICES ASSUME n + 1 <= m PROVE \E g : Sums(g, f, n + 1)
    OBVIOUS
  <2>1. PICK g : Sums(g, f, n)
    BY <1>2
  <2> DEFINE h == [k \in 0..(n + 1) |-> IF k = n + 1 THEN g[n] + f[n + 1] ELSE g[k]]
  <2>2. g \in [0..n -> Int] /\ f[n + 1] \in Int /\ g[n] \in Int
    BY <2>1 DEF Sums
  <2>3. h \in [0..(n + 1) -> Int] /\ h[0] = 0
    BY <2>1, <2>2 DEF Sums
  <2>4. ASSUME NEW k \in 1..(n + 1) PROVE h[k] = h[k - 1] + f[k]
    <3>1. CASE k = n + 1
      BY <3>1, <2>2
    <3>2. CASE k # n + 1
      <4>1. k \in 1..n /\ k - 1 \in 0..n /\ k - 1 # n + 1 /\ k \in 0..(n + 1) /\ k - 1 \in 0..(n + 1)
        BY <3>2
      <4>2. g[k] = g[k - 1] + f[k]
        BY <4>1, <2>1 DEF Sums
      <4>. QED
        BY <4>1, <4>2, <3>2
    <3>. QED
      BY <3>1, <3>2
  <2> HIDE DEF h
  <2>5. Sums(h, f, n + 1)
    BY <2>3, <2>4 DEF Sums
  <2>. QED
    BY <2>5
<1> HIDE DEF S
<1>3. m \in S
  BY <1>1, <1>2, Induction
<1>. QED
  BY <1>3 DEF S

(* Values that agree have the same sums. *)
LEMMA SumsAgree ==
  ASSUME NEW m \in Nat, NEW f, NEW e, NEW g, NEW h, Sums(g, f, m), Sums(h, e, m),
         \A k \in 1..m : f[k] = e[k]
  PROVE  g = h
<1> DEFINE S == {n \in Nat : n <= m => g[n] = h[n]}
<1>1. 0 \in S
  BY DEF Sums
<1>2. ASSUME NEW n \in Nat, n \in S PROVE n + 1 \in S
  <2> SUFFICES ASSUME n + 1 <= m PROVE g[n + 1] = h[n + 1]
    OBVIOUS
  <2>1. n + 1 \in 1..m /\ (n + 1) - 1 = n /\ g[n] = h[n]
    BY <1>2
  <2>2. g[n + 1] = g[n] + f[n + 1] /\ h[n + 1] = h[n] + e[n + 1]
    BY <2>1 DEF Sums
  <2>. QED
    BY <2>1, <2>2
<1> HIDE DEF S
<1>3. Nat \subseteq S
  BY <1>1, <1>2, Induction
<1>4. \A n \in 0..m : g[n] = h[n]
  BY <1>3 DEF S
<1>. QED
  BY <1>4 DEF Sums

(* SumTo is the last of them. *)
LEMMA SumIsLast ==
  ASSUME NEW n \in Nat, NEW f, f \in [1..n -> Int], NEW g, Sums(g, f, n)
  PROVE  SumTo(f, n) = g[n]
<1> DEFINE Rec(u) == u = [k \in 0..n |-> IF k = 0 THEN 0 ELSE u[k - 1] + f[k]]
           upTo == CHOOSE u : Rec(u)
<1>1. SumTo(f, n) = upTo[n]
  BY DEF SumTo
<1>2. Rec(g)
  <2>1. g = [k \in 0..n |-> g[k]]
    BY DEF Sums
  <2>2. \A k \in 0..n : g[k] = IF k = 0 THEN 0 ELSE g[k - 1] + f[k]
    BY DEF Sums
  <2>. QED
    BY <2>1, <2>2
<1>3. Rec(upTo)
  BY <1>2
<1> HIDE DEF upTo
<1>4. \A k \in 0..n : upTo[k] = IF k = 0 THEN 0 ELSE upTo[k - 1] + f[k]
  BY <1>3
<1>5. Sums([k \in 0..n |-> upTo[k]], f, n)
  <2> DEFINE S == {k \in Nat : k <= n => upTo[k] \in Int}
  <2>1. 0 \in S
    BY <1>4
  <2>2. ASSUME NEW k \in Nat, k \in S PROVE k + 1 \in S
    <3> SUFFICES ASSUME k + 1 <= n PROVE upTo[k + 1] \in Int
      OBVIOUS
    <3>1. k + 1 \in 0..n /\ k + 1 # 0 /\ (k + 1) - 1 = k /\ k + 1 \in 1..n
      OBVIOUS
    <3>2. upTo[k + 1] = upTo[k] + f[k + 1]
      BY <3>1, <1>4
    <3>. QED
      BY <2>2, <3>1, <3>2
  <2> HIDE DEF S
  <2>3. Nat \subseteq S
    BY <2>1, <2>2, Induction
  <2>4. \A k \in 0..n : upTo[k] \in Int
    BY <2>3 DEF S
  <2>. QED
    BY <2>4, <1>4 DEF Sums
<1>6. g = [k \in 0..n |-> upTo[k]]
  BY <1>5, SumsAgree
<1>. QED
  BY <1>1, <1>6

(* One value changes, and the sum by as much. *)
LEMMA SumOfUpdate ==
  ASSUME NEW n \in Nat, NEW f \in [1..n -> Int], NEW j \in 1..n, NEW a \in Int
  PROVE  SumTo([f EXCEPT ![j] = a], n) = SumTo(f, n) - f[j] + a
<1> DEFINE e == [f EXCEPT ![j] = a]
<1>1. PICK g : Sums(g, f, n)
  BY SumsExist
<1> DEFINE h == [k \in 0..n |-> IF k < j THEN g[k] ELSE g[k] - f[j] + a]
<1>2. e \in [1..n -> Int] /\ g \in [0..n -> Int] /\ f[j] \in Int
  BY <1>1 DEF Sums
<1>3. h \in [0..n -> Int] /\ h[0] = 0
  BY <1>1, <1>2 DEF Sums
<1>4. ASSUME NEW k \in 1..n PROVE h[k] = h[k - 1] + e[k]
  <2>1. k - 1 \in 0..n /\ k \in 0..n /\ g[k] \in Int /\ g[k - 1] \in Int /\ f[k] \in Int
    BY <1>2
  <2>2. g[k] = g[k - 1] + f[k]
    BY <1>1 DEF Sums
  <2>3. e[k] = IF k = j THEN a ELSE f[k]
    OBVIOUS
  <2>. QED
    BY <1>2, <2>1, <2>2, <2>3
<1> HIDE DEF h, e
<1>5. Sums(h, e, n)
  BY <1>3, <1>4 DEF Sums
<1>6. SumTo(e, n) = h[n] /\ SumTo(f, n) = g[n]
  BY <1>1, <1>2, <1>5, SumIsLast
<1>7. h[n] = g[n] - f[j] + a
  BY DEF h
<1>. QED
  BY <1>6, <1>7 DEF e

(* The sum of equal values and another one at the end. *)
LEMMA SumOfEqual ==
  ASSUME NEW n \in Nat \ {0}, NEW q \in Int, NEW last \in Int, NEW f \in [1..n -> Int],
         \A k \in 1..(n - 1) : f[k] = q, f[n] = last
  PROVE  SumTo(f, n) = q * (n - 1) + last
<1> DEFINE g == [k \in 0..n |-> IF k = n THEN q * (n - 1) + last ELSE q * k]
<1>1. \A k \in Int : q * k \in Int /\ q * (k - 1) = q * k - q
  BY OneTimeLess
<1>2. q * 0 = 0
  OBVIOUS
<1>3. g \in [0..n -> Int] /\ g[0] = 0
  BY <1>1, <1>2
<1>4. ASSUME NEW k \in 1..n PROVE g[k] = g[k - 1] + f[k]
  <2>1. k - 1 \in 0..n /\ k - 1 # n /\ g[k - 1] = q * (k - 1)
    OBVIOUS
  <2>2. CASE k = n
    BY <2>1, <2>2, <1>1
  <2>3. CASE k # n
    <3>1. g[k] = q * k /\ f[k] = q
      BY <2>3
    <3>2. q * (k - 1) = q * k - q /\ q * k \in Int
      BY <1>1
    <3> HIDE DEF g
    <3>. QED
      BY <2>1, <3>1, <3>2
  <2>. QED
    BY <2>2, <2>3
<1>5. g[n] = q * (n - 1) + last
  OBVIOUS
<1> HIDE DEF g
<1>6. Sums(g, f, n)
  BY <1>3, <1>4 DEF Sums
<1>. QED
  BY <1>5, <1>6, SumIsLast

(* Every cent of the amount is in an installment. *)
LEMMA CapsAddUp ==
  ASSUME total \in Nat, count \in Nat \ {0}
  PROVE  SumTo(Caps, count) = total
<1>1. PICK q \in Nat, last \in Nat : q = total \div count /\ last = total - q * (count - 1)
  BY ShareBounds
<1>2. Caps \in [1..count -> Int] /\ (\A k \in 1..(count - 1) : Caps[k] = q) /\ Caps[count] = last
  BY <1>1, CapsAreNatural
<1>3. SumTo(Caps, count) = q * (count - 1) + last
  BY <1>2, SumOfEqual
<1>4. PICK others \in Int : others = q * (count - 1)
  BY OneTimeLess
<1>5. last = total - others /\ SumTo(Caps, count) = others + last
  BY <1>1, <1>3, <1>4
<1>. QED
  BY <1>4, <1>5

(* The strengthening for the sums: an installment the first loop has not    *)
(* reached has nothing yet, and while something is left, those the second   *)
(* loop has passed are full.                                                *)
Accounted ==
  /\ SumTo(allocated, count) + remaining = reimbursed
  /\ phase = "SHARE" => \A k \in i..count : allocated[k] = 0
  /\ phase = "FILL" /\ remaining > 0 => \A k \in (i + 1)..count : allocated[k] = Caps[k]
  /\ phase = "DONE" => remaining = 0

LEMMA InitAccounted == Init => Accounted
<1> SUFFICES ASSUME Init PROVE Accounted
  OBVIOUS
<1>1. count \in Nat \ {0} /\ reimbursed \in Int
  BY InstallmentAssumption DEF Init
<1>2. allocated \in [1..count -> Int] /\ \A k \in 1..count : allocated[k] = 0
  BY DEF Init
<1>3. SumTo(allocated, count) = 0 * (count - 1) + 0
  BY <1>1, <1>2, SumOfEqual
<1>. QED
  BY <1>1, <1>2, <1>3 DEF Init, Accounted

LEMMA NextAccounted == WithinCaps /\ Accounted /\ [Next]_vars => Accounted'
<1> SUFFICES ASSUME WithinCaps, Accounted, [Next]_vars PROVE Accounted'
  OBVIOUS
<1>1. /\ total \in Nat /\ reimbursed \in 0..total /\ count \in Nat \ {0}
      /\ reimbursed \in Nat /\ remaining \in Nat /\ i \in 0..count
      /\ allocated \in [1..count -> Nat] /\ allocated \in [1..count -> Int]
  BY InstallmentAssumption DEF WithinCaps, TypeOK
<1>2. Caps \in [1..count -> Nat]
  BY <1>1, CapsAreNatural
<1>3. PICK sum \in Int : sum = SumTo(allocated, count)
  <2>1. PICK g : Sums(g, allocated, count)
    BY <1>1, SumsExist
  <2>2. SumTo(allocated, count) = g[count]
    BY <1>1, <2>1, SumIsLast
  <2>3. g[count] \in Int
    BY <1>1, <2>1 DEF Sums
  <2>. QED
    BY <2>2, <2>3
<1>4. sum + remaining = reimbursed
  BY <1>3 DEF Accounted
<1>5. CASE Share
  <2> DEFINE share == reimbursed \div count
             amount == AtMost(AtMost(share, Caps[i]), remaining)
  <2>1. i \in 1..count /\ phase = "SHARE"
    BY <1>1, <1>5 DEF WithinCaps, TypeOK, Share
  <2>2. share \in Nat /\ Caps[i] \in Nat
    BY <1>1, <1>2, <2>1, ShareBounds
  <2>3. amount \in Nat
    BY <1>1, <2>2 DEF AtMost
  <2>4. /\ allocated' = [allocated EXCEPT ![i] = amount]
        /\ remaining' = remaining - amount
        /\ count' = count /\ reimbursed' = reimbursed
        /\ IF i = count THEN phase' = "FILL" /\ i' = count ELSE phase' = "SHARE" /\ i' = i + 1
    BY <1>5 DEF Share
  <2> HIDE DEF share, amount
  <2>5. allocated[i] = 0 /\ \A k \in i..count : allocated[k] = 0
    BY <1>1, <2>1 DEF Accounted
  <2>6. SumTo(allocated', count) = sum + amount
    <3>1. amount \in Int /\ count \in Nat
      BY <1>1, <2>3
    <3>2. SumTo(allocated', count) = sum - allocated[i] + amount
      BY <1>1, <1>3, <2>1, <2>4, <3>1, SumOfUpdate
    <3>. QED
      BY <2>3, <2>5, <3>2
  <2>7. SumTo(allocated', count') + remaining' = reimbursed'
    BY <1>1, <1>4, <2>3, <2>4, <2>6
  <2>8. phase' = "SHARE" => \A k \in i'..count : allocated'[k] = 0
    BY <1>1, <2>1, <2>4, <2>5
  <2>9. phase' # "DONE" /\ (phase' = "FILL" => i' = count)
    BY <2>4
  <2>. QED
    BY <1>1, <2>4, <2>7, <2>8, <2>9 DEF Accounted
<1>6. CASE Fill
  <2>1. CASE i > 0 /\ remaining > 0
    <3> DEFINE amount == AtMost(Caps[i] - allocated[i], remaining)
    <3>1. i \in 1..count
      BY <1>1, <2>1
    <3>2. allocated[i] \in Nat /\ Caps[i] \in Nat /\ allocated[i] <= Caps[i]
      BY <1>1, <1>2, <3>1 DEF WithinCaps, ReimbursedWithinShares
    <3>3. /\ amount \in 0..remaining
          /\ amount < remaining => allocated[i] + amount = Caps[i]
      BY <1>1, <3>2 DEF AtMost
    <3>4. /\ allocated' = [allocated EXCEPT ![i] = allocated[i] + amount]
          /\ remaining' = remaining - amount
          /\ i' = i - 1 /\ phase' = phase /\ phase = "FILL"
          /\ UNCHANGED <<total, reimbursed, count>>
      BY <1>6, <2>1 DEF Fill
    <3>5. Caps' = Caps
      BY <3>4 DEF Caps
    <3> HIDE DEF amount
    <3>6. SumTo(allocated', count) = sum + amount
      <4>1. allocated[i] + amount \in Int /\ amount \in Int
        BY <1>1, <3>2, <3>3
      <4>2. SumTo(allocated', count) = sum - allocated[i] + (allocated[i] + amount)
        BY <1>1, <1>3, <3>1, <3>4, <4>1, SumOfUpdate
      <4>. QED
        BY <3>2, <4>1, <4>2
    <3>7. SumTo(allocated', count') + remaining' = reimbursed'
      BY <1>1, <1>4, <3>3, <3>4, <3>6
    <3>8. ASSUME remaining' > 0, NEW k \in (i' + 1)..count
          PROVE  allocated'[k] = Caps[k]
      <4>1. amount < remaining
        BY <1>1, <3>3, <3>4, <3>8
      <4>2. k \in i..count /\ k \in 1..count
        BY <1>1, <3>1, <3>4
      <4>3. CASE k = i
        BY <1>1, <3>3, <3>4, <4>1, <4>2, <4>3
      <4>4. CASE k # i
        <5>1. k \in (i + 1)..count
          BY <1>1, <4>2, <4>4
        <5>2. allocated[k] = Caps[k]
          BY <2>1, <3>4, <5>1 DEF Accounted
        <5>. QED
          BY <1>1, <3>4, <4>2, <4>4, <5>2
      <4>. QED
        BY <4>3, <4>4
    <3>. QED
      BY <3>4, <3>5, <3>7, <3>8 DEF Accounted
  <2>2. CASE ~(i > 0 /\ remaining > 0)
    <3>1. phase = "FILL" /\ phase' = "DONE"
          /\ UNCHANGED <<total, reimbursed, count, allocated, remaining, i>>
      BY <1>6, <2>2 DEF Fill
    <3>2. ASSUME remaining > 0 PROVE FALSE
      <4>1. \A k \in 1..count : allocated[k] = Caps[k]
        BY <1>1, <2>2, <3>1, <3>2 DEF Accounted
      <4>2. allocated = Caps
        BY <1>1, <1>2, <4>1
      <4>3. sum = total
        BY <1>1, <1>3, <4>2, CapsAddUp
      <4>. QED
        BY <1>1, <1>4, <3>2, <4>3
    <3>3. remaining = 0
      BY <1>1, <3>2
    <3>. QED
      BY <3>1, <3>3 DEF Accounted
  <2>. QED
    BY <2>1, <2>2
<1>7. CASE UNCHANGED vars
  BY <1>7 DEF vars, Accounted, Caps
<1>. QED
  BY <1>5, <1>6, <1>7 DEF Next

(* Neither a cent of the amount nor one of the reimbursement is lost or     *)
(* invented, whatever the loops round off, and nothing is left over at the  *)
(* end (allocateMinorUnits, allocateMinorUnitsWithinCaps).                  *)
THEOREM CentsAreKept == Spec => []NoCentLost
<1>1. ASSUME WithinCaps, Accounted PROVE NoCentLost
  <2>1. total \in Nat /\ count \in Nat \ {0}
    BY <1>1, InstallmentAssumption DEF WithinCaps, TypeOK
  <2>. QED
    BY <1>1, <2>1, CapsAddUp DEF Accounted, NoCentLost
<1>. QED
  BY <1>1, InitWithinCaps, InitAccounted, NextWithinCaps, NextAccounted, PTL DEF Spec
=============================================================================
