---------------------------- MODULE AccessProofs ----------------------------
(***************************************************************************)
(* Proofs about who is let in: the lock of accounts and the limit of       *)
(* failures per address (LoginGuard), and the keys (ApiKeys), for any      *)
(* number of accounts, addresses, users and keys.                          *)
(***************************************************************************)
EXTENDS LoginGuard, ApiKeys, FiniteSetTheorems, SequenceTheorems, TLAPS

-----------------------------------------------------------------------------
(* The lock.                                                               *)

LockTypeOK ==
    /\ now \in Nat \ {0}
    /\ fails \in [Login -> 0 .. LockAt]
    /\ lockedUntil \in [Login -> Nat]
    /\ lastFail \in [Login -> Nat]

LockInv == LockTypeOK /\ LockFollowsFailures

LEMMA LockInitInv == GuardInit => LockInv
BY GuardAssumption DEF GuardInit, LockInv, LockTypeOK, LockFollowsFailures

(* Only attempts that the limiter lets through touch the lock.             *)
LEMMA LockStep == LockInv /\ [GuardNext]_guardVars => LockInv'
<1> SUFFICES ASSUME LockInv, [GuardNext]_guardVars PROVE LockInv'
  OBVIOUS
<1> USE GuardAssumption DEF LockInv, LockTypeOK, LockFollowsFailures
<1>1. ASSUME NEW a \in Address, NEW u \in Login, Passes(a, u) PROVE LockInv'
  BY <1>1 DEF Passes
<1>2. ASSUME NEW a \in Address, NEW u \in Login, Fails(a, u) PROVE LockInv'
  <2> DEFINE n == IF fails[u] < LockAt THEN fails[u] + 1 ELSE LockAt
  <2>1. n \in 0 .. LockAt /\ (n >= LockAt <=> n = LockAt)
    OBVIOUS
  <2>2. /\ fails' = [fails EXCEPT ![u] = n]
        /\ lockedUntil' = [lockedUntil EXCEPT ![u] = IF n >= LockAt THEN now + LockFor ELSE 0]
        /\ lastFail' = [lastFail EXCEPT ![u] = now]
        /\ now' = now
    BY <1>2 DEF Fails
  <2> HIDE DEF n
  <2>3. QED
    BY <2>1, <2>2
<1>3. ASSUME NEW a \in Address, Refused(a) \/ FailsUnknown(a) PROVE LockInv'
  BY <1>3 DEF Refused, FailsUnknown, lockVars
<1>4. CASE Tick
  BY <1>4 DEF Tick, lockVars
<1>5. CASE Restart
  BY <1>5 DEF Restart, lockVars
<1>6. CASE UNCHANGED guardVars
  BY <1>6 DEF guardVars, lockVars
<1> HIDE DEF LockInv
<1>7. QED
  BY <1>1, <1>2, <1>3, <1>4, <1>5, <1>6 DEF GuardNext

(* Whatever order successes, failures, restarts and the ends of locks come *)
(* in, an account is locked exactly when its failures since the last       *)
(* success have reached the limit, and for LockFor after the last of them. *)
THEOREM LockFollowsFailuresHolds == GuardSpec => []LockFollowsFailures
<1>1. LockInv => LockFollowsFailures
  BY DEF LockInv
<1>2. QED
  BY <1>1, LockInitInv, LockStep, PTL DEF GuardSpec

-----------------------------------------------------------------------------
(* The limiter's sequences.                                                *)

Sorted(q) == \A i, j \in 1 .. Len(q) : i <= j => q[i] <= q[j]

(* A set of positions that has every position before its own is a prefix.  *)
LEMMA PrefixCounts ==
    ASSUME NEW n \in Nat, NEW E \in SUBSET (1 .. n), \A i \in E : 1 .. i \subseteq E
    PROVE  Cardinality(E) \in 0 .. n /\ E = 1 .. Cardinality(E)
<1>1. \A k \in Nat : IsFiniteSet(1 .. k) /\ Cardinality(1 .. k) = k
  BY FS_Interval
<1>2. IsFiniteSet(E) /\ Cardinality(E) \in Nat /\ Cardinality(E) <= n
  <2>1. IsFiniteSet(1 .. n) /\ Cardinality(1 .. n) = n
    BY <1>1
  <2>2. IsFiniteSet(E) /\ Cardinality(E) <= Cardinality(1 .. n)
    BY <2>1, FS_Subset
  <2>3. QED
    BY <2>1, <2>2, FS_CardinalityType
<1>3. ASSUME NEW i \in E PROVE i <= Cardinality(E)
  <2>1. i \in Nat /\ 1 .. i \subseteq E
    OBVIOUS
  <2>2. Cardinality(1 .. i) <= Cardinality(E)
    BY <1>2, <2>1, FS_Subset
  <2>3. QED
    BY <1>1, <2>1, <2>2
<1>4. E \subseteq 1 .. Cardinality(E)
  BY <1>2, <1>3
<1>5. E = 1 .. Cardinality(E)
  BY <1>1, <1>2, <1>4, FS_Subset
<1>6. QED
  BY <1>2, <1>5

(* In a sequence in order, what the loop pops is all that has expired.     *)
LEMMA ExpiredCounts ==
    ASSUME NEW q \in Seq(Nat), Sorted(q), NEW t \in Nat
    PROVE  /\ Cardinality(Expired(q, t)) \in 0 .. Len(q)
           /\ \A i \in 1 .. Len(q) : i <= Cardinality(Expired(q, t)) <=> q[i] + Window <= t
           /\ {i \in DOMAIN q : q[i] + Window <= t} = Expired(q, t)
<1>1. DOMAIN q = 1 .. Len(q) /\ Len(q) \in Nat /\ \A i \in 1 .. Len(q) : q[i] \in Nat
  BY LenProperties, ElementOfSeq
<1>2. Window \in Nat
  BY GuardAssumption
<1>3. \A i \in 1 .. Len(q) : i \in Expired(q, t) <=> q[i] + Window <= t
  BY <1>1, <1>2 DEF Expired, Sorted
<1>4. Expired(q, t) \in SUBSET (1 .. Len(q)) /\ \A i \in Expired(q, t) : 1 .. i \subseteq Expired(q, t)
  BY <1>1 DEF Expired
<1>5. /\ Cardinality(Expired(q, t)) \in 0 .. Len(q)
      /\ Expired(q, t) = 1 .. Cardinality(Expired(q, t))
  BY <1>1, <1>4, PrefixCounts
<1>6. {i \in DOMAIN q : q[i] + Window <= t} = Expired(q, t)
  BY <1>1, <1>3, <1>4
<1>7. QED
  BY <1>1, <1>3, <1>5, <1>6

LEMMA YoungIs ==
    ASSUME NEW q \in Seq(Nat), Sorted(q), NEW t \in Nat
    PROVE  \E x \in 0 .. Len(q) :
              /\ \A i \in 1 .. Len(q) : i <= x <=> q[i] + Window <= t
              /\ Young(q, t) \in Seq(Nat) /\ Len(Young(q, t)) = Len(q) - x
              /\ \A i \in 1 .. Len(q) - x : Young(q, t)[i] = q[x + i]
<1> DEFINE x == Cardinality(Expired(q, t))
<1>1. Len(q) \in Nat /\ \A i \in 1 .. Len(q) : q[i] \in Nat
  BY LenProperties, ElementOfSeq
<1>2. x \in 0 .. Len(q) /\ \A i \in 1 .. Len(q) : i <= x <=> q[i] + Window <= t
  BY ExpiredCounts
<1>3. Young(q, t) = SubSeq(q, x + 1, Len(q))
  BY DEF Young
<1> HIDE DEF x
<1>4. \A i \in x + 1 .. Len(q) : q[i] \in Nat
  BY <1>1, <1>2
<1>5. /\ SubSeq(q, x + 1, Len(q)) \in Seq(Nat)
      /\ Len(SubSeq(q, x + 1, Len(q))) = IF x + 1 <= Len(q) THEN Len(q) - (x + 1) + 1 ELSE 0
      /\ \A i \in 1 .. Len(q) - (x + 1) + 1 : SubSeq(q, x + 1, Len(q))[i] = q[x + 1 + i - 1]
  BY <1>1, <1>2, <1>4, SubSeqProperties
<1>6. /\ Len(Young(q, t)) = Len(q) - x
      /\ \A i \in 1 .. Len(q) - x : Young(q, t)[i] = q[x + i]
  <2>1. Len(q) - (x + 1) + 1 = Len(q) - x /\ \A i \in Int : x + 1 + i - 1 = x + i
    BY <1>1, <1>2
  <2>2. Len(Young(q, t)) = Len(q) - x
    BY <1>1, <1>2, <1>3, <1>5
  <2>3. ASSUME NEW i \in 1 .. Len(q) - x PROVE Young(q, t)[i] = q[x + i]
    <3>1. i \in 1 .. Len(q) - (x + 1) + 1 /\ x + 1 + i - 1 = x + i
      BY <1>1, <1>2
    <3>2. SubSeq(q, x + 1, Len(q))[i] = q[x + 1 + i - 1]
      BY <1>5, <3>1
    <3>3. QED
      BY <1>3, <3>1, <3>2
  <2>4. QED
    BY <2>2, <2>3
<1>7. QED
  BY <1>2, <1>3, <1>5, <1>6

LEMMA YoungSorted ==
    ASSUME NEW q \in Seq(Nat), Sorted(q), NEW t \in Nat
    PROVE  /\ Young(q, t) \in Seq(Nat) /\ Sorted(Young(q, t)) /\ Len(Young(q, t)) <= Len(q)
           /\ \A m \in Nat : (\A i \in 1 .. Len(q) : q[i] <= m)
                                => \A i \in 1 .. Len(Young(q, t)) : Young(q, t)[i] <= m
<1>1. PICK x \in 0 .. Len(q) :
        /\ Young(q, t) \in Seq(Nat) /\ Len(Young(q, t)) = Len(q) - x
        /\ \A i \in 1 .. Len(q) - x : Young(q, t)[i] = q[x + i]
  BY YoungIs
<1>2. Len(q) \in Nat
  BY LenProperties
<1>3. \A i \in 1 .. Len(q) - x : x + i \in 1 .. Len(q)
  BY <1>2
<1>4. Sorted(Young(q, t))
  <2> SUFFICES ASSUME NEW i \in 1 .. Len(q) - x, NEW j \in 1 .. Len(q) - x, i <= j
               PROVE  Young(q, t)[i] <= Young(q, t)[j]
    BY <1>1 DEF Sorted
  <2>1. x + i <= x + j /\ x + i \in 1 .. Len(q) /\ x + j \in 1 .. Len(q)
    BY <1>2, <1>3
  <2>2. q[x + i] <= q[x + j]
    BY <2>1 DEF Sorted
  <2>3. QED
    BY <1>1, <2>2
<1>5. \A i \in 1 .. Len(Young(q, t)) : \E j \in 1 .. Len(q) : Young(q, t)[i] = q[j]
  BY <1>1, <1>3
<1>6. Len(Young(q, t)) <= Len(q)
  BY <1>1, <1>2
<1>7. QED
  BY <1>1, <1>4, <1>5, <1>6

(* Pruning twice prunes as the later time alone.                           *)
LEMMA YoungYoung ==
    ASSUME NEW q \in Seq(Nat), Sorted(q), NEW t \in Nat, NEW u \in Nat, t <= u
    PROVE  Young(Young(q, t), u) = Young(q, u)
<1> DEFINE p == Young(q, t)
<1>1. Window \in Nat /\ Len(q) \in Nat /\ \A i \in 1 .. Len(q) : q[i] \in Nat
  BY GuardAssumption, LenProperties, ElementOfSeq
<1>2. PICK x \in 0 .. Len(q) :
        /\ \A i \in 1 .. Len(q) : i <= x <=> q[i] + Window <= t
        /\ p \in Seq(Nat) /\ Len(p) = Len(q) - x
        /\ \A i \in 1 .. Len(q) - x : p[i] = q[x + i]
  BY YoungIs
<1>3. PICK y \in 0 .. Len(q) :
        /\ \A i \in 1 .. Len(q) : i <= y <=> q[i] + Window <= u
        /\ Young(q, u) \in Seq(Nat) /\ Len(Young(q, u)) = Len(q) - y
        /\ \A i \in 1 .. Len(q) - y : Young(q, u)[i] = q[y + i]
  BY YoungIs
<1>4. Sorted(p)
  BY YoungSorted
<1> HIDE DEF p
<1>5. PICK z \in 0 .. Len(p) :
        /\ \A i \in 1 .. Len(p) : i <= z <=> p[i] + Window <= u
        /\ Young(p, u) \in Seq(Nat) /\ Len(Young(p, u)) = Len(p) - z
        /\ \A i \in 1 .. Len(p) - z : Young(p, u)[i] = p[z + i]
  BY <1>2, <1>4, YoungIs
<1>6. x <= y
  <2> SUFFICES ASSUME y < x PROVE FALSE
    BY <1>1
  <2>1. x \in 1 .. Len(q) /\ q[x] \in Nat /\ ~(x <= y)
    BY <1>1
  <2>2. q[x] + Window <= t
    BY <1>2, <2>1
  <2>3. q[x] + Window <= u
    BY <1>1, <2>1, <2>2
  <2>4. QED
    BY <1>3, <2>1, <2>3
<1>7. \A i \in 1 .. Len(q) - x : i <= z <=> x + i <= y
  <2> SUFFICES ASSUME NEW i \in 1 .. Len(q) - x PROVE i <= z <=> x + i <= y
    OBVIOUS
  <2>1. i \in 1 .. Len(p) /\ x + i \in 1 .. Len(q) /\ p[i] = q[x + i]
    BY <1>1, <1>2
  <2>2. QED
    BY <1>3, <1>5, <2>1
<1>8. z = y - x
  <2>1. y - x \in 0 .. Len(q) - x /\ z \in 0 .. Len(q) - x
    BY <1>1, <1>2, <1>6
  <2>2. ASSUME z < y - x PROVE FALSE
    <3>1. z + 1 \in 1 .. Len(q) - x /\ x + (z + 1) <= y
      BY <1>1, <2>1, <2>2
    <3>2. z + 1 <= z
      BY <1>7, <3>1
    <3>3. QED
      BY <2>1, <3>2
  <2>3. ASSUME y - x < z PROVE FALSE
    <3>1. z \in 1 .. Len(q) - x
      BY <1>1, <1>6, <2>1, <2>3
    <3>2. x + z <= y
      BY <1>7, <2>1, <3>1
    <3>3. QED
      BY <2>1, <2>3, <3>2
  <2>4. QED
    BY <1>1, <2>1, <2>2, <2>3
<1>9. Len(Young(p, u)) = Len(Young(q, u))
  BY <1>1, <1>2, <1>3, <1>5, <1>8
<1>10. ASSUME NEW i \in 1 .. Len(Young(p, u)) PROVE Young(p, u)[i] = Young(q, u)[i]
  <2>1. i \in 1 .. Len(p) - z /\ i \in 1 .. Len(q) - y /\ z + i \in 1 .. Len(q) - x /\ x + (z + i) = y + i
    BY <1>1, <1>2, <1>5, <1>6, <1>8
  <2>2. QED
    BY <1>2, <1>3, <1>5, <2>1
<1>11. Young(p, u) = Young(q, u)
  BY <1>3, <1>5, <1>9, <1>10, SeqEqual
<1>12. QED
  BY <1>11 DEF p

(* Pruning what is in order and not from the future.                       *)
LEMMA YoungStays ==
    ASSUME NEW q \in Seq(Nat), Sorted(q), NEW t \in Nat, \A i \in 1 .. Len(q) : q[i] <= t
    PROVE  /\ Young(q, t) \in Seq(Nat) /\ Sorted(Young(q, t))
           /\ \A i \in 1 .. Len(Young(q, t)) : Young(q, t)[i] <= t
           /\ Young(Young(q, t), t) = Young(q, t)
<1>1. Young(q, t) \in Seq(Nat) /\ Sorted(Young(q, t))
  BY YoungSorted
<1>2. \A i \in 1 .. Len(Young(q, t)) : Young(q, t)[i] <= t
  BY YoungSorted
<1>3. Young(Young(q, t), t) = Young(q, t)
  <2>1. t <= t
    OBVIOUS
  <2>2. QED
    BY <2>1, YoungYoung
<1>4. QED
  BY <1>1, <1>2, <1>3

LEMMA YoungEmpty == ASSUME NEW t \in Nat PROVE Young(<<>>, t) = <<>>
<1>1. <<>> \in Seq(Nat) /\ Len(<<>>) = 0 /\ Sorted(<<>>)
  BY EmptySeq DEF Sorted
<1>2. Young(<<>>, t) \in Seq(Nat) /\ Len(Young(<<>>, t)) <= 0
  BY <1>1, YoungSorted
<1>3. Len(Young(<<>>, t)) = 0
  BY <1>2, LenProperties
<1>4. QED
  BY <1>2, <1>3, EmptySeq

(* A failure counted now is young, and changes nothing about the others.   *)
LEMMA YoungAppend ==
    ASSUME NEW q \in Seq(Nat), Sorted(q), NEW t \in Nat, \A i \in 1 .. Len(q) : q[i] <= t
    PROVE  /\ Append(q, t) \in Seq(Nat) /\ Sorted(Append(q, t)) /\ Len(Append(q, t)) = Len(q) + 1
           /\ \A i \in 1 .. Len(q) + 1 : Append(q, t)[i] <= t
           /\ Young(Append(q, t), t) = Append(Young(q, t), t)
<1> DEFINE r == Append(q, t)
<1>1. /\ Window \in Nat /\ Window > 0 /\ Len(q) \in Nat
      /\ \A i \in 1 .. Len(q) : q[i] \in Nat
  BY GuardAssumption, LenProperties, ElementOfSeq
<1>2. /\ r \in Seq(Nat) /\ Len(r) = Len(q) + 1 /\ r[Len(q) + 1] = t
      /\ \A i \in 1 .. Len(q) : r[i] = q[i]
  BY AppendProperties
<1> HIDE DEF r
<1>3. \A i \in 1 .. Len(q) + 1 : i \in 1 .. Len(q) \/ i = Len(q) + 1
  BY <1>1
<1>4. Sorted(r) /\ \A i \in 1 .. Len(q) + 1 : r[i] <= t
  <2>1. \A i \in 1 .. Len(q) + 1 : r[i] <= t
    BY <1>1, <1>2, <1>3
  <2>2. ASSUME NEW i \in 1 .. Len(r), NEW j \in 1 .. Len(r), i <= j PROVE r[i] <= r[j]
    <3>1. CASE j = Len(q) + 1
      BY <1>2, <2>1, <3>1
    <3>2. CASE j \in 1 .. Len(q)
      <4>1. i \in 1 .. Len(q)
        BY <1>1, <2>2, <3>2
      <4>2. r[i] = q[i] /\ r[j] = q[j]
        BY <1>2, <3>2, <4>1
      <4>3. QED
        BY <2>2, <3>2, <4>1, <4>2 DEF Sorted
    <3>3. QED
      BY <1>2, <1>3, <3>1, <3>2
  <2>3. QED
    BY <2>1, <2>2 DEF Sorted
<1>5. PICK x \in 0 .. Len(q) :
        /\ \A i \in 1 .. Len(q) : i <= x <=> q[i] + Window <= t
        /\ Young(q, t) \in Seq(Nat) /\ Len(Young(q, t)) = Len(q) - x
        /\ \A i \in 1 .. Len(q) - x : Young(q, t)[i] = q[x + i]
  BY YoungIs
<1>6. PICK y \in 0 .. Len(r) :
        /\ \A i \in 1 .. Len(r) : i <= y <=> r[i] + Window <= t
        /\ Young(r, t) \in Seq(Nat) /\ Len(Young(r, t)) = Len(r) - y
        /\ \A i \in 1 .. Len(r) - y : Young(r, t)[i] = r[y + i]
  BY <1>2, <1>4, YoungIs
<1>7. x = y
  <2>1. Len(q) + 1 \in 1 .. Len(r) /\ ~(Len(q) + 1 <= y)
    BY <1>1, <1>2, <1>6
  <2>2. y \in 0 .. Len(q)
    BY <1>1, <1>2, <2>1
  <2>3. ASSUME NEW i \in 1 .. Len(q) PROVE i <= x <=> i <= y
    <3>1. i \in 1 .. Len(r) /\ r[i] = q[i]
      BY <1>1, <1>2
    <3>2. i <= y <=> r[i] + Window <= t
      BY <1>6, <3>1
    <3>3. i <= x <=> q[i] + Window <= t
      BY <1>5
    <3>4. QED
      BY <3>1, <3>2, <3>3
  <2>4. QED
    BY <1>1, <2>2, <2>3
<1> DEFINE p == Append(Young(q, t), t)
<1>8. /\ p \in Seq(Nat) /\ Len(p) = Len(q) - x + 1 /\ p[Len(q) - x + 1] = t
      /\ \A i \in 1 .. Len(q) - x : p[i] = q[x + i]
  BY <1>5, AppendProperties
<1> HIDE DEF p
<1>9. Len(Young(r, t)) = Len(p)
  BY <1>1, <1>2, <1>5, <1>6, <1>7, <1>8
<1>10. ASSUME NEW i \in 1 .. Len(p) PROVE Young(r, t)[i] = p[i]
  <2>1. i \in 1 .. Len(r) - y /\ Young(r, t)[i] = r[x + i]
    BY <1>1, <1>2, <1>6, <1>7, <1>8
  <2>2. CASE i = Len(q) - x + 1
    <3>1. x + i = Len(q) + 1
      BY <1>1, <2>2
    <3>2. QED
      BY <1>2, <1>8, <2>1, <2>2, <3>1
  <2>3. CASE i \in 1 .. Len(q) - x
    <3>1. x + i \in 1 .. Len(q)
      BY <1>1, <2>3
    <3>2. QED
      BY <1>2, <1>8, <2>1, <2>3, <3>1
  <2>4. i = Len(q) - x + 1 \/ i \in 1 .. Len(q) - x
    <3>1. Len(q) - x \in Nat /\ i \in 1 .. Len(q) - x + 1
      BY <1>1, <1>8
    <3>2. QED
      BY <3>1
  <2>5. QED
    BY <2>2, <2>3, <2>4
<1>11. Young(r, t) = p
  BY <1>6, <1>8, <1>9, <1>10, SeqEqual
<1>12. QED
  BY <1>2, <1>4, <1>11 DEF p, r

(* The Retry-After of a limited address: what must still expire is the     *)
(* oldest of its last MaxEvents failures.                                  *)
LEMMA RetryIsEnough ==
    ASSUME NEW q \in Seq(Nat), Sorted(q), NEW t \in Nat, Limited(q, t)
    PROVE  LET wait == RetryAfter(q, t)
           IN  ~Limited(q, t + wait) /\ (wait > 1 => Limited(q, t + wait - 2))
<1> DEFINE n == Len(q)
           p == Young(q, t)
           k == n - MaxEvents + 1
<1>1. /\ Window \in Nat /\ Window > 0 /\ MaxEvents \in Nat /\ MaxEvents > 0
      /\ n \in Nat /\ \A i \in 1 .. n : q[i] \in Nat
  BY GuardAssumption, LenProperties, ElementOfSeq
<1>2. PICK x \in 0 .. n :
        /\ \A i \in 1 .. n : i <= x <=> q[i] + Window <= t
        /\ p \in Seq(Nat) /\ Len(p) = n - x
        /\ \A i \in 1 .. n - x : p[i] = q[x + i]
  BY YoungIs
<1>3. Len(p) >= MaxEvents
  BY DEF Limited
<1>4. RetryAfter(q, t) = p[Len(p) - MaxEvents + 1] + Window + 1 - t
  BY DEF RetryAfter
<1> HIDE DEF p, n
<1>5. k \in 1 .. n /\ k > x /\ p[Len(p) - MaxEvents + 1] = q[k]
  <2>1. Len(p) - MaxEvents + 1 \in 1 .. n - x /\ x + (Len(p) - MaxEvents + 1) = k
    BY <1>1, <1>2, <1>3
  <2>2. p[Len(p) - MaxEvents + 1] = q[k]
    BY <1>2, <2>1
  <2>3. QED
    BY <1>1, <1>2, <1>3, <2>2
<1>6. k \in 1 .. n /\ q[k] \in Nat
  BY <1>1, <1>5
<1>7. ASSUME NEW u \in Nat
      PROVE  /\ q[k] + Window <= u => ~Limited(q, u)
             /\ ~(q[k] + Window <= u) => Limited(q, u)
  <2>1. PICK y \in 0 .. n :
          /\ \A i \in 1 .. n : i <= y <=> q[i] + Window <= u
          /\ Len(Young(q, u)) = n - y
    BY YoungIs DEF n
  <2>2. k <= y <=> q[k] + Window <= u
    BY <1>6, <2>1
  <2>3. k <= y <=> ~(n - y >= MaxEvents)
    BY <1>1, <2>1
  <2>4. QED
    BY <2>1, <2>2, <2>3 DEF Limited
<1>8. RetryAfter(q, t) = q[k] + Window + 1 - t
  BY <1>4, <1>5
<1> HIDE DEF k
<1>9. /\ t + RetryAfter(q, t) \in Nat /\ q[k] + Window <= t + RetryAfter(q, t)
      /\ t + RetryAfter(q, t) - 2 \in Nat /\ ~(q[k] + Window <= t + RetryAfter(q, t) - 2)
  <2>1. ASSUME NEW e \in Nat, NEW w \in Nat, w > 0, NEW r, r = e + w + 1 - t
        PROVE  t + r \in Nat /\ e + w <= t + r /\ t + r - 2 \in Nat /\ ~(e + w <= t + r - 2)
    BY <2>1
  <2>2. QED
    BY <1>1, <1>6, <1>8, <2>1, Zenon
<1>10. ~Limited(q, t + RetryAfter(q, t)) /\ Limited(q, t + RetryAfter(q, t) - 2)
  BY <1>7, <1>9
<1>11. QED
  BY <1>10

-----------------------------------------------------------------------------
(* The limiter.                                                            *)

EventsTypeOK == now \in Nat /\ events \in [Address -> Seq(Nat)] /\ recent \in [Address -> Seq(Nat)]

(* The failures an address is held to are the young ones of its deque,     *)
(* whenever it was pruned last: the deque is in order and what it has lost *)
(* was too old.                                                            *)
LimitInv ==
    /\ EventsTypeOK
    /\ \A a \in Address :
          /\ Sorted(events[a])
          /\ \A i \in 1 .. Len(events[a]) : events[a][i] <= now
          /\ recent[a] = Young(events[a], now)
          /\ Len(recent[a]) <= MaxEvents
    /\ IsFiniteSet(Tracked(events)) /\ Cardinality(Tracked(events)) <= MaxKeys

LEMMA NothingTracked ==
    ASSUME NEW ev, \A a \in Address : ev[a] = <<>>
    PROVE  IsFiniteSet(Tracked(ev)) /\ Cardinality(Tracked(ev)) <= MaxKeys
<1>1. Tracked(ev) = {}
  BY DEF Tracked
<1>2. QED
  BY <1>1, GuardAssumption, FS_EmptySet

(* The address that is hit gets its room: what is kept of the others is    *)
(* untouched, pruned or, to make room, gone.                               *)
LEMMA RoomMade ==
    ASSUME LimitInv, NEW a \in Address, NEW ev \in MakeRoom(Prune(events, a), a)
    PROVE  /\ DOMAIN ev = Address
           /\ ev[a] = Young(events[a], now)
           /\ \A b \in Address : ev[b] \in {events[b], Young(events[b], now), <<>>}
           /\ IsFiniteSet(Tracked(ev) \cup {a}) /\ Cardinality(Tracked(ev) \cup {a}) <= MaxKeys
<1> DEFINE old == Prune(events, a)
           swept == Sweep(old)
<1>1. MaxKeys \in Nat /\ now \in Nat /\ events \in [Address -> Seq(Nat)]
  BY GuardAssumption DEF LimitInv, EventsTypeOK
<1>2. /\ DOMAIN old = Address /\ old[a] = Young(events[a], now)
      /\ \A b \in Address : old[b] \in {events[b], Young(events[b], now)}
  BY <1>1 DEF Prune
<1>3. ASSUME NEW b \in Address PROVE Young(events[b], now) = Young(Young(events[b], now), now)
  BY <1>1, YoungYoung DEF LimitInv
<1>4. /\ DOMAIN swept = Address
      /\ \A b \in Address : swept[b] = Young(old[b], now) /\ swept[b] = Young(events[b], now)
  BY <1>2, <1>3 DEF Sweep
<1>5. Young(<<>>, now) = <<>>
  BY <1>1, YoungEmpty
<1>6. Tracked(old) \subseteq Tracked(events) /\ Tracked(swept) \subseteq Tracked(old)
  <2>1. \A b \in Address : events[b] = <<>> => old[b] = <<>>
    BY <1>2, <1>5
  <2>2. \A b \in Address : old[b] = <<>> => swept[b] = <<>>
    BY <1>4, <1>5
  <2>3. QED
    BY <2>1, <2>2 DEF Tracked
<1>7. ASSUME NEW T \in SUBSET Tracked(events)
      PROVE  IsFiniteSet(T) /\ Cardinality(T) \in Nat /\ Cardinality(T) <= MaxKeys
  <2>1. /\ IsFiniteSet(Tracked(events)) /\ Cardinality(Tracked(events)) <= MaxKeys
        /\ IsFiniteSet(T) /\ Cardinality(T) <= Cardinality(Tracked(events))
    BY FS_Subset DEF LimitInv
  <2>2. Cardinality(T) \in Nat /\ Cardinality(Tracked(events)) \in Nat
    BY <2>1, FS_CardinalityType
  <2>3. QED
    BY <1>1, <2>1, <2>2
<1>8. ASSUME NEW T \in SUBSET Tracked(events), a \in T \/ Cardinality(T) < MaxKeys
      PROVE  IsFiniteSet(T \cup {a}) /\ Cardinality(T \cup {a}) <= MaxKeys
  <2>1. /\ IsFiniteSet(T \cup {a})
        /\ Cardinality(T \cup {a}) = IF a \in T THEN Cardinality(T) ELSE Cardinality(T) + 1
    BY <1>7, FS_AddElement
  <2>2. QED
    BY <1>1, <1>7, <1>8, <2>1
<1> HIDE DEF old, swept
<1>9. CASE a \in Tracked(old) \/ Cardinality(Tracked(old)) < MaxKeys
  <2>1. ev = old
    BY <1>9 DEF MakeRoom, old
  <2>2. QED
    BY <1>2, <1>6, <1>8, <1>9, <2>1
<1>10. CASE /\ ~(a \in Tracked(old) \/ Cardinality(Tracked(old)) < MaxKeys)
            /\ Cardinality(Tracked(swept)) < MaxKeys
  <2>1. ev = swept
    BY <1>10 DEF MakeRoom, old, swept
  <2>2. QED
    BY <1>4, <1>6, <1>8, <1>10, <2>1
<1>11. CASE /\ ~(a \in Tracked(old) \/ Cardinality(Tracked(old)) < MaxKeys)
            /\ ~(Cardinality(Tracked(swept)) < MaxKeys)
  <2>1. PICK b \in Stalest(swept) : ev = [swept EXCEPT ![b] = <<>>]
    BY <1>11 DEF MakeRoom, old, swept
  <2>2. b \in Tracked(swept) /\ b \in Address /\ a # b
    BY <1>6, <1>11, <2>1 DEF Stalest, Tracked
  <2>3. /\ DOMAIN ev = Address /\ ev[a] = Young(events[a], now)
        /\ \A c \in Address : ev[c] \in {Young(events[c], now), <<>>}
    BY <1>4, <2>1, <2>2
  <2>4. Tracked(ev) = Tracked(swept) \ {b}
    BY <1>4, <2>1, <2>2 DEF Tracked
  <2>5. Cardinality(Tracked(ev)) < MaxKeys /\ Tracked(ev) \subseteq Tracked(events)
    <3>1. /\ IsFiniteSet(Tracked(swept)) /\ Cardinality(Tracked(swept)) \in Nat
          /\ Cardinality(Tracked(swept)) <= MaxKeys
      BY <1>6, <1>7
    <3>2. Cardinality(Tracked(swept) \ {b}) = Cardinality(Tracked(swept)) - 1
      BY <2>2, <3>1, FS_RemoveElement
    <3>3. QED
      BY <1>1, <1>6, <2>4, <3>1, <3>2
  <2>6. QED
    BY <1>8, <2>3, <2>5
<1>12. QED
  BY <1>9, <1>10, <1>11

LEMMA LimitInitInv == GuardInit => LimitInv
<1> SUFFICES ASSUME GuardInit PROVE LimitInv
  OBVIOUS
<1>1. <<>> \in Seq(Nat) /\ Len(<<>>) = 0 /\ Sorted(<<>>)
  BY EmptySeq DEF Sorted
<1>2. now = 1 /\ events = [a \in Address |-> <<>>] /\ recent = [a \in Address |-> <<>>]
  BY DEF GuardInit
<1>3. Young(<<>>, 1) = <<>>
  BY YoungEmpty
<1>4. MaxEvents \in Nat
  BY GuardAssumption
<1>5. EventsTypeOK
  BY <1>1, <1>2 DEF EventsTypeOK
<1>6. IsFiniteSet(Tracked(events)) /\ Cardinality(Tracked(events)) <= MaxKeys
  BY <1>2, NothingTracked
<1>7. QED
  BY <1>1, <1>2, <1>3, <1>4, <1>5, <1>6 DEF LimitInv

LEMMA HitKeeps ==
    ASSUME LimitInv, NEW a \in Address, ~Limited(events[a], now), Hit(a), now' = now
    PROVE  LimitInv'
<1>1. PICK ev \in MakeRoom(Prune(events, a), a) :
         /\ events' = [ev EXCEPT ![a] = Append(@, now)]
         /\ recent' = [b \in Address |->
                          IF b = a THEN Append(recent[a], now)
                          ELSE IF ev[b] = <<>> THEN <<>> ELSE recent[b]]
  BY DEF Hit
<1>2. /\ DOMAIN ev = Address /\ ev[a] = Young(events[a], now)
      /\ \A b \in Address : ev[b] \in {events[b], Young(events[b], now), <<>>}
      /\ IsFiniteSet(Tracked(ev) \cup {a}) /\ Cardinality(Tracked(ev) \cup {a}) <= MaxKeys
  BY <1>1, RoomMade
<1>3. /\ MaxEvents \in Nat /\ now \in Nat
      /\ events \in [Address -> Seq(Nat)] /\ recent \in [Address -> Seq(Nat)]
  BY GuardAssumption DEF LimitInv, EventsTypeOK
<1>4. ASSUME NEW b \in Address
      PROVE  /\ Young(events[b], now) \in Seq(Nat) /\ Sorted(Young(events[b], now))
             /\ \A i \in 1 .. Len(Young(events[b], now)) : Young(events[b], now)[i] <= now
             /\ Young(Young(events[b], now), now) = Young(events[b], now)
  <2>1. events[b] \in Seq(Nat) /\ Sorted(events[b])
        /\ \A i \in 1 .. Len(events[b]) : events[b][i] <= now
    BY <1>3 DEF LimitInv
  <2>2. QED
    BY <1>3, <2>1, YoungStays
<1> DEFINE Fits(q, r) ==
      /\ q \in Seq(Nat) /\ r \in Seq(Nat) /\ Sorted(q)
      /\ \A i \in 1 .. Len(q) : q[i] <= now
      /\ r = Young(q, now) /\ Len(r) <= MaxEvents
<1>5. Fits(events'[a], recent'[a])
  <2> DEFINE p == Young(events[a], now)
  <2>1. p \in Seq(Nat) /\ Sorted(p) /\ (\A i \in 1 .. Len(p) : p[i] <= now) /\ Young(p, now) = p
    BY <1>4
  <2>2. events'[a] = Append(p, now) /\ recent'[a] = Append(p, now) /\ recent[a] = p
    BY <1>1, <1>2 DEF LimitInv
  <2>3. Len(p) \in Nat /\ Len(p) + 1 <= MaxEvents
    <3>1. ~(Len(p) >= MaxEvents)
      BY DEF Limited
    <3>2. Len(p) \in Nat
      BY <2>1, LenProperties
    <3>3. QED
      BY <1>3, <3>1, <3>2
  <2> HIDE DEF p
  <2>4. /\ Append(p, now) \in Seq(Nat) /\ Sorted(Append(p, now)) /\ Len(Append(p, now)) = Len(p) + 1
        /\ \A i \in 1 .. Len(p) + 1 : Append(p, now)[i] <= now
        /\ Young(Append(p, now), now) = Append(p, now)
    BY <1>3, <2>1, YoungAppend
  <2>5. QED
    BY <2>2, <2>3, <2>4
<1>6. ASSUME NEW b \in Address, b # a PROVE Fits(events'[b], recent'[b])
  <2>1. events'[b] = ev[b] /\ recent'[b] = IF ev[b] = <<>> THEN <<>> ELSE recent[b]
    BY <1>1, <1>2, <1>6
  <2>2. /\ recent[b] = Young(events[b], now) /\ Len(recent[b]) <= MaxEvents /\ recent[b] \in Seq(Nat)
        /\ events[b] \in Seq(Nat) /\ Sorted(events[b])
        /\ \A i \in 1 .. Len(events[b]) : events[b][i] <= now
    BY <1>3 DEF LimitInv
  <2>3. CASE ev[b] = <<>>
    <3>1. <<>> \in Seq(Nat) /\ Len(<<>>) = 0 /\ Sorted(<<>>) /\ Young(<<>>, now) = <<>>
      BY <1>3, EmptySeq, YoungEmpty DEF Sorted
    <3>2. events'[b] = <<>> /\ recent'[b] = <<>>
      BY <2>1, <2>3
    <3>3. QED
      BY <1>3, <3>1, <3>2
  <2>4. CASE ev[b] # <<>> /\ ev[b] = events[b]
    BY <2>1, <2>2, <2>4
  <2>5. CASE ev[b] # <<>> /\ ev[b] = Young(events[b], now)
    BY <1>4, <2>1, <2>2, <2>5
  <2>6. QED
    BY <1>2, <2>3, <2>4, <2>5
<1>7. \A b \in Address : Fits(events'[b], recent'[b])
  BY <1>5, <1>6
<1>8. Tracked(events)' \subseteq Tracked(ev) \cup {a}
  BY <1>1, <1>2 DEF Tracked
<1>9. IsFiniteSet(Tracked(events))' /\ (Cardinality(Tracked(events)) <= MaxKeys)'
  <2>1. /\ IsFiniteSet(Tracked(events)') /\ IsFiniteSet(Tracked(ev) \cup {a})
        /\ Cardinality(Tracked(events)') <= Cardinality(Tracked(ev) \cup {a})
    BY <1>2, <1>8, FS_Subset
  <2>2. Cardinality(Tracked(events)') \in Nat /\ Cardinality(Tracked(ev) \cup {a}) \in Nat
    BY <2>1, FS_CardinalityType
  <2>3. MaxKeys \in Nat
    BY GuardAssumption
  <2>4. QED
    BY <1>2, <2>1, <2>2, <2>3
<1>10. EventsTypeOK'
  <2>1. events' = [b \in Address |-> events'[b]] /\ recent' = [b \in Address |-> recent'[b]]
    BY <1>1, <1>2
  <2>2. QED
    BY <1>3, <1>7, <2>1 DEF EventsTypeOK
<1>11. QED
  BY <1>7, <1>9, <1>10 DEF LimitInv

LEMMA PruneKeeps ==
    ASSUME LimitInv, NEW a \in Address, events' = Prune(events, a), UNCHANGED <<now, recent>>
    PROVE  LimitInv'
<1>1. now \in Nat /\ events \in [Address -> Seq(Nat)] /\ recent \in [Address -> Seq(Nat)]
  BY DEF LimitInv, EventsTypeOK
<1> DEFINE p == Young(events[a], now)
<1>2. /\ p \in Seq(Nat) /\ Sorted(p) /\ (\A i \in 1 .. Len(p) : p[i] <= now)
      /\ Young(p, now) = p
  <2>1. events[a] \in Seq(Nat) /\ Sorted(events[a])
        /\ \A i \in 1 .. Len(events[a]) : events[a][i] <= now
    BY <1>1 DEF LimitInv
  <2>2. QED
    BY <1>1, <2>1, YoungStays
<1>3. events' = [events EXCEPT ![a] = p]
  BY DEF Prune
<1>4. recent[a] = p
  BY DEF LimitInv
<1>5. Tracked(events)' \subseteq Tracked(events)
  <2>1. ASSUME events[a] = <<>> PROVE p = <<>>
    BY <1>1, <2>1, YoungEmpty
  <2> HIDE DEF p
  <2>2. QED
    BY <1>1, <1>3, <2>1 DEF Tracked
<1> HIDE DEF p
<1>6. IsFiniteSet(Tracked(events))' /\ (Cardinality(Tracked(events)) <= MaxKeys)'
  <2>1. /\ IsFiniteSet(Tracked(events)') /\ IsFiniteSet(Tracked(events))
        /\ Cardinality(Tracked(events)') <= Cardinality(Tracked(events))
    BY <1>5, FS_Subset DEF LimitInv
  <2>2. Cardinality(Tracked(events)') \in Nat /\ Cardinality(Tracked(events)) \in Nat
    BY <2>1, FS_CardinalityType
  <2>3. MaxKeys \in Nat /\ Cardinality(Tracked(events)) <= MaxKeys
    BY GuardAssumption DEF LimitInv
  <2>4. QED
    BY <2>1, <2>2, <2>3
<1>7. EventsTypeOK'
  BY <1>1, <1>2, <1>3 DEF EventsTypeOK
<1>8. ASSUME NEW b \in Address
      PROVE  /\ Sorted(events'[b])
             /\ \A i \in 1 .. Len(events'[b]) : events'[b][i] <= now
             /\ recent[b] = Young(events'[b], now)
             /\ Len(recent[b]) <= MaxEvents
  <2>1. CASE b = a
    <3>1. events'[b] = p /\ recent[b] = p
      BY <1>1, <1>3, <1>4, <2>1
    <3>2. Len(recent[b]) <= MaxEvents
      BY DEF LimitInv
    <3>3. QED
      BY <1>2, <3>1, <3>2
  <2>2. CASE b # a
    <3>1. events'[b] = events[b]
      BY <1>1, <1>3, <2>2
    <3>2. QED
      BY <3>1 DEF LimitInv
  <2>3. QED
    BY <2>1, <2>2
<1>9. QED
  BY <1>6, <1>7, <1>8 DEF LimitInv

LEMMA LimitStep == LimitInv /\ [GuardNext]_guardVars => LimitInv'
<1> SUFFICES ASSUME LimitInv, [GuardNext]_guardVars PROVE LimitInv'
  OBVIOUS
<1>1. ASSUME NEW a \in Address, NEW u \in Login, Passes(a, u) PROVE LimitInv'
  BY <1>1, PruneKeeps DEF Passes
<1>2. ASSUME NEW a \in Address, NEW u \in Login, Fails(a, u) PROVE LimitInv'
  BY <1>2, HitKeeps DEF Fails
<1>3. ASSUME NEW a \in Address, Refused(a) PROVE LimitInv'
  BY <1>3, PruneKeeps DEF Refused
<1>4. ASSUME NEW a \in Address, FailsUnknown(a) PROVE LimitInv'
  BY <1>4, HitKeeps DEF FailsUnknown
<1>5. CASE Tick
  <2>1. /\ now' = now + 1 /\ events' = events
        /\ recent' = [a \in Address |-> Within(recent[a], now + 1)]
    BY <1>5 DEF Tick
  <2>2. /\ now \in Nat /\ now + 1 \in Nat /\ MaxEvents \in Nat
        /\ events \in [Address -> Seq(Nat)] /\ recent \in [Address -> Seq(Nat)]
    BY GuardAssumption DEF LimitInv, EventsTypeOK
  <2>3. ASSUME NEW a \in Address
        PROVE  /\ Within(recent[a], now + 1) = Young(events[a], now + 1)
               /\ Within(recent[a], now + 1) \in Seq(Nat)
               /\ Len(Within(recent[a], now + 1)) <= MaxEvents
               /\ Sorted(events[a]) /\ \A i \in 1 .. Len(events[a]) : events[a][i] <= now + 1
    <3>1. /\ events[a] \in Seq(Nat) /\ Sorted(events[a])
          /\ \A i \in 1 .. Len(events[a]) : events[a][i] <= now
          /\ recent[a] \in Seq(Nat)
          /\ recent[a] = Young(events[a], now) /\ Len(recent[a]) <= MaxEvents
      BY <2>2 DEF LimitInv
    <3>2. Sorted(recent[a])
      BY <2>2, <3>1, YoungSorted
    <3>3. Within(recent[a], now + 1) = Young(recent[a], now + 1)
      BY <2>2, <3>1, <3>2, ExpiredCounts DEF Within, Young
    <3>4. Young(recent[a], now + 1) = Young(events[a], now + 1)
      BY <2>2, <3>1, YoungYoung
    <3>5. Young(recent[a], now + 1) \in Seq(Nat) /\ Len(Young(recent[a], now + 1)) <= Len(recent[a])
      BY <2>2, <3>1, <3>2, YoungSorted
    <3>6. Len(Within(recent[a], now + 1)) \in Nat /\ Len(recent[a]) \in Nat
      BY <3>1, <3>3, <3>5, LenProperties
    <3>7. Len(Within(recent[a], now + 1)) <= MaxEvents
      BY <2>2, <3>1, <3>3, <3>5, <3>6
    <3>8. \A i \in 1 .. Len(events[a]) : events[a][i] <= now + 1
      <4>1. \A i \in 1 .. Len(events[a]) : events[a][i] \in Nat
        BY <3>1, ElementOfSeq
      <4>2. QED
        BY <2>2, <3>1, <4>1
    <3>9. QED
      BY <3>1, <3>3, <3>4, <3>5, <3>7, <3>8
  <2>4. EventsTypeOK'
    BY <2>1, <2>2, <2>3 DEF EventsTypeOK
  <2>5. (IsFiniteSet(Tracked(events)) /\ Cardinality(Tracked(events)) <= MaxKeys)'
    BY <2>1 DEF LimitInv, Tracked
  <2>6. QED
    BY <2>1, <2>3, <2>4, <2>5 DEF LimitInv
<1>6. CASE Restart
  <2>1. events' = [a \in Address |-> <<>>] /\ recent' = [a \in Address |-> <<>>] /\ now' = now
    BY <1>6 DEF Restart
  <2>2. <<>> \in Seq(Nat) /\ Len(<<>>) = 0 /\ Sorted(<<>>) /\ now \in Nat /\ MaxEvents \in Nat
    BY GuardAssumption, EmptySeq DEF Sorted, LimitInv, EventsTypeOK
  <2>3. Young(<<>>, now) = <<>>
    BY <2>2, YoungEmpty
  <2>4. EventsTypeOK'
    BY <2>1, <2>2 DEF EventsTypeOK
  <2>5. IsFiniteSet(Tracked(events')) /\ Cardinality(Tracked(events')) <= MaxKeys
    BY <2>1, NothingTracked
  <2>6. QED
    BY <2>1, <2>2, <2>3, <2>4, <2>5 DEF LimitInv, Tracked
<1>7. CASE UNCHANGED guardVars
  BY <1>7 DEF guardVars, limitVars, LimitInv, EventsTypeOK, Tracked
<1>8. QED
  BY <1>1, <1>2, <1>3, <1>4, <1>5, <1>6, <1>7 DEF GuardNext

(* However failures, refusals, the making of room and the passing of time  *)
(* mix, an address is refused exactly when it has failed MaxEvents times   *)
(* within the window, and never fails more often: when its deque is pruned *)
(* makes no difference.                                                    *)
THEOREM LimiterCountsHolds == GuardSpec => []LimiterCounts
<1>1. LimitInv => LimiterCounts
  BY DEF LimitInv, LimiterCounts, Limited
<1>2. QED
  BY <1>1, LimitInitInv, LimitStep, PTL DEF GuardSpec

(* Whatever addresses fail, at most MaxKeys of them are remembered, and a  *)
(* refused address is told to wait long enough, by at most a tick too much.*)
THEOREM LimiterBoundedHolds == GuardSpec => []LimiterBounded
<1>1. LimitInv => LimiterBounded
  <2> SUFFICES ASSUME LimitInv PROVE LimiterBounded
    OBVIOUS
  <2>1. now \in Nat /\ events \in [Address -> Seq(Nat)] /\ Cardinality(Tracked(events)) <= MaxKeys
    BY DEF LimitInv, EventsTypeOK
  <2>2. ASSUME NEW a \in Address, Limited(events[a], now)
        PROVE  /\ ~Limited(events[a], now + RetryAfter(events[a], now))
               /\ RetryAfter(events[a], now) > 1
                     => Limited(events[a], now + RetryAfter(events[a], now) - 2)
    <3>1. events[a] \in Seq(Nat) /\ Sorted(events[a])
      BY <2>1 DEF LimitInv
    <3>2. QED
      BY <2>1, <2>2, <3>1, RetryIsEnough
  <2>3. QED
    BY <2>1, <2>2 DEF LimiterBounded
<1>2. QED
  BY <1>1, LimitInitInv, LimitStep, PTL DEF GuardSpec

-----------------------------------------------------------------------------
(* The keys.                                                               *)

KeyTypeOK ==
    /\ standing \in [Owner -> KeyRole \cup {"inactive", "gone"}]
    /\ owner \in [ApiKey -> Owner \cup {NoOwner}]
    /\ live \in [ApiKey -> BOOLEAN]
    /\ scopes \in [ApiKey -> SUBSET Scope]
    /\ revoking \subseteq [by : Owner, on : ApiKey, admin : BOOLEAN]

(* WorkIsEarned speaks of the owner's role of the moment; what a step      *)
(* needs is what the scopes of a key say, whoever its owner is by now.     *)
KeyInv ==
    /\ KeyTypeOK
    /\ \A k \in ApiKey : live[k] => owner[k] # NoOwner
    /\ \A k \in ApiKey \ earned : "*" \notin scopes[k] /\ WorkerScope \notin scopes[k]

LEMMA KeysInitInv == KeysInit => KeyInv
<1> SUFFICES ASSUME KeysInit PROVE KeyInv
  OBVIOUS
<1>1. PICK old \in [ApiKey -> Owner \cup {NoOwner}] :
         owner = old /\ live = [k \in ApiKey |-> old[k] # NoOwner]
  BY DEF KeysInit
<1>2. QED
  BY <1>1 DEF KeysInit, KeyInv, KeyTypeOK

(* Only a worker role grants the scopes that a worker needs.               *)
LEMMA GrantedScopes ==
    ASSUME NEW r, NEW S, r \notin WorkerRole, \A s \in S : MayGrant(r, s)
    PROVE  "*" \notin S /\ WorkerScope \notin S
BY DEF MayGrant, WorkerRole, WorkerScope

LEMMA KeysStep == KeyInv /\ [KeysNext]_keyVars => KeyInv'
<1> SUFFICES ASSUME KeyInv, [KeysNext]_keyVars PROVE KeyInv'
  OBVIOUS
<1> USE DEF KeyInv, KeyTypeOK
<1>1. ASSUME NEW u \in Owner, NEW k \in ApiKey, NEW S \in SUBSET Scope, CreateKey(u, k, S)
      PROVE  KeyInv'
  <2> DEFINE T == IF S = {} THEN {"read"} ELSE S
  <2>1. T \in SUBSET Scope
    BY ScopeAssumption
  <2>2. standing[u] \notin WorkerRole => "*" \notin T /\ WorkerScope \notin T
    BY <1>1, GrantedScopes DEF CreateKey, WorkerScope
  <2>3. /\ owner' = [owner EXCEPT ![k] = u]
        /\ live' = [live EXCEPT ![k] = TRUE]
        /\ scopes' = [scopes EXCEPT ![k] = T]
        /\ earned' = IF standing[u] \in WorkerRole THEN earned \cup {k} ELSE earned
        /\ UNCHANGED <<standing, revoking>>
    BY <1>1 DEF CreateKey
  <2> HIDE DEF T
  <2>4. u # NoOwner
    BY ScopeAssumption
  <2>5. KeyTypeOK'
    BY <2>1, <2>3
  <2>6. \A j \in ApiKey : live'[j] => owner'[j] # NoOwner
    BY <2>3, <2>4
  <2>7. \A j \in ApiKey \ earned' : "*" \notin scopes'[j] /\ WorkerScope \notin scopes'[j]
    BY <2>2, <2>3
  <2>8. QED
    BY <2>5, <2>6, <2>7 DEF WorkerScope
<1>2. ASSUME NEW k \in ApiKey, KeyExpires(k) PROVE KeyInv'
  BY <1>2 DEF KeyExpires, WorkerScope
<1>3. ASSUME NEW u \in Owner, NEW k \in ApiKey, RevokeAsked(u, k) PROVE KeyInv'
  <2> DEFINE b == standing[u] = "admin"
  <2>1. b \in BOOLEAN
    OBVIOUS
  <2>2. revoking' = revoking \cup {[by |-> u, on |-> k, admin |-> b]}
    BY <1>3 DEF RevokeAsked
  <2> HIDE DEF b
  <2>3. revoking' \subseteq [by : Owner, on : ApiKey, admin : BOOLEAN]
    BY <2>1, <2>2
  <2>4. QED
    BY <1>3, <2>3 DEF RevokeAsked, WorkerScope
<1>4. ASSUME NEW q \in revoking, RevokeKey(q) PROVE KeyInv'
  BY <1>4 DEF RevokeKey, WorkerScope
<1>5. ASSUME NEW u \in Owner, NEW s \in KeyRole \cup {"inactive", "gone"}, StandingChanges(u, s)
      PROVE  KeyInv'
  BY <1>5 DEF StandingChanges, WorkerScope
<1>6. CASE UNCHANGED keyVars
  BY <1>6 DEF keyVars, WorkerScope
<1> HIDE DEF KeyInv
<1>7. QED
  BY <1>1, <1>2, <1>3, <1>4, <1>5, <1>6 DEF KeysNext

LEMMA KeyInvHolds == KeysSpec => []KeyInv
BY KeysInitInv, KeysStep, PTL DEF KeysSpec

(* No sequence of promotions, demotions, deletions and new keys turns a    *)
(* key that was made without a worker role into a worker's.                *)
THEOREM WorkIsEarnedHolds == KeysSpec => []WorkIsEarned
<1>1. KeyInv => WorkIsEarned
  BY DEF KeyInv, KeyTypeOK, WorkIsEarned, MayWork, Authenticates, Grants, Unscoped
<1>2. QED
  BY <1>1, KeyInvHolds, PTL

(* One step of anybody revives no dead key, and ends another user's only   *)
(* at the word of an admin.                                                *)
LEMMA DeadStep ==
    ASSUME KeyInv, [KeysNext]_keyVars, NEW k \in ApiKey
    PROVE  /\ owner[k] # NoOwner /\ (~live[k] \/ standing[owner[k]] = "gone")
                => ~Authenticates(k)'
           /\ live[k] /\ ~live'[k] /\ revoking' # revoking
                => \E q \in revoking : q.on = k /\ (q.by = owner[k] \/ q.admin)
<1> USE DEF KeyInv, KeyTypeOK, Authenticates, Active
<1>1. ASSUME NEW u \in Owner, NEW j \in ApiKey, NEW S \in SUBSET Scope, CreateKey(u, j, S)
      PROVE  /\ owner[k] # NoOwner => k # j
             /\ \A i \in ApiKey \ {j} : owner'[i] = owner[i] /\ live'[i] = live[i]
             /\ live'[j] /\ UNCHANGED standing
  BY <1>1 DEF CreateKey
<1>2. CASE \E u \in Owner, j \in ApiKey, S \in SUBSET Scope : CreateKey(u, j, S)
  BY <1>1, <1>2
<1>3. CASE \E j \in ApiKey : KeyExpires(j)
  BY <1>3 DEF KeyExpires
<1>4. CASE \E u \in Owner, j \in ApiKey : RevokeAsked(u, j)
  BY <1>4 DEF RevokeAsked
<1>5. CASE \E q \in revoking : RevokeKey(q)
  <2>1. PICK q \in revoking : RevokeKey(q)
    BY <1>5
  <2>2. UNCHANGED <<standing, owner>> /\ (live[k] /\ ~live'[k] => Hits(q) /\ q.on = k) /\ (~live[k] => ~live'[k])
    BY <2>1 DEF RevokeKey
  <2>3. QED
    BY <2>2 DEF Hits
<1>6. CASE \E u \in Owner, s \in KeyRole \cup {"inactive", "gone"} : StandingChanges(u, s)
  BY <1>6 DEF StandingChanges
<1>7. CASE UNCHANGED keyVars
  BY <1>7 DEF keyVars
<1>8. QED
  BY <1>2, <1>3, <1>4, <1>5, <1>6, <1>7 DEF KeysNext

(* A key that was revoked, has expired or has lost its owner's account is  *)
(* refused for good, and nobody but its owner and admins revokes it.       *)
THEOREM DeadKeysStayDeadHolds == KeysSpec => DeadKeysStayDead
<1>1. KeyInv /\ [KeysNext]_keyVars =>
        \A k \in ApiKey :
          /\ owner[k] # NoOwner /\ (~live[k] \/ standing[owner[k]] = "gone")
                => ~Authenticates(k)'
          /\ live[k] /\ ~live'[k] /\ revoking' # revoking
                => \E q \in revoking : q.on = k /\ (q.by = owner[k] \/ q.admin)
  BY DeadStep
<1>2. QED
  BY <1>1, KeyInvHolds, PTL DEF KeysSpec, DeadKeysStayDead

=============================================================================
