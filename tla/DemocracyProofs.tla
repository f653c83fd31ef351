-------------------------- MODULE DemocracyProofs ---------------------------
(***************************************************************************)
(* Proofs about Democracy, for every set of accounts, assets and           *)
(* proposals, any number of referenda and any votes and delegations.  The  *)
(* calls fall into two classes: those on the queues, on preimages and on   *)
(* referenda, and begin_block, which touch neither votes nor locks         *)
(* (Quiet), and those on votes and delegations, which correct the tallies. *)
(* Then the stages of the referenda, which map to Referendum; the exact    *)
(* comparison of fractions; the deposits on hold, call by call; and the    *)
(* decision on a referendum, which needs all of these.                     *)
(***************************************************************************)
EXTENDS Democracy, SumProofs, SequenceTheorems

-----------------------------------------------------------------------------
(* The currencies: only votes and delegations touch a lock.                *)

IsEntry(e) == e = [free |-> e.free, reserved |-> e.reserved, frozen |-> e.frozen]

IsLaidOut(l) ==
    /\ l = [a \in AssetIds |-> [who \in Accounts |-> l[a][who]]]
    /\ \A a \in AssetIds, who \in Accounts : IsEntry(l[a][who])

SameLocks(l, m) ==
    /\ IsLaidOut(m)
    /\ \A a \in AssetIds, who \in Accounts : m[a][who].frozen = l[a][who].frozen

LEMMA SameLocksTwice ==
    ASSUME NEW l, NEW k, NEW m, SameLocks(l, k), SameLocks(k, m)
    PROVE  SameLocks(l, m)
BY DEF SameLocks

LEMMA EntryFields ==
    ASSUME NEW e, IsEntry(e), NEW n
    PROVE  /\ IsEntry([e EXCEPT !.free = n]) /\ [e EXCEPT !.free = n].frozen = e.frozen
           /\ IsEntry([e EXCEPT !.reserved = n]) /\ [e EXCEPT !.reserved = n].frozen = e.frozen
           /\ IsEntry([e EXCEPT !.frozen = n]) /\ [e EXCEPT !.frozen = n].frozen = n
BY DEF IsEntry

(* m is l with another entry.                                              *)
SetsEntry(l, a, who, e, m) == m = [l EXCEPT ![a] = [l[a] EXCEPT ![who] = e]]

LEMMA EntrySet ==
    ASSUME NEW l, IsLaidOut(l), NEW a \in AssetIds, NEW who \in Accounts, NEW e, IsEntry(e),
           NEW m, SetsEntry(l, a, who, e, m)
    PROVE  /\ IsLaidOut(m) /\ m[a][who] = e
           /\ \A b \in AssetIds, w \in Accounts : b # a \/ w # who => m[b][w] = l[b][w]
BY DEF IsLaidOut, SetsEntry

LEMMA NoSuchEntry ==
    ASSUME NEW l, IsLaidOut(l), NEW a, NEW who, a \notin AssetIds \/ who \notin Accounts,
           NEW e, NEW m, SetsEntry(l, a, who, e, m)
    PROVE  m = l
BY DEF IsLaidOut, SetsEntry

(* The free or the reserved part of an entry is set.                       *)
SetsFree(l, a, who, n, m) == m = [l EXCEPT ![a][who].free = n]
SetsReserved(l, a, who, n, m) == m = [l EXCEPT ![a][who].reserved = n]

LEMMA FreeKeepsLocks ==
    ASSUME NEW l, IsLaidOut(l), NEW a, NEW who, NEW n, NEW m, SetsFree(l, a, who, n, m)
    PROVE  SameLocks(l, m)
<1> DEFINE e == [l[a][who] EXCEPT !.free = n]
<1>1. SetsEntry(l, a, who, e, m)
  BY DEF SetsFree, SetsEntry
<1>2. CASE a \in AssetIds /\ who \in Accounts
  <2>1. IsEntry(e) /\ e.frozen = l[a][who].frozen
    <3>1. IsEntry(l[a][who])
      BY <1>2 DEF IsLaidOut
    <3> QED
      BY <3>1, EntryFields
  <2> HIDE DEF e
  <2>2. /\ IsLaidOut(m) /\ m[a][who] = e
        /\ \A b \in AssetIds, w \in Accounts : b # a \/ w # who => m[b][w] = l[b][w]
    BY <1>1, <1>2, <2>1, EntrySet
  <2> QED
    BY <2>1, <2>2 DEF SameLocks
<1>3. CASE a \notin AssetIds \/ who \notin Accounts
  <2> HIDE DEF e
  <2>1. m = l
    BY <1>1, <1>3, NoSuchEntry
  <2> QED
    BY <2>1 DEF SameLocks
<1> QED
  BY <1>2, <1>3

LEMMA ReservedKeepsLocks ==
    ASSUME NEW l, IsLaidOut(l), NEW a, NEW who, NEW n, NEW m, SetsReserved(l, a, who, n, m)
    PROVE  SameLocks(l, m)
<1> DEFINE e == [l[a][who] EXCEPT !.reserved = n]
<1>1. SetsEntry(l, a, who, e, m)
  BY DEF SetsReserved, SetsEntry
<1>2. CASE a \in AssetIds /\ who \in Accounts
  <2>1. IsEntry(e) /\ e.frozen = l[a][who].frozen
    <3>1. IsEntry(l[a][who])
      BY <1>2 DEF IsLaidOut
    <3> QED
      BY <3>1, EntryFields
  <2> HIDE DEF e
  <2>2. /\ IsLaidOut(m) /\ m[a][who] = e
        /\ \A b \in AssetIds, w \in Accounts : b # a \/ w # who => m[b][w] = l[b][w]
    BY <1>1, <1>2, <2>1, EntrySet
  <2> QED
    BY <2>1, <2>2 DEF SameLocks
<1>3. CASE a \notin AssetIds \/ who \notin Accounts
  <2> HIDE DEF e
  <2>1. m = l
    BY <1>1, <1>3, NoSuchEntry
  <2> QED
    BY <2>1 DEF SameLocks
<1> QED
  BY <1>2, <1>3

LEMMA LockSet ==
    ASSUME NEW l, IsLaidOut(l), NEW a \in AssetIds, NEW who \in Accounts, NEW n,
           NEW m, m = SetLock(l, a, who, n)
    PROVE  /\ IsLaidOut(m) /\ m[a][who].frozen = n
           /\ \A b \in AssetIds, w \in Accounts : b # a \/ w # who => m[b][w] = l[b][w]
<1> DEFINE e == [l[a][who] EXCEPT !.frozen = n]
<1>1. IsEntry(e) /\ e.frozen = n
  <2>1. IsEntry(l[a][who])
    BY DEF IsLaidOut
  <2> QED
    BY <2>1, EntryFields
<1>2. SetsEntry(l, a, who, e, m)
  BY DEF SetLock, SetsEntry
<1> HIDE DEF e
<1> QED
  BY <1>1, <1>2, EntrySet

(* Reserving, unreserving and paying out leave the locks alone, whoever    *)
(* is named.                                                               *)
LEMMA ReserveKeepsLocks ==
    ASSUME NEW l, IsLaidOut(l), NEW a, NEW who, NEW n
    PROVE  SameLocks(l, ReserveFunds(l, a, who, n))
<1> DEFINE k == [l EXCEPT ![a][who].free = l[a][who].free - n]
           m == [k EXCEPT ![a][who].reserved = k[a][who].reserved + n]
<1>1. SameLocks(l, k)
  BY FreeKeepsLocks DEF SetsFree
<1>2. SameLocks(k, m)
  <2>1. IsLaidOut(k)
    BY <1>1 DEF SameLocks
  <2> HIDE DEF k
  <2> QED
    BY <2>1, ReservedKeepsLocks DEF SetsReserved
<1>3. ReserveFunds(l, a, who, n) = m
  BY DEF ReserveFunds
<1> QED
  BY <1>1, <1>2, <1>3, SameLocksTwice

LEMMA UnreserveKeepsLocks ==
    ASSUME NEW l, IsLaidOut(l), NEW a, NEW who, NEW n
    PROVE  SameLocks(l, UnreserveFunds(l, a, who, n))
<1> DEFINE back == LesserOf(n, l[a][who].reserved)
           k == [l EXCEPT ![a][who].free = l[a][who].free + back]
           m == [k EXCEPT ![a][who].reserved = k[a][who].reserved - back]
<1> HIDE DEF back
<1>1. SameLocks(l, k)
  BY FreeKeepsLocks DEF SetsFree
<1>2. SameLocks(k, m)
  <2>1. IsLaidOut(k)
    BY <1>1 DEF SameLocks
  <2> HIDE DEF k
  <2> QED
    BY <2>1, ReservedKeepsLocks DEF SetsReserved
<1>3. UnreserveFunds(l, a, who, n) = m
  BY DEF UnreserveFunds, back
<1> QED
  BY <1>1, <1>2, <1>3, SameLocksTwice

LEMMA TransferHeldKeepsLocks ==
    ASSUME NEW l, IsLaidOut(l), NEW from, NEW to, NEW n
    PROVE  SameLocks(l, TransferHeld(l, from, to, n))
<1> DEFINE part == LesserOf(n, l[NativeAsset][from].reserved)
           k == [l EXCEPT ![NativeAsset][from].reserved = l[NativeAsset][from].reserved - part]
           m == [k EXCEPT ![NativeAsset][to].free = k[NativeAsset][to].free + part]
<1> HIDE DEF part
<1>1. SameLocks(l, k)
  BY ReservedKeepsLocks DEF SetsReserved
<1>2. SameLocks(k, m)
  <2>1. IsLaidOut(k)
    BY <1>1 DEF SameLocks
  <2> HIDE DEF k
  <2> QED
    BY <2>1, FreeKeepsLocks DEF SetsFree
<1>3. SameLocks(l, m)
  BY <1>1, <1>2, SameLocksTwice
<1>4. SameLocks(l, UnreserveFunds(l, NativeAsset, from, n))
  BY UnreserveKeepsLocks
<1>5. SameLocks(l, l)
  BY DEF SameLocks
<1>6. \/ TransferHeld(l, from, to, n) = m
      \/ TransferHeld(l, from, to, n) = UnreserveFunds(l, NativeAsset, from, n)
      \/ TransferHeld(l, from, to, n) = l
  <2>1. CASE from = to
    BY <2>1 DEF TransferHeld
  <2>2. CASE from # to /\ TotalBalance(l, NativeAsset, to) = 0
    BY <2>2 DEF TransferHeld
  <2>3. CASE from # to /\ TotalBalance(l, NativeAsset, to) # 0
    BY <2>3 DEF TransferHeld, part
  <2> QED
    BY <2>1, <2>2, <2>3
<1> QED
  BY <1>3, <1>4, <1>5, <1>6

-----------------------------------------------------------------------------
(* The recursions of the pallet have a solution.                           *)

Pays(g, l, whos, slash, amount, N) ==
    g = [k \in 0..N |-> IF k = 0 THEN l ELSE TransferHeld(g[k - 1], whos[k], IF slash THEN Treasury ELSE whos[k], amount)]

LEMMA PaysExists ==
    ASSUME NEW l, NEW whos, NEW slash, NEW amount, NEW N \in Nat
    PROVE  \E g : Pays(g, l, whos, slash, amount, N)
<1> DEFINE bad == {n \in Nat : ~ \E g : Pays(g, l, whos, slash, amount, n)}
<1>1. ASSUME ~ \E g : Pays(g, l, whos, slash, amount, N) PROVE FALSE
  <2>1. N \in bad
    BY <1>1
  <2>2. PICK n \in bad : \A m \in bad : n <= m
    BY <2>1, SmallestSize
  <2>3. n \in Nat /\ ~ \E g : Pays(g, l, whos, slash, amount, n)
    BY <2>2
  <2>4. n # 0
    <3> DEFINE g == [k \in 0..0 |-> l]
    <3>1. g = [k \in 0..0 |-> IF k = 0 THEN l ELSE TransferHeld(g[k - 1], whos[k], IF slash THEN Treasury ELSE whos[k], amount)]
      OBVIOUS
    <3>2. Pays(g, l, whos, slash, amount, 0)
      BY <3>1 DEF Pays
    <3> QED
      BY <2>3, <3>2
  <2>5. n - 1 \in Nat /\ n - 1 \notin bad
    <3> HIDE DEF bad
    <3> QED
      BY <2>2, <2>3, <2>4
  <2>6. PICK h : Pays(h, l, whos, slash, amount, n - 1)
    BY <2>5
  <2> DEFINE step(k, v) == TransferHeld(v, whos[k], IF slash THEN Treasury ELSE whos[k], amount)
             g == [k \in 0..n |-> IF k = n THEN step(n, h[n - 1]) ELSE h[k]]
  <2>7. ASSUME NEW k \in 0..(n - 1) PROVE h[k] = IF k = 0 THEN l ELSE step(k, h[k - 1])
    BY <2>6 DEF Pays
  <2>8. ASSUME NEW k \in 0..n PROVE g[k] = IF k = 0 THEN l ELSE step(k, g[k - 1])
    <3> HIDE DEF step
    <3>1. CASE k = n
      BY <2>3, <2>4, <3>1
    <3>2. CASE k # n
      <4>1. k \in 0..(n - 1) /\ g[k] = h[k]
        BY <2>3, <3>2
      <4>2. k # 0 => g[k - 1] = h[k - 1]
        BY <2>3, <4>1
      <4> QED
        BY <2>7, <4>1, <4>2
    <3> QED
      BY <3>1, <3>2
  <2>9. g = [k \in 0..n |-> g[k]]
    OBVIOUS
  <2> HIDE DEF g
  <2>10. Pays(g, l, whos, slash, amount, n)
    BY <2>8, <2>9 DEF Pays
  <2> QED
    BY <2>3, <2>10
<1> QED
  BY <1>1

Retains(g, s, keep, N) ==
    g = [k \in 0..N |-> IF k = 0 THEN <<>> ELSE (IF k \in keep THEN Append(g[k - 1], s[k]) ELSE g[k - 1])]

LEMMA RetainsExists ==
    ASSUME NEW s, NEW keep, NEW N \in Nat
    PROVE  \E g : Retains(g, s, keep, N)
<1> DEFINE bad == {n \in Nat : ~ \E g : Retains(g, s, keep, n)}
<1>1. ASSUME ~ \E g : Retains(g, s, keep, N) PROVE FALSE
  <2>1. N \in bad
    BY <1>1
  <2>2. PICK n \in bad : \A m \in bad : n <= m
    BY <2>1, SmallestSize
  <2>3. n \in Nat /\ ~ \E g : Retains(g, s, keep, n)
    BY <2>2
  <2>4. n # 0
    <3> DEFINE g == [k \in 0..0 |-> <<>>]
    <3>1. g = [k \in 0..0 |-> IF k = 0 THEN <<>> ELSE (IF k \in keep THEN Append(g[k - 1], s[k]) ELSE g[k - 1])]
      OBVIOUS
    <3>2. Retains(g, s, keep, 0)
      BY <3>1 DEF Retains
    <3> QED
      BY <2>3, <3>2
  <2>5. n - 1 \in Nat /\ n - 1 \notin bad
    <3> HIDE DEF bad
    <3> QED
      BY <2>2, <2>3, <2>4
  <2>6. PICK h : Retains(h, s, keep, n - 1)
    BY <2>5
  <2> DEFINE step(k, v) == (IF k \in keep THEN Append(v, s[k]) ELSE v)
             g == [k \in 0..n |-> IF k = n THEN step(n, h[n - 1]) ELSE h[k]]
  <2>7. ASSUME NEW k \in 0..(n - 1) PROVE h[k] = IF k = 0 THEN <<>> ELSE step(k, h[k - 1])
    BY <2>6 DEF Retains
  <2>8. ASSUME NEW k \in 0..n PROVE g[k] = IF k = 0 THEN <<>> ELSE step(k, g[k - 1])
    <3> HIDE DEF step
    <3>1. CASE k = n
      BY <2>3, <2>4, <3>1
    <3>2. CASE k # n
      <4>1. k \in 0..(n - 1) /\ g[k] = h[k]
        BY <2>3, <3>2
      <4>2. k # 0 => g[k - 1] = h[k - 1]
        BY <2>3, <4>1
      <4> QED
        BY <2>7, <4>1, <4>2
    <3> QED
      BY <3>1, <3>2
  <2>9. g = [k \in 0..n |-> g[k]]
    OBVIOUS
  <2> HIDE DEF g
  <2>10. Retains(g, s, keep, n)
    BY <2>8, <2>9 DEF Retains
  <2> QED
    BY <2>3, <2>10
<1> QED
  BY <1>1

Enacts(g, chain, entries, due, N) ==
    g = [k \in 0..N |-> IF k = 0 THEN chain ELSE (IF k \in due THEN Enact(g[k - 1], entries[k].id, entries[k].index) ELSE g[k - 1])]

LEMMA EnactsExists ==
    ASSUME NEW chain, NEW entries, NEW due, NEW N \in Nat
    PROVE  \E g : Enacts(g, chain, entries, due, N)
<1> DEFINE bad == {n \in Nat : ~ \E g : Enacts(g, chain, entries, due, n)}
<1>1. ASSUME ~ \E g : Enacts(g, chain, entries, due, N) PROVE FALSE
  <2>1. N \in bad
    BY <1>1
  <2>2. PICK n \in bad : \A m \in bad : n <= m
    BY <2>1, SmallestSize
  <2>3. n \in Nat /\ ~ \E g : Enacts(g, chain, entries, due, n)
    BY <2>2
  <2>4. n # 0
    <3> DEFINE g == [k \in 0..0 |-> chain]
    <3>1. g = [k \in 0..0 |-> IF k = 0 THEN chain ELSE (IF k \in due THEN Enact(g[k - 1], entries[k].id, entries[k].index) ELSE g[k - 1])]
      OBVIOUS
    <3>2. Enacts(g, chain, entries, due, 0)
      BY <3>1 DEF Enacts
    <3> QED
      BY <2>3, <3>2
  <2>5. n - 1 \in Nat /\ n - 1 \notin bad
    <3> HIDE DEF bad
    <3> QED
      BY <2>2, <2>3, <2>4
  <2>6. PICK h : Enacts(h, chain, entries, due, n - 1)
    BY <2>5
  <2> DEFINE step(k, v) == (IF k \in due THEN Enact(v, entries[k].id, entries[k].index) ELSE v)
             g == [k \in 0..n |-> IF k = n THEN step(n, h[n - 1]) ELSE h[k]]
  <2>7. ASSUME NEW k \in 0..(n - 1) PROVE h[k] = IF k = 0 THEN chain ELSE step(k, h[k - 1])
    BY <2>6 DEF Enacts
  <2>8. ASSUME NEW k \in 0..n PROVE g[k] = IF k = 0 THEN chain ELSE step(k, g[k - 1])
    <3> HIDE DEF step
    <3>1. CASE k = n
      BY <2>3, <2>4, <3>1
    <3>2. CASE k # n
      <4>1. k \in 0..(n - 1) /\ g[k] = h[k]
        BY <2>3, <3>2
      <4>2. k # 0 => g[k - 1] = h[k - 1]
        BY <2>3, <4>1
      <4> QED
        BY <2>7, <4>1, <4>2
    <3> QED
      BY <3>1, <3>2
  <2>9. g = [k \in 0..n |-> g[k]]
    OBVIOUS
  <2> HIDE DEF g
  <2>10. Enacts(g, chain, entries, due, n)
    BY <2>8, <2>9 DEF Enacts
  <2> QED
    BY <2>3, <2>10
<1> QED
  BY <1>1

Bakes(g, chain, maturing, t, N) ==
    g = [k \in 0..N |-> IF k = 0 THEN chain ELSE (IF k - 1 \in maturing THEN Bake(g[k - 1], k - 1, t) ELSE g[k - 1])]

LEMMA BakesExists ==
    ASSUME NEW chain, NEW maturing, NEW t, NEW N \in Nat
    PROVE  \E g : Bakes(g, chain, maturing, t, N)
<1> DEFINE bad == {n \in Nat : ~ \E g : Bakes(g, chain, maturing, t, n)}
<1>1. ASSUME ~ \E g : Bakes(g, chain, maturing, t, N) PROVE FALSE
  <2>1. N \in bad
    BY <1>1
  <2>2. PICK n \in bad : \A m \in bad : n <= m
    BY <2>1, SmallestSize
  <2>3. n \in Nat /\ ~ \E g : Bakes(g, chain, maturing, t, n)
    BY <2>2
  <2>4. n # 0
    <3> DEFINE g == [k \in 0..0 |-> chain]
    <3>1. g = [k \in 0..0 |-> IF k = 0 THEN chain ELSE (IF k - 1 \in maturing THEN Bake(g[k - 1], k - 1, t) ELSE g[k - 1])]
      OBVIOUS
    <3>2. Bakes(g, chain, maturing, t, 0)
      BY <3>1 DEF Bakes
    <3> QED
      BY <2>3, <3>2
  <2>5. n - 1 \in Nat /\ n - 1 \notin bad
    <3> HIDE DEF bad
    <3> QED
      BY <2>2, <2>3, <2>4
  <2>6. PICK h : Bakes(h, chain, maturing, t, n - 1)
    BY <2>5
  <2> DEFINE step(k, v) == (IF k - 1 \in maturing THEN Bake(v, k - 1, t) ELSE v)
             g == [k \in 0..n |-> IF k = n THEN step(n, h[n - 1]) ELSE h[k]]
  <2>7. ASSUME NEW k \in 0..(n - 1) PROVE h[k] = IF k = 0 THEN chain ELSE step(k, h[k - 1])
    BY <2>6 DEF Bakes
  <2>8. ASSUME NEW k \in 0..n PROVE g[k] = IF k = 0 THEN chain ELSE step(k, g[k - 1])
    <3> HIDE DEF step
    <3>1. CASE k = n
      BY <2>3, <2>4, <3>1
    <3>2. CASE k # n
      <4>1. k \in 0..(n - 1) /\ g[k] = h[k]
        BY <2>3, <3>2
      <4>2. k # 0 => g[k - 1] = h[k - 1]
        BY <2>3, <4>1
      <4> QED
        BY <2>7, <4>1, <4>2
    <3> QED
      BY <3>1, <3>2
  <2>9. g = [k \in 0..n |-> g[k]]
    OBVIOUS
  <2> HIDE DEF g
  <2>10. Bakes(g, chain, maturing, t, n)
    BY <2>8, <2>9 DEF Bakes
  <2> QED
    BY <2>3, <2>10
<1> QED
  BY <1>1
-----------------------------------------------------------------------------
(* What they compute.                                                      *)

LEMMA PaidOutKeepsLocks ==
    ASSUME NEW l, IsLaidOut(l), NEW d, Len(d.whos) \in Nat, NEW slash
    PROVE  SameLocks(l, PaidOut(l, d, slash))
<1> DEFINE N == Len(d.whos)
           g == CHOOSE f : Pays(f, l, d.whos, slash, d.amount, N)
           bad == {k \in 0..N : ~ SameLocks(l, g[k])}
<1>1. PaidOut(l, d, slash) = g[N]
  BY DEF PaidOut, Pays
<1>2. Pays(g, l, d.whos, slash, d.amount, N)
  <2> HIDE DEF N
  <2>1. N \in Nat
    BY DEF N
  <2> QED
    BY <2>1, PaysExists
<1> HIDE DEF g
<1>3. ASSUME NEW k \in 1..N, SameLocks(l, g[k - 1]) PROVE SameLocks(l, g[k])
  <2> DEFINE to == IF slash THEN Treasury ELSE d.whos[k]
  <2>1. g[k] = TransferHeld(g[k - 1], d.whos[k], to, d.amount)
    BY <1>2 DEF Pays
  <2>2. IsLaidOut(g[k - 1])
    BY <1>3 DEF SameLocks
  <2> HIDE DEF to
  <2>3. SameLocks(g[k - 1], g[k])
    BY <2>1, <2>2, TransferHeldKeepsLocks
  <2> QED
    BY <1>3, <2>3, SameLocksTwice
<1>4. SameLocks(l, g[0])
  BY <1>2 DEF Pays, SameLocks
<1> HIDE DEF N
<1>5. N \in Nat
  BY DEF N
<1>6. ASSUME bad # {} PROVE FALSE
  <2>1. PICK k \in bad : \A m \in bad : k <= m
    <3>1. bad \subseteq Nat
      BY <1>5
    <3> HIDE DEF bad
    <3> QED
      BY <1>6, <3>1, SmallestSize
  <2>2. k \in 0..N /\ k # 0
    BY <1>4, <2>1
  <2>3. k \in 1..N /\ k - 1 \in 0..N /\ ~ (k <= k - 1)
    BY <1>5, <2>2
  <2>4. k - 1 \notin bad
    <3> HIDE DEF bad
    <3> QED
      BY <2>1, <2>3
  <2> QED
    BY <1>3, <2>1, <2>3, <2>4
<1>7. N \in 0..N
  BY <1>5
<1> QED
  BY <1>1, <1>6, <1>7

LEMMA RetainKeepsType ==
    ASSUME NEW T, NEW s \in Seq(T), NEW keep
    PROVE  Retain(s, keep) \in Seq(T)
<1> DEFINE N == Len(s)
           g == CHOOSE f : Retains(f, s, keep, N)
           bad == {k \in 0..N : g[k] \notin Seq(T)}
<1>1. Retain(s, keep) = g[N]
  BY DEF Retain, Retains
<1>5. N \in Nat
  OBVIOUS
<1>2. Retains(g, s, keep, N)
  <2> HIDE DEF N
  <2> QED
    BY <1>5, RetainsExists
<1> HIDE DEF g
<1>3. ASSUME NEW k \in 1..N, g[k - 1] \in Seq(T) PROVE g[k] \in Seq(T)
  <2>1. g[k] = IF k \in keep THEN Append(g[k - 1], s[k]) ELSE g[k - 1]
    <3>1. k \in 0..N /\ k # 0
      BY <1>5
    <3> HIDE DEF N
    <3> QED
      BY <1>2, <3>1 DEF Retains
  <2>2. s[k] \in T
    OBVIOUS
  <2> QED
    BY <1>3, <2>1, <2>2
<1>4. g[0] \in Seq(T)
  BY <1>2 DEF Retains
<1> HIDE DEF N
<1>6. ASSUME bad # {} PROVE FALSE
  <2>1. PICK k \in bad : \A m \in bad : k <= m
    <3>1. bad \subseteq Nat
      BY <1>5
    <3> HIDE DEF bad
    <3> QED
      BY <1>6, <3>1, SmallestSize
  <2>2. k \in 0..N /\ k # 0
    BY <1>4, <2>1
  <2>3. k \in 1..N /\ k - 1 \in 0..N /\ ~ (k <= k - 1)
    BY <1>5, <2>2
  <2>4. k - 1 \notin bad
    <3> HIDE DEF bad
    <3> QED
      BY <2>1, <2>3
  <2> QED
    BY <1>3, <2>1, <2>3, <2>4
<1>7. N \in 0..N
  BY <1>5
<1> QED
  BY <1>1, <1>6, <1>7

-----------------------------------------------------------------------------
(* A block: what the scheduler and begin_block write.                      *)

IsChain(c) ==
    c = [props |-> c.props, deposits |-> c.deposits, external |-> c.external,
         wasExternal |-> c.wasExternal, count |-> c.count, info |-> c.info, pre |-> c.pre,
         agenda |-> c.agenda, outcomes |-> c.outcomes, ledger |-> c.ledger]

IsSequence(s) == \E S : s \in Seq(S)

LEMMA SequenceGrows ==
    ASSUME NEW s, IsSequence(s), NEW e
    PROVE  IsSequence(Append(s, e)) /\ Len(s) \in Nat
<1>1. PICK S : s \in Seq(S)
  BY DEF IsSequence
<1>2. s \in Seq(S \cup {e}) /\ e \in S \cup {e}
  BY <1>1
<1>3. Append(s, e) \in Seq(S \cup {e})
  BY <1>2
<1> QED
  BY <1>1, <1>3 DEF IsSequence

LEMMA SequenceShrinks ==
    ASSUME NEW s, IsSequence(s), NEW keep
    PROVE  IsSequence(Retain(s, keep))
<1>1. PICK S : s \in Seq(S)
  BY DEF IsSequence
<1> QED
  BY <1>1, RetainKeepsType DEF IsSequence

(* From c to d neither the queues nor the referenda nor a lock changed.    *)
OnlyPays(c, d) ==
    /\ IsChain(d)
    /\ d.props = c.props /\ d.deposits = c.deposits /\ d.external = c.external
    /\ d.count = c.count /\ d.info = c.info
    /\ IsSequence(c.agenda) => IsSequence(d.agenda)
    /\ SameLocks(c.ledger, d.ledger)

LEMMA OnlyPaysTwice ==
    ASSUME NEW c, NEW d, NEW e, OnlyPays(c, d), OnlyPays(d, e)
    PROVE  OnlyPays(c, e)
BY SameLocksTwice DEF OnlyPays

LEMMA EnactFields ==
    ASSUME NEW c, IsChain(c), NEW p, NEW o, NEW l, SameLocks(c.ledger, l),
           NEW d, d = [c EXCEPT !.pre = p, !.outcomes = o, !.ledger = l]
    PROVE  OnlyPays(c, d)
BY DEF IsChain, OnlyPays

LEMMA RefundKeepsLocks ==
    ASSUME NEW l, IsLaidOut(l), NEW p, NEW outcome
    PROVE  SameLocks(l, Refunded(l, p, outcome))
<1>1. SameLocks(l, l)
  BY DEF SameLocks
<1>2. SameLocks(l, TransferHeld(l, p.provider, Treasury, p.deposit))
  BY TransferHeldKeepsLocks
<1>3. SameLocks(l, UnreserveFunds(l, NativeAsset, p.provider, p.deposit))
  BY UnreserveKeepsLocks
<1> QED
  BY <1>1, <1>2, <1>3 DEF Refunded

LEMMA EnactPays ==
    ASSUME NEW c, IsChain(c), IsLaidOut(c.ledger), NEW id, NEW i
    PROVE  OnlyPays(c, Enact(c, id, i))
<1> DEFINE p == [c.pre EXCEPT ![id] = NoPreimage]
           o == [c.outcomes EXCEPT ![i] = Append(c.outcomes[i], Outcome(c.pre[id], id))]
           l == Refunded(c.ledger, c.pre[id], Outcome(c.pre[id], id))
<1>1. SameLocks(c.ledger, l)
  BY RefundKeepsLocks
<1>2. Enact(c, id, i) = [c EXCEPT !.pre = p, !.outcomes = o, !.ledger = l]
  BY DEF Enact
<1> HIDE DEF p, o, l
<1> QED
  BY <1>1, <1>2, EnactFields

LEMMA EnactAllPays ==
    ASSUME NEW c, IsChain(c), IsLaidOut(c.ledger), NEW entries, Len(entries) \in Nat, NEW due
    PROVE  OnlyPays(c, EnactAll(c, entries, due))
<1> DEFINE N == Len(entries)
           g == CHOOSE f : Enacts(f, c, entries, due, N)
           bad == {k \in 0..N : ~ OnlyPays(c, g[k])}
<1>1. EnactAll(c, entries, due) = g[N]
  BY DEF EnactAll, Enacts
<1>5. N \in Nat
  OBVIOUS
<1>2. Enacts(g, c, entries, due, N)
  <2> HIDE DEF N
  <2> QED
    BY <1>5, EnactsExists
<1> HIDE DEF g
<1>3. ASSUME NEW k \in 1..N, OnlyPays(c, g[k - 1]) PROVE OnlyPays(c, g[k])
  <2>1. g[k] = IF k \in due THEN Enact(g[k - 1], entries[k].id, entries[k].index)
               ELSE g[k - 1]
    BY <1>2 DEF Enacts
  <2>2. IsChain(g[k - 1]) /\ IsLaidOut(g[k - 1].ledger)
    BY <1>3 DEF OnlyPays, SameLocks
  <2>3. OnlyPays(g[k - 1], Enact(g[k - 1], entries[k].id, entries[k].index))
    BY <2>2, EnactPays
  <2> QED
    BY <1>3, <2>1, <2>3, OnlyPaysTwice
<1>4. OnlyPays(c, g[0])
  <2>1. g[0] = c
    BY <1>2, <1>5 DEF Enacts
  <2> QED
    BY <2>1 DEF OnlyPays, SameLocks
<1> HIDE DEF N
<1>6. ASSUME bad # {} PROVE FALSE
  <2>1. PICK k \in bad : \A m \in bad : k <= m
    <3>1. bad \subseteq Nat
      BY <1>5
    <3> HIDE DEF bad
    <3> QED
      BY <1>6, <3>1, SmallestSize
  <2>2. k \in 0..N /\ k # 0
    BY <1>4, <2>1
  <2>3. k \in 1..N /\ k - 1 \in 0..N /\ ~ (k <= k - 1)
    BY <1>5, <2>2
  <2>4. k - 1 \notin bad
    <3> HIDE DEF bad
    <3> QED
      BY <2>1, <2>3
  <2> QED
    BY <1>3, <2>1, <2>3, <2>4
<1>7. N \in 0..N
  BY <1>5
<1> QED
  BY <1>1, <1>6, <1>7

LEMMA EnactDuePays ==
    ASSUME NEW c, IsChain(c), IsLaidOut(c.ledger), IsSequence(c.agenda), NEW n
    PROVE  OnlyPays(c, EnactDue(c, n))
<1> DEFINE r == Retain(c.agenda, DOMAIN c.agenda \ Due(c, n))
           d == [c EXCEPT !.agenda = r]
<1>1. EnactDue(c, n) = EnactAll(d, c.agenda, Due(c, n))
  BY DEF EnactDue
<1>2. IsSequence(r) /\ Len(c.agenda) \in Nat
  BY SequenceShrinks, SequenceGrows
<1> HIDE DEF r
<1>3. OnlyPays(c, d) /\ IsChain(d) /\ IsLaidOut(d.ledger)
  BY <1>2 DEF OnlyPays, IsChain, SameLocks
<1> HIDE DEF d
<1>4. OnlyPays(d, EnactAll(d, c.agenda, Due(c, n)))
  BY <1>2, <1>3, EnactAllPays
<1> QED
  BY <1>1, <1>3, <1>4, OnlyPaysTwice

LEMMA MaxBelow ==
    ASSUME NEW S, S # {}, NEW b \in Nat, \A x \in S : x \in Nat /\ x <= b
    PROVE  Max(S) \in S /\ \A x \in S : Max(S) >= x
<1> DEFINE T == {b - x : x \in S}
<1>1. T \subseteq Nat /\ T # {}
  OBVIOUS
<1>2. PICK t \in T : \A u \in T : t <= u
  <2> HIDE DEF T
  <2> QED
    BY <1>1, SmallestSize
<1>3. PICK x \in S : t = b - x
  BY <1>2
<1>4. \A y \in S : x >= y
  <2>1. ASSUME NEW y \in S PROVE x >= y
    <3>1. b - y \in T
      OBVIOUS
    <3>2. t <= b - y
      BY <1>2, <3>1
    <3> HIDE DEF T
    <3> QED
      BY <1>3, <3>2
  <2> QED
    BY <2>1
<1> QED
  BY <1>4 DEF Max

(* One of finitely many naturals is the largest.                           *)
LEMMA LargestOf ==
    ASSUME NEW S, IsFiniteSet(S), S # {}, NEW g, \A x \in S : g[x] \in Nat
    PROVE  \E x \in S : \A y \in S : g[y] <= g[x]
<1> DEFINE b == SumFunctionOnSet(g, S)
           V == {g[x] : x \in S}
<1>1. \A x \in S : g[x] <= b /\ b \in Nat
  BY SumBounds
<1>2. V # {} /\ b \in Nat /\ \A v \in V : v \in Nat /\ v <= b
  BY <1>1
<1> HIDE DEF b
<1>3. Max(V) \in V /\ \A v \in V : Max(V) >= v
  <2> HIDE DEF V
  <2> QED
    BY <1>2, MaxBelow
<1>4. PICK x \in S : Max(V) = g[x]
  BY <1>3
<1>5. \A y \in S : g[x] >= g[y]
  BY <1>3, <1>4
<1> QED
  BY <1>5

PropType == [index: PropIds, id: ProposalIds]
DepositType == [whos: Seq(Voters), amount: Nat]
ExternalType == [id: ProposalIds, threshold: Thresholds]
WaitingType == {<<>>} \cup {<<e>> : e \in ExternalType}
StatusesType == [RefIds -> StatusType]

ChainTypeOK(c) ==
    /\ IsChain(c)
    /\ c.props \in Seq(PropType)
    /\ c.deposits \in [PropIds -> DepositType]
    /\ c.external \in WaitingType
    /\ c.count \in 0..MaxReferenda
    /\ c.info \in StatusesType
    /\ IsSequence(c.agenda)
    /\ IsLaidOut(c.ledger)

LEMMA OnlyPaysKeepsType ==
    ASSUME NEW c, ChainTypeOK(c), NEW d, OnlyPays(c, d)
    PROVE  ChainTypeOK(d)
BY DEF ChainTypeOK, OnlyPays, SameLocks

(* The fields of a chain after each of its writes.                         *)
IsInjected(c, n, info, d) == d = [c EXCEPT !.count = n, !.info = info]
IsTabled(c, x, w, d) == d = [c EXCEPT !.external = x, !.wasExternal = w]
IsTaken(c, props, w, deposits, l, d) ==
    d = [c EXCEPT !.props = props, !.wasExternal = w, !.deposits = deposits, !.ledger = l]

LEMMA InjectWrites ==
    ASSUME NEW c, IsChain(c), NEW n, NEW info, NEW d, IsInjected(c, n, info, d)
    PROVE  /\ IsChain(d) /\ d.count = n /\ d.info = info /\ d.props = c.props
           /\ d.deposits = c.deposits /\ d.external = c.external
           /\ d.ledger = c.ledger /\ d.agenda = c.agenda
BY DEF IsChain, IsInjected

LEMMA ExternalWrites ==
    ASSUME NEW c, IsChain(c), NEW x, NEW w, NEW d, IsTabled(c, x, w, d)
    PROVE  /\ IsChain(d) /\ d.external = x /\ d.count = c.count /\ d.info = c.info
           /\ d.props = c.props /\ d.deposits = c.deposits /\ d.ledger = c.ledger /\ d.agenda = c.agenda
BY DEF IsChain, IsTabled

LEMMA PublicWrites ==
    ASSUME NEW c, IsChain(c), NEW props, NEW w, NEW deposits, NEW l, NEW d,
           IsTaken(c, props, w, deposits, l, d)
    PROVE  /\ IsChain(d) /\ d.external = c.external /\ d.count = c.count
           /\ d.info = c.info /\ d.props = props /\ d.deposits = deposits /\ d.ledger = l /\ d.agenda = c.agenda
BY DEF IsChain, IsTaken

LEMMA NewStatus ==
    ASSUME NEW end \in Nat, NEW id \in ProposalIds, NEW t \in Thresholds, NEW delay \in Nat,
           NEW s, s = OngoingStatus(end, id, t, delay)
    PROVE  s \in StatusType /\ s.kind = "ongoing" /\ s.tally = NoTally /\ s.id = id
BY DEF OngoingStatus, StatusType, NoTally, TallyType

(* From c to d a referendum was opened, without any votes.                 *)
Opens(c, d) ==
    /\ c.count \in RefIds
    /\ d.count = c.count + 1
    /\ \E s \in StatusType : /\ s.kind = "ongoing" /\ s.tally = NoTally
                             /\ d.info = [c.info EXCEPT ![c.count] = s]

LEMMA InjectedFields ==
    ASSUME NEW c, ChainTypeOK(c), c.count < MaxReferenda, NEW n \in Nat,
           NEW id \in ProposalIds, NEW t \in Thresholds
    PROVE  /\ ChainTypeOK(Injected(c, n, id, t))
           /\ Opens(c, Injected(c, n, id, t))
           /\ Injected(c, n, id, t).ledger = c.ledger
<1> DEFINE s == OngoingStatus(n + VotingPeriod, id, t, EnactmentPeriod)
           info == [c.info EXCEPT ![c.count] = s]
           d == [c EXCEPT !.count = c.count + 1, !.info = info]
<1>1. Injected(c, n, id, t) = d
  BY DEF Injected
<1>2. s \in StatusType /\ s.kind = "ongoing" /\ s.tally = NoTally
  <2>1. n + VotingPeriod \in Nat /\ EnactmentPeriod \in Nat
    BY DemocracyTypes
  <2> QED
    BY <2>1, NewStatus
<1> HIDE DEF s
<1>3. c.count \in RefIds /\ c.count + 1 \in 0..MaxReferenda
  <2>1. MaxReferenda \in Nat /\ c.count \in 0..MaxReferenda
    BY DemocracyTypes DEF ChainTypeOK
  <2> QED
    BY <2>1 DEF RefIds
<1>4. info \in StatusesType
  BY <1>2 DEF ChainTypeOK, StatusesType
<1>5. /\ IsChain(d) /\ d.count = c.count + 1 /\ d.info = info /\ d.props = c.props
      /\ d.deposits = c.deposits /\ d.external = c.external
           /\ d.ledger = c.ledger /\ d.agenda = c.agenda
  <2>1. IsChain(c)
    BY DEF ChainTypeOK
  <2>2. IsInjected(c, c.count + 1, info, d)
    BY DEF IsInjected
  <2> HIDE DEF info, d
  <2> QED
    BY <2>1, <2>2, InjectWrites
<1> HIDE DEF d
<1>6. Opens(c, d)
  BY <1>2, <1>3, <1>5 DEF Opens
<1> HIDE DEF info
<1>7. ChainTypeOK(d)
  BY <1>3, <1>4, <1>5 DEF ChainTypeOK
<1> QED
  BY <1>1, <1>5, <1>6, <1>7

(* From c to d: the queues are not longer than their types allow, no lock  *)
(* changed, and a referendum may have been opened.                         *)
Launches(c, d) ==
    /\ ChainTypeOK(d)
    /\ SameLocks(c.ledger, d.ledger)
    /\ Opens(c, d) \/ (d.count = c.count /\ d.info = c.info)

LEMMA LaunchesExternal ==
    ASSUME NEW c, ChainTypeOK(c), c.count < MaxReferenda, NEW n \in Nat, c.external # <<>>
    PROVE  Launches(c, LaunchExternal(c, n))
<1> DEFINE e == c.external[1]
           w == TRUE
           d == [c EXCEPT !.external = <<>>, !.wasExternal = w]
<1>1. LaunchExternal(c, n) = Injected(d, n, e.id, e.threshold)
  BY DEF LaunchExternal
<1>2. e \in ExternalType
  <2>1. PICK x \in ExternalType : c.external = <<x>>
    BY DEF ChainTypeOK, WaitingType
  <2> QED
    BY <2>1
<1>3. e.id \in ProposalIds /\ e.threshold \in Thresholds
  BY <1>2 DEF ExternalType
<1> HIDE DEF e, w
<1>4. /\ IsChain(d) /\ d.external = <<>> /\ d.count = c.count /\ d.info = c.info
      /\ d.props = c.props /\ d.deposits = c.deposits /\ d.ledger = c.ledger /\ d.agenda = c.agenda
  <2>1. IsChain(c)
    BY DEF ChainTypeOK
  <2>2. IsTabled(c, <<>>, w, d)
    BY DEF IsTabled
  <2> HIDE DEF d
  <2> QED
    BY <2>1, <2>2, ExternalWrites
<1> HIDE DEF d
<1>5. ChainTypeOK(d)
  BY <1>4 DEF ChainTypeOK, WaitingType
<1> DEFINE f == Injected(d, n, e.id, e.threshold)
<1>6. ChainTypeOK(f) /\ Opens(d, f) /\ f.ledger = d.ledger
  BY <1>3, <1>4, <1>5, InjectedFields
<1>7. Opens(c, f) /\ SameLocks(c.ledger, f.ledger)
  BY <1>4, <1>6 DEF Opens, SameLocks, ChainTypeOK
<1>8. LaunchExternal(c, n) = f
  BY <1>1
<1> HIDE DEF f
<1>9. Launches(c, f)
  BY <1>6, <1>7 DEF Launches
<1> QED
  BY <1>8, <1>9

LEMMA BackingType ==
    ASSUME NEW c, ChainTypeOK(c), NEW k \in DOMAIN c.props
    PROVE  /\ BackingFor(c, k) \in Nat
           /\ c.props[k] \in PropType /\ c.props[k].index \in PropIds
           /\ c.props[k].id \in ProposalIds /\ c.deposits[c.props[k].index] \in DepositType
<1>1. c.props[k] \in PropType
  <2>1. c.props \in Seq(PropType)
    BY DEF ChainTypeOK
  <2> QED
    BY <2>1
<1>2. c.props[k].index \in PropIds /\ c.props[k].id \in ProposalIds
  BY <1>1 DEF PropType
<1>3. c.deposits[c.props[k].index] \in DepositType
  BY <1>2 DEF ChainTypeOK
<1> DEFINE d == c.deposits[c.props[k].index]
<1>4. d.amount \in Nat /\ d.whos \in Seq(Voters)
  BY <1>3 DEF DepositType
<1> HIDE DEF d
<1>5. d.amount * Len(d.whos) \in Nat
  BY <1>4
<1>6. BackingFor(c, k) = d.amount * Len(d.whos)
  BY DEF BackingFor, d
<1> QED
  BY <1>1, <1>2, <1>3, <1>5, <1>6

LEMMA BestBackedWaits ==
    ASSUME NEW c, ChainTypeOK(c), c.props # <<>>
    PROVE  BestBacked(c) \in DOMAIN c.props
<1> DEFINE S == DOMAIN c.props
           N == Len(c.props)
           g == [k \in S |-> BackingFor(c, k)]
           best == {j \in S : \A other \in S : BackingFor(c, other) <= BackingFor(c, j)}
<1>1. S = 1..N /\ N \in Nat /\ S # {}
  <2>1. PICK s \in Seq(PropType) : c.props = s
    BY DEF ChainTypeOK
  <2>2. DOMAIN s = 1..Len(s) /\ Len(s) \in Nat /\ (s # <<>> => DOMAIN s # {})
    OBVIOUS
  <2> QED
    BY <2>1, <2>2
<1>2. IsFiniteSet(S)
  <2>1. IsFiniteSet(1..N)
    BY <1>1, FS_Interval
  <2> QED
    BY <1>1, <2>1
<1>3. \A k \in S : g[k] \in Nat
  BY BackingType
<1>4. PICK j \in S : \A other \in S : g[other] <= g[j]
  <2> HIDE DEF S, g
  <2> QED
    BY <1>1, <1>2, <1>3, LargestOf
<1>5. j \in best
  BY <1>4
<1>6. best # {} /\ \A x \in best : x \in Nat /\ x <= N
  <2> HIDE DEF N
  <2> QED
    BY <1>1, <1>5
<1>7. BestBacked(c) = Max(best)
  BY DEF BestBacked
<1> HIDE DEF N
<1>8. Max(best) \in best
  <2> HIDE DEF best
  <2> QED
    BY <1>1, <1>6, MaxBelow
<1> QED
  BY <1>7, <1>8

LEMMA SwapRemovedType ==
    ASSUME NEW T, NEW s \in Seq(T), s # <<>>, NEW k
    PROVE  SwapRemoved(s, k) \in Seq(T)
<1>1. Len(s) \in Nat /\ Len(s) # 0
  OBVIOUS
<1>2. Len(s) - 1 \in Nat
  BY <1>1
<1>3. \A j \in 1 .. Len(s) - 1 : s[j] \in T /\ s[Len(s)] \in T
  BY <1>1
<1>4. SwapRemoved(s, k) \in [1 .. Len(s) - 1 -> T]
  BY <1>3 DEF SwapRemoved
<1> QED
  BY <1>2, <1>4, SeqDef

LEMMA LaunchesPublic ==
    ASSUME NEW c, ChainTypeOK(c), c.count < MaxReferenda, NEW n \in Nat, c.props # <<>>
    PROVE  Launches(c, LaunchPublic(c, n))
<1> DEFINE k == BestBacked(c)
           p == c.props[k]
           props == SwapRemoved(c.props, k)
           w == FALSE
           deposits == [c.deposits EXCEPT ![p.index] = NoDeposit]
           l == ReleasedAll(c.ledger, c.deposits[p.index])
           d == [c EXCEPT !.props = props, !.wasExternal = w, !.deposits = deposits, !.ledger = l]
           t == "SuperMajorityApprove"
<1>1. LaunchPublic(c, n) = Injected(d, n, p.id, t)
  BY DEF LaunchPublic
<1>2. k \in DOMAIN c.props
  BY BestBackedWaits
<1> HIDE DEF k
<1>3. p.index \in PropIds /\ p.id \in ProposalIds /\ c.deposits[p.index] \in DepositType
  BY <1>2, BackingType
<1> HIDE DEF p
<1>4. props \in Seq(PropType)
  BY SwapRemovedType DEF ChainTypeOK
<1>5. deposits \in [PropIds -> DepositType]
  <2>1. NoDeposit \in DepositType
    BY DEF NoDeposit, DepositType
  <2>2. c.deposits \in [PropIds -> DepositType]
    BY DEF ChainTypeOK
  <2> QED
    BY <2>1, <2>2
<1>6. SameLocks(c.ledger, l)
  <2> DEFINE x == c.deposits[p.index]
             no == FALSE
  <2>1. Len(x.whos) \in Nat /\ IsLaidOut(c.ledger)
    BY <1>3 DEF DepositType, ChainTypeOK
  <2>2. l = PaidOut(c.ledger, x, no)
    BY DEF ReleasedAll
  <2> HIDE DEF x, no
  <2> QED
    BY <2>1, <2>2, PaidOutKeepsLocks
<1>7. t \in Thresholds
  BY DEF Thresholds
<1> HIDE DEF props, w, deposits, l, t
<1>8. /\ IsChain(d) /\ d.external = c.external /\ d.count = c.count /\ d.info = c.info
      /\ d.props = props /\ d.deposits = deposits /\ d.ledger = l /\ d.agenda = c.agenda
  <2>1. IsChain(c)
    BY DEF ChainTypeOK
  <2>2. IsTaken(c, props, w, deposits, l, d)
    BY DEF IsTaken
  <2> HIDE DEF d
  <2> QED
    BY <2>1, <2>2, PublicWrites
<1> HIDE DEF d
<1>9. ChainTypeOK(d)
  BY <1>4, <1>5, <1>6, <1>8 DEF ChainTypeOK, SameLocks
<1> DEFINE f == Injected(d, n, p.id, t)
<1>10. ChainTypeOK(f) /\ Opens(d, f) /\ f.ledger = d.ledger
  BY <1>3, <1>7, <1>8, <1>9, InjectedFields
<1>11. Opens(c, f) /\ SameLocks(c.ledger, f.ledger)
  BY <1>6, <1>8, <1>10 DEF Opens
<1>12. LaunchPublic(c, n) = f
  BY <1>1
<1> HIDE DEF f
<1>13. Launches(c, f)
  BY <1>10, <1>11 DEF Launches
<1> QED
  BY <1>12, <1>13

LEMMA LaunchNextOpens ==
    ASSUME NEW c, ChainTypeOK(c), NEW n \in Nat,
           c.count = MaxReferenda => c.external = <<>> /\ c.props = <<>>
    PROVE  Launches(c, LaunchNext(c, n))
<1> DEFINE w == FALSE
           d == [c EXCEPT !.wasExternal = w]
<1>1. c.external # <<>> \/ c.props # <<>> => c.count < MaxReferenda
  <2>1. c.count \in 0..MaxReferenda /\ MaxReferenda \in Nat
    BY DemocracyTypes DEF ChainTypeOK
  <2> QED
    BY <2>1
<1>2. CASE c.external # <<>> /\ (c.props = <<>> \/ ~ c.wasExternal)
  <2>1. LaunchNext(c, n) = LaunchExternal(c, n)
    BY <1>2 DEF LaunchNext
  <2> QED
    BY <1>1, <1>2, <2>1, LaunchesExternal
<1>3. CASE c.props # <<>> /\ (c.external = <<>> \/ c.wasExternal)
  <2>1. LaunchNext(c, n) = LaunchPublic(c, n)
    BY <1>3 DEF LaunchNext
  <2> QED
    BY <1>1, <1>3, <2>1, LaunchesPublic
<1>4. CASE c.external = <<>> /\ c.props = <<>>
  <2>1. LaunchNext(c, n) = d
    BY <1>4 DEF LaunchNext
  <2> HIDE DEF w
  <2>2. /\ IsChain(d) /\ d.external = c.external /\ d.count = c.count /\ d.info = c.info
        /\ d.props = c.props /\ d.deposits = c.deposits /\ d.ledger = c.ledger /\ d.agenda = c.agenda
    <3>1. IsChain(c)
      BY DEF ChainTypeOK
    <3> QED
      BY <3>1 DEF IsChain
  <2> HIDE DEF d
  <2> QED
    BY <2>1, <2>2 DEF Launches, ChainTypeOK, SameLocks
<1> QED
  BY <1>2, <1>3, <1>4

(* From c to d nothing but the decision of referenda and its payments.     *)
Closes(c, d) ==
    /\ ChainTypeOK(d)
    /\ SameLocks(c.ledger, d.ledger)
    /\ d.count = c.count
    /\ \A j \in RefIds : d.info[j] = c.info[j] \/ d.info[j].kind = "finished"

LEMMA ClosesTwice ==
    ASSUME NEW c, NEW d, NEW e, Closes(c, d), Closes(d, e)
    PROVE  Closes(c, e)
<1>1. SameLocks(c.ledger, e.ledger)
  BY SameLocksTwice DEF Closes
<1> QED
  BY <1>1 DEF Closes

IsScheduled(c, p, a, d) == d = [c EXCEPT !.pre = p, !.agenda = a]
IsDecided(c, info, d) == d = [c EXCEPT !.info = info]

LEMMA ScheduledPays ==
    ASSUME NEW c, IsChain(c), IsLaidOut(c.ledger), NEW i, NEW id, NEW when
    PROVE  OnlyPays(c, Scheduled(c, i, id, when))
<1> DEFINE p == [c.pre EXCEPT ![id] = KeptUntil(c.pre[id], when)]
           a == Append(c.agenda, [index |-> i, when |-> when, id |-> id])
           d == Scheduled(c, i, id, when)
<1>1. IsScheduled(c, p, a, d)
  BY DEF Scheduled, IsScheduled
<1> HIDE DEF p, a, d
<1>2. /\ IsChain(d) /\ d.props = c.props /\ d.deposits = c.deposits
      /\ d.external = c.external /\ d.count = c.count /\ d.info = c.info
      /\ d.ledger = c.ledger /\ d.agenda = a
  BY <1>1 DEF IsScheduled, IsChain
<1>3. IsSequence(c.agenda) => IsSequence(a)
  BY SequenceGrows DEF a
<1>4. OnlyPays(c, d)
  BY <1>2, <1>3 DEF OnlyPays, SameLocks
<1> QED
  BY <1>4 DEF d

LEMMA DecidedCloses ==
    ASSUME NEW c, ChainTypeOK(c), NEW i \in RefIds, NEW n \in Nat, NEW passed \in BOOLEAN
    PROVE  Closes(c, Decided(c, i, n, passed))
<1> DEFINE s == [kind |-> "finished", approved |-> passed, end |-> n]
           info == [c.info EXCEPT ![i] = s]
           d == Decided(c, i, n, passed)
<1>1. s \in StatusType /\ s.kind = "finished"
  BY DEF StatusType
<1>2. IsDecided(c, info, d)
  BY DEF Decided, IsDecided
<1> HIDE DEF s, d
<1>3. c.info \in StatusesType /\ IsChain(c) /\ IsLaidOut(c.ledger)
  BY DEF ChainTypeOK
<1>4. /\ info \in StatusesType
      /\ \A j \in RefIds : info[j] = c.info[j] \/ info[j].kind = "finished"
  BY <1>1, <1>3 DEF StatusesType
<1> HIDE DEF info
<1>5. /\ IsChain(d) /\ d.props = c.props /\ d.deposits = c.deposits
      /\ d.external = c.external /\ d.count = c.count /\ d.info = info
      /\ d.ledger = c.ledger /\ d.agenda = c.agenda
  BY <1>2, <1>3 DEF IsDecided, IsChain
<1>6. ChainTypeOK(d)
  BY <1>4, <1>5 DEF ChainTypeOK
<1>7. Closes(c, d)
  BY <1>3, <1>4, <1>5, <1>6 DEF Closes, SameLocks
<1> QED
  BY <1>7 DEF d

LEMMA BakeCloses ==
    ASSUME NEW c, ChainTypeOK(c), NEW i \in RefIds, NEW n \in Nat
    PROVE  Closes(c, Bake(c, i, n))
<1> DEFINE s == c.info[i]
           passed == Approved(s.threshold, s.tally, Electorate(s.id[2]))
           after == CASE ~ passed -> c
                      [] passed /\ s.delay = 0 -> Enact(c, s.id, i)
                      [] passed /\ s.delay # 0 -> Scheduled(c, i, s.id, n + s.delay)
<1>1. Bake(c, i, n) = Decided(after, i, n, passed)
  BY DEF Bake
<1>2. passed \in BOOLEAN
  BY DEF Approved
<1> HIDE DEF passed
<1>3. IsChain(c) /\ IsLaidOut(c.ledger)
  BY DEF ChainTypeOK
<1>4. OnlyPays(c, after)
  <2>1. OnlyPays(c, c)
    BY <1>3 DEF OnlyPays, SameLocks
  <2>2. OnlyPays(c, Enact(c, s.id, i))
    BY <1>3, EnactPays
  <2>3. OnlyPays(c, Scheduled(c, i, s.id, n + s.delay))
    BY <1>3, ScheduledPays
  <2>4. CASE ~ passed
    BY <2>1, <2>4
  <2>5. CASE passed /\ s.delay = 0
    BY <2>2, <2>5
  <2>6. CASE passed /\ s.delay # 0
    BY <2>3, <2>6
  <2> QED
    BY <2>4, <2>5, <2>6
<1> HIDE DEF after
<1>5. ChainTypeOK(after)
  BY <1>4, OnlyPaysKeepsType
<1>6. Closes(after, Decided(after, i, n, passed))
  BY <1>2, <1>5, DecidedCloses
<1>7. Closes(c, after)
  BY <1>4, <1>5 DEF Closes, OnlyPays
<1>8. Closes(c, Decided(after, i, n, passed))
  BY <1>6, <1>7, ClosesTwice
<1> QED
  BY <1>1, <1>8

LEMMA BakeAllCloses ==
    ASSUME NEW c, ChainTypeOK(c), NEW n \in Nat, NEW last \in 0..MaxReferenda,
           lowest_unbaked \in Nat
    PROVE  Closes(c, BakeAll(c, n, last))
<1> DEFINE maturing == Maturing(c, n, last)
           g == CHOOSE f : Bakes(f, c, maturing, n, last)
           bad == {k \in 0..last : ~ Closes(c, g[k])}
<1>1. BakeAll(c, n, last) = g[last]
  BY DEF BakeAll, Bakes
<1>2. MaxReferenda \in Nat /\ last \in Nat /\ last <= MaxReferenda
  BY DemocracyTypes
<1>3. maturing \subseteq RefIds
  BY <1>2 DEF Maturing, RefIds
<1> HIDE DEF maturing
<1>4. Bakes(g, c, maturing, n, last)
  BY <1>2, BakesExists
<1> HIDE DEF g
<1>5. ASSUME NEW k \in 1..last, Closes(c, g[k - 1]) PROVE Closes(c, g[k])
  <2>1. g[k] = IF k - 1 \in maturing THEN Bake(g[k - 1], k - 1, n) ELSE g[k - 1]
    BY <1>2, <1>4 DEF Bakes
  <2>2. CASE k - 1 \in maturing
    <3>1. ChainTypeOK(g[k - 1]) /\ k - 1 \in RefIds
      BY <1>3, <1>5, <2>2 DEF Closes
    <3>2. Closes(g[k - 1], Bake(g[k - 1], k - 1, n))
      BY <3>1, BakeCloses
    <3> QED
      BY <1>5, <2>1, <2>2, <3>2, ClosesTwice
  <2>3. CASE k - 1 \notin maturing
    BY <1>5, <2>1, <2>3
  <2> QED
    BY <2>2, <2>3
<1>6. Closes(c, g[0])
  <2>1. g[0] = c
    BY <1>2, <1>4 DEF Bakes
  <2> QED
    BY <2>1 DEF Closes, SameLocks, ChainTypeOK
<1>7. ASSUME bad # {} PROVE FALSE
  <2>1. PICK k \in bad : \A m \in bad : k <= m
    <3>1. bad \subseteq Nat
      BY <1>2
    <3> HIDE DEF bad
    <3> QED
      BY <1>7, <3>1, SmallestSize
  <2>2. k \in 0..last /\ k # 0
    BY <1>6, <2>1
  <2>3. k \in 1..last /\ k - 1 \in 0..last /\ ~ (k <= k - 1)
    BY <1>2, <2>2
  <2>4. k - 1 \notin bad
    <3> HIDE DEF bad
    <3> QED
      BY <2>1, <2>3
  <2> QED
    BY <1>5, <2>1, <2>3, <2>4
<1>8. last \in 0..last
  BY <1>2
<1> QED
  BY <1>1, <1>7, <1>8

LEMMA UnbakedFirst ==
    ASSUME NEW low \in Nat, NEW last \in Nat, low <= last, NEW info
    PROVE  /\ UnbakedFrom(low, last, info) \in low..last
           /\ \A i \in low..(UnbakedFrom(low, last, info) - 1) : info[i].kind # "ongoing"
<1> DEFINE S == {last} \cup {i \in low .. last - 1 : info[i].kind = "ongoing"}
<1>1. S # {} /\ S \subseteq Nat /\ S \subseteq low..last
  OBVIOUS
<1>2. Min(S) \in S /\ \A y \in S : Min(S) <= y
  <2> HIDE DEF S
  <2>1. \E x \in S : \A y \in S : x <= y
    BY <1>1, SmallestSize
  <2> QED
    BY <2>1 DEF Min
<1>3. UnbakedFrom(low, last, info) = Min(S)
  BY DEF UnbakedFrom
<1> DEFINE m == Min(S)
<1>4. m \in low..last /\ \A y \in S : m <= y
  BY <1>1, <1>2
<1> HIDE DEF m
<1>5. ASSUME NEW i \in low..(m - 1) PROVE info[i].kind # "ongoing"
  <2>1. i \in low .. last - 1 /\ ~ (m <= i)
    BY <1>4
  <2> QED
    BY <1>4, <2>1
<1> QED
  BY <1>3, <1>4, <1>5 DEF m

-----------------------------------------------------------------------------
(* The invariant.                                                          *)

VotingsType == [Voters -> [VotedAssets -> VotingType]]

QueuesTyped ==
    /\ public_props \in Seq(PropType)
    /\ public_prop_count \in 0..MaxPublicProps
    /\ deposit_of \in [PropIds -> DepositType]
    /\ next_external \in WaitingType
    /\ cancellations \subseteq ProposalIds
    /\ IsSequence(agenda)

LocksTyped ==
    /\ IsLaidOut(ledger)
    /\ \A u \in Voters, a \in VotedAssets : ledger[a][u].frozen \in Nat

CountsTyped ==
    /\ now \in Nat
    /\ referendum_count \in 0..MaxReferenda
    /\ lowest_unbaked \in 0..referendum_count

(* A vote is on a referendum that was opened, for its asset.               *)
VotesPlaced ==
    \A u \in Voters, a \in VotedAssets, i \in RefIds :
        voting_of[u][a].kind = "direct" /\ voting_of[u][a].votes[i] # NoVote =>
            /\ i < referendum_count
            /\ Ongoing(i) => referendum_info[i].id[2] = a

NoneToOneself ==
    \A u \in Voters, a \in VotedAssets :
        voting_of[u][a].kind = "delegating" => voting_of[u][a].target # u

(* begin_block looks at every open referendum.                             *)
NoneForgotten ==
    \A i \in RefIds : Ongoing(i) => i >= lowest_unbaked /\ i < referendum_count

DemocracyInv ==
    /\ QueuesTyped /\ LocksTyped /\ CountsTyped
    /\ referendum_info \in StatusesType
    /\ voting_of \in VotingsType
    /\ VotesPlaced /\ NoneToOneself /\ NoneForgotten
    /\ LockCoversVotes /\ TallyMatchesVotes

-----------------------------------------------------------------------------
(* Steps that touch neither votes nor locks.                               *)

(* Referenda stay, end, or are opened without votes as the next one.       *)
InfoMoves ==
    /\ referendum_count' \in {referendum_count, referendum_count + 1}
    /\ \A j \in RefIds :
          \/ referendum_info'[j] = referendum_info[j]
          \/ referendum_info'[j].kind # "ongoing"
          \/ /\ j = referendum_count /\ referendum_count' = referendum_count + 1
             /\ referendum_info'[j].tally = NoTally

Quiet ==
    /\ QueuesTyped' /\ CountsTyped'
    /\ referendum_info' \in StatusesType
    /\ voting_of' = voting_of
    /\ SameLocks(ledger, ledger')
    /\ InfoMoves
    /\ \A i \in RefIds : i < lowest_unbaked' => i < lowest_unbaked \/ ~ Ongoing(i)'

LEMMA LocksKept ==
    ASSUME LocksTyped, SameLocks(ledger, ledger')
    PROVE  LocksTyped'
<1>1. \A u \in Voters, a \in VotedAssets : a \in AssetIds /\ u \in Accounts
  BY DemocracyTypes DEF Accounts
<1> QED
  BY <1>1 DEF LocksTyped, SameLocks

LEMMA LedgerStays ==
    ASSUME IsLaidOut(ledger)
    PROVE  ledger' = ledger => SameLocks(ledger, ledger')
BY DEF SameLocks

LEMMA PlacesKept ==
    ASSUME DemocracyInv, voting_of' = voting_of, InfoMoves
    PROVE  VotesPlaced'
<1> SUFFICES ASSUME NEW u \in Voters, NEW a \in VotedAssets, NEW i \in RefIds,
                    voting_of[u][a].kind = "direct", voting_of[u][a].votes[i] # NoVote
             PROVE  i < referendum_count' /\ (Ongoing(i)' => referendum_info'[i].id[2] = a)
  BY DEF VotesPlaced
<1>1. i < referendum_count /\ (Ongoing(i) => referendum_info[i].id[2] = a)
  BY DEF DemocracyInv, VotesPlaced
<1>2. i \in Nat /\ referendum_count \in Nat
  BY DemocracyTypes DEF DemocracyInv, CountsTyped, RefIds
<1>3. i < referendum_count'
  BY <1>1, <1>2 DEF InfoMoves
<1>4. referendum_info'[i] = referendum_info[i] \/ referendum_info'[i].kind # "ongoing"
  BY <1>1, <1>2 DEF InfoMoves
<1> QED
  BY <1>1, <1>3, <1>4 DEF Ongoing

(* The queues.                                                             *)

LEMMA PropFits ==
    ASSUME NEW p \in PropIds, NEW id \in ProposalIds
    PROVE  [index |-> p, id |-> id] \in PropType
BY DEF PropType

LEMMA DepositFits ==
    ASSUME NEW whos \in Seq(Voters), NEW n \in Nat
    PROVE  [whos |-> whos, amount |-> n] \in DepositType
BY DEF DepositType

LEMMA NoDepositFits == NoDeposit \in DepositType
BY DEF NoDeposit, DepositType

LEMMA WaitingFits ==
    ASSUME NEW id \in ProposalIds, NEW t \in Thresholds
    PROVE  <<[id |-> id, threshold |-> t]>> \in WaitingType /\ <<>> \in WaitingType
BY DEF WaitingType, ExternalType

LEMMA WaitingFields ==
    ASSUME NEW w \in WaitingType, w # <<>>
    PROVE  w[1] \in ExternalType /\ w[1].id \in ProposalIds /\ w[1].threshold \in Thresholds
<1>1. PICK e \in ExternalType : w = <<e>>
  BY DEF WaitingType
<1>2. w[1] = e
  BY <1>1
<1> QED
  BY <1>2 DEF ExternalType

(* What a call on the queues alone leaves to show.                         *)
LEMMA QuietQueue ==
    ASSUME DemocracyInv, QueuesTyped', SameLocks(ledger, ledger'),
           UNCHANGED <<now, votingVars, countVars>>
    PROVE  Quiet
BY DEF DemocracyInv, Quiet, InfoMoves, CountsTyped, votingVars, countVars

LEMMA ProposeQuiet ==
    ASSUME DemocracyInv, NEW u \in Voters, NEW id \in ProposalIds, NEW n \in Nat,
           Propose(u, id, n)
    PROVE  Quiet
<1> USE DEF DemocracyInv
<1>1. public_prop_count \in PropIds /\ public_prop_count + 1 \in 0..MaxPublicProps
  <2>1. MaxPublicProps \in Nat /\ public_prop_count \in 0..MaxPublicProps
        /\ public_prop_count < MaxPublicProps
    BY DemocracyTypes DEF Propose, QueuesTyped
  <2> QED
    BY <2>1 DEF PropIds
<1> DEFINE p == [index |-> public_prop_count, id |-> id]
           d == [whos |-> <<u>>, amount |-> n]
<1>2. p \in PropType /\ d \in DepositType
  <2>1. <<u>> \in Seq(Voters)
    OBVIOUS
  <2> QED
    BY <1>1, <2>1, PropFits, DepositFits
<1> HIDE DEF p, d
<1>3. public_props' \in Seq(PropType)
  <2>1. public_props' = Append(public_props, p) /\ public_props \in Seq(PropType)
    BY DEF Propose, QueuesTyped, p
  <2> QED
    BY <1>2, <2>1
<1>4. deposit_of' \in [PropIds -> DepositType]
  <2>1. /\ deposit_of' = [deposit_of EXCEPT ![public_prop_count] = d]
        /\ deposit_of \in [PropIds -> DepositType]
    BY DEF Propose, QueuesTyped, d
  <2> QED
    BY <1>2, <2>1
<1>5. QueuesTyped'
  BY <1>1, <1>3, <1>4 DEF Propose, QueuesTyped, queueFrame, enactVars
<1>6. SameLocks(ledger, ledger')
  BY ReserveKeepsLocks DEF Propose, LocksTyped
<1> QED
  BY <1>5, <1>6, QuietQueue DEF Propose, queueFrame

LEMMA SecondQuiet ==
    ASSUME DemocracyInv, NEW u \in Voters, NEW p \in PropIds, NEW n, Second(u, p, n)
    PROVE  Quiet
<1> USE DEF DemocracyInv
<1> DEFINE old == deposit_of[p]
           d == [old EXCEPT !.whos = Append(old.whos, u)]
<1>1. old \in DepositType /\ deposit_of \in [PropIds -> DepositType]
  BY DEF QueuesTyped
<1>2. d \in DepositType
  <2> HIDE DEF old
  <2>1. old.whos \in Seq(Voters)
    BY <1>1 DEF DepositType
  <2>2. Append(old.whos, u) \in Seq(Voters)
    BY <2>1
  <2> QED
    BY <1>1, <2>2 DEF DepositType
<1>3. deposit_of' = [deposit_of EXCEPT ![p] = d]
  BY DEF Second
<1> HIDE DEF d, old
<1>4. deposit_of' \in [PropIds -> DepositType]
  BY <1>1, <1>2, <1>3
<1>5. QueuesTyped'
  BY <1>4 DEF Second, QueuesTyped, queueFrame, enactVars
<1>6. SameLocks(ledger, ledger')
  BY ReserveKeepsLocks DEF Second, LocksTyped
<1> QED
  BY <1>5, <1>6, QuietQueue DEF Second, queueFrame

LEMMA SlashKeepsLocks ==
    ASSUME DemocracyInv, NEW p \in PropIds
    PROVE  SameLocks(ledger, SlashedAll(ledger, deposit_of[p]))
<1> DEFINE d == deposit_of[p]
           yes == TRUE
<1>1. Len(d.whos) \in Nat /\ IsLaidOut(ledger)
  <2>1. d \in DepositType
    BY DEF DemocracyInv, QueuesTyped
  <2> HIDE DEF d
  <2> QED
    BY <2>1 DEF DepositType, DemocracyInv, LocksTyped
<1>2. SlashedAll(ledger, d) = PaidOut(ledger, d, yes)
  BY DEF SlashedAll
<1> HIDE DEF yes
<1> QED
  BY <1>1, <1>2, PaidOutKeepsLocks

LEMMA CancelProposalQuiet ==
    ASSUME DemocracyInv, NEW p \in PropIds, CancelProposal(p)
    PROVE  Quiet
<1> USE DEF DemocracyInv
<1>1. public_props' \in Seq(PropType)
  <2> DEFINE keep == {k \in DOMAIN public_props : public_props[k].index # p}
  <2>1. public_props' = Retain(public_props, keep) /\ public_props \in Seq(PropType)
    BY DEF CancelProposal, QueuesTyped
  <2> HIDE DEF keep
  <2> QED
    BY <2>1, RetainKeepsType
<1>2. deposit_of' \in [PropIds -> DepositType]
  BY NoDepositFits DEF CancelProposal, QueuesTyped
<1>3. QueuesTyped'
  BY <1>1, <1>2 DEF CancelProposal, QueuesTyped, queueFrame, enactVars
<1>4. SameLocks(ledger, ledger')
  BY SlashKeepsLocks DEF CancelProposal
<1> QED
  BY <1>3, <1>4, QuietQueue DEF CancelProposal, queueFrame

LEMMA ExternalQuiet ==
    ASSUME DemocracyInv, NEW id, id \in ProposalIds \/ ClearPublicProposals,
           \/ ClearPublicProposals \/ ExternalPropose(id)
           \/ \E t \in {"SimpleMajority", "SuperMajorityAgainst"} :
                 ExternalProposeReplacing(id, t)
           \/ \E u \in Voters : VetoExternal(u, id)
    PROVE  Quiet
<1> USE DEF DemocracyInv
<1>1. id \in ProposalIds =>
         \A t \in Thresholds : <<[id |-> id, threshold |-> t]>> \in WaitingType
  BY WaitingFits
<1>2. <<>> \in WaitingType
  BY DEF WaitingType
<1>3. SameLocks(ledger, ledger') /\ UNCHANGED queueFrame
  BY LedgerStays DEF ClearPublicProposals, ExternalPropose, ExternalProposeReplacing,
     VetoExternal, LocksTyped
<1>4. next_external' \in WaitingType
  BY <1>1, <1>2 DEF ClearPublicProposals, ExternalPropose, ExternalProposeReplacing,
     VetoExternal, Thresholds, QueuesTyped
<1>5. public_props' \in Seq(PropType)
  <2>1. public_props' = <<>> \/ public_props' = public_props
    BY DEF ClearPublicProposals, ExternalPropose, ExternalProposeReplacing, VetoExternal
  <2>2. public_props \in Seq(PropType) /\ <<>> \in Seq(PropType)
    BY DEF QueuesTyped
  <2> QED
    BY <2>1, <2>2
<1>6. UNCHANGED <<public_prop_count, deposit_of, cancellations>>
  BY DEF ClearPublicProposals, ExternalPropose, ExternalProposeReplacing, VetoExternal
<1>7. QueuesTyped'
  BY <1>3, <1>4, <1>5, <1>6 DEF QueuesTyped, queueFrame, enactVars
<1> QED
  BY <1>3, <1>7, QuietQueue DEF queueFrame

LEMMA FastTrackQuiet ==
    ASSUME DemocracyInv, NEW id \in ProposalIds, NEW period \in Nat, NEW delay \in Nat,
           FastTrack(id, period, delay)
    PROVE  Quiet
<1> USE DEF DemocracyInv
<1> DEFINE t == next_external[1].threshold
           s == OngoingStatus(now + period, id, t, delay)
<1>1. t \in Thresholds
  BY WaitingFields DEF FastTrack, QueuesTyped
<1>2. s \in StatusType /\ s.tally = NoTally
  <2>1. now + period \in Nat
    BY DEF CountsTyped
  <2> HIDE DEF t
  <2> QED
    BY <1>1, <2>1, NewStatus
<1>3. referendum_info' = [referendum_info EXCEPT ![referendum_count] = s]
  BY DEF FastTrack
<1> HIDE DEF s, t
<1>4. /\ referendum_count \in RefIds /\ referendum_count + 1 \in 0..MaxReferenda
      /\ lowest_unbaked \in 0..(referendum_count + 1)
  <2>1. /\ MaxReferenda \in Nat /\ referendum_count \in 0..MaxReferenda
        /\ lowest_unbaked \in 0..referendum_count /\ referendum_count < MaxReferenda
    BY DemocracyTypes DEF CountsTyped, FastTrack
  <2> QED
    BY <2>1 DEF RefIds
<1>5. referendum_info' \in StatusesType
  BY <1>2, <1>3, <1>4 DEF StatusesType
<1>6. CountsTyped' /\ lowest_unbaked' = lowest_unbaked
  BY <1>4 DEF FastTrack, CountsTyped
<1>7. InfoMoves
  BY <1>2, <1>3, <1>4 DEF FastTrack, InfoMoves, StatusesType
<1>8. QueuesTyped'
  BY DEF FastTrack, QueuesTyped, WaitingType, enactVars
<1>9. SameLocks(ledger, ledger') /\ voting_of' = voting_of
  BY LedgerStays DEF FastTrack, LocksTyped
<1> QED
  BY <1>5, <1>6, <1>7, <1>8, <1>9 DEF Quiet

(* Referenda that end without more.                                        *)
LEMMA QuietEnd ==
    ASSUME DemocracyInv, QueuesTyped', SameLocks(ledger, ledger'),
           UNCHANGED <<now, voting_of, countVars>>, referendum_info' \in StatusesType,
           \A j \in RefIds : \/ referendum_info'[j] = referendum_info[j]
                             \/ referendum_info'[j] = NoInfo
    PROVE  Quiet
<1>1. NoInfo.kind # "ongoing"
  BY DEF NoInfo
<1> QED
  BY <1>1 DEF DemocracyInv, Quiet, InfoMoves, CountsTyped, countVars

LEMMA CancelReferendumQuiet ==
    ASSUME DemocracyInv, NEW i \in RefIds, CancelReferendum(i) \/ EmergencyCancel(i)
    PROVE  Quiet
<1> USE DEF DemocracyInv
<1>1. referendum_info' = [referendum_info EXCEPT ![i] = NoInfo]
  BY DEF CancelReferendum, EmergencyCancel
<1>2. NoInfo \in StatusType
  BY DEF StatusType
<1>3. /\ referendum_info' \in StatusesType
      /\ \A j \in RefIds : \/ referendum_info'[j] = referendum_info[j]
                           \/ referendum_info'[j] = NoInfo
  BY <1>1, <1>2 DEF StatusesType
<1>4. cancellations' \subseteq ProposalIds
  <2>1. CASE CancelReferendum(i)
    BY <2>1 DEF CancelReferendum, queueVars, QueuesTyped
  <2>2. CASE EmergencyCancel(i)
    <3>1. referendum_info[i].id \in ProposalIds
      <4>1. referendum_info[i] \in StatusType /\ referendum_info[i].kind = "ongoing"
        BY <2>2 DEF EmergencyCancel, Ongoing, StatusesType
      <4> QED
        BY <4>1 DEF StatusType, NoInfo
    <3> QED
      BY <2>2, <3>1 DEF EmergencyCancel, QueuesTyped
  <2> QED
    BY <2>1, <2>2
<1>5. /\ SameLocks(ledger, ledger')
      /\ UNCHANGED <<public_props, public_prop_count, deposit_of, next_external, agenda,
                     now, voting_of, countVars>>
  BY LedgerStays DEF CancelReferendum, EmergencyCancel, queueVars, enactVars, LocksTyped
<1>6. QueuesTyped'
  BY <1>4, <1>5 DEF QueuesTyped
<1> QED
  BY <1>3, <1>5, <1>6, QuietEnd

LEMMA BlacklistQuiet ==
    ASSUME DemocracyInv, NEW id \in ProposalIds, NEW refs, BlacklistProposal(id, refs)
    PROVE  Quiet
<1> USE DEF DemocracyInv
<1> DEFINE hits == {k \in DOMAIN public_props : public_props[k].id = id}
           first == Min(hits)
           p == public_props[first].index
<1>1. NoInfo \in StatusType
  BY DEF StatusType
<1>2. /\ referendum_info' \in StatusesType
      /\ \A j \in RefIds : \/ referendum_info'[j] = referendum_info[j]
                           \/ referendum_info'[j] = NoInfo
  BY <1>1 DEF BlacklistProposal, StatusesType
<1>3. next_external' \in WaitingType
  BY DEF BlacklistProposal, QueuesTyped, WaitingType
<1>4. /\ public_props' \in Seq(PropType)
      /\ deposit_of' \in [PropIds -> DepositType]
      /\ SameLocks(ledger, ledger')
  <2>1. CASE hits = {}
    <3>1. UNCHANGED <<public_props, deposit_of, ledger>>
      BY <2>1 DEF BlacklistProposal
    <3> QED
      BY <3>1, LedgerStays DEF QueuesTyped, LocksTyped
  <2>2. CASE hits # {}
    <3>1. /\ public_props' = Retain(public_props, DOMAIN public_props \ {first})
          /\ ledger' = SlashedAll(ledger, deposit_of[p])
          /\ deposit_of' = [deposit_of EXCEPT ![p] = NoDeposit]
      BY <2>2 DEF BlacklistProposal
    <3>2. first \in DOMAIN public_props
      <4>1. hits \subseteq Nat /\ hits # {}
        <5>1. public_props \in Seq(PropType)
          BY DEF QueuesTyped
        <5>2. DOMAIN public_props \subseteq Nat
          BY <5>1
        <5> QED
          BY <2>2, <5>2
      <4>2. \E x \in hits : \A y \in hits : x <= y
        <5> HIDE DEF hits
        <5> QED
          BY <4>1, SmallestSize
      <4>3. first \in hits
        <5> HIDE DEF hits
        <5> QED
          BY <4>2 DEF Min
      <4> QED
        BY <4>3
    <3> HIDE DEF first
    <3>3. p \in PropIds
      <4>1. public_props \in Seq(PropType)
        BY DEF QueuesTyped
      <4>2. public_props[first] \in PropType
        BY <3>2, <4>1
      <4> QED
        BY <4>2 DEF PropType
    <3> HIDE DEF p
    <3>4. SameLocks(ledger, ledger')
      BY <3>1, <3>3, SlashKeepsLocks
    <3>5. public_props' \in Seq(PropType)
      BY <3>1, RetainKeepsType DEF QueuesTyped
    <3>6. deposit_of' \in [PropIds -> DepositType]
      BY <3>1, NoDepositFits DEF QueuesTyped
    <3> QED
      BY <3>4, <3>5, <3>6
  <2> QED
    BY <2>1, <2>2
<1>5. UNCHANGED <<public_prop_count, cancellations, agenda, now, voting_of, countVars>>
  BY DEF BlacklistProposal, enactVars
<1>6. QueuesTyped'
  BY <1>3, <1>4, <1>5 DEF QueuesTyped
<1> QED
  BY <1>2, <1>4, <1>5, <1>6, QuietEnd

(* Preimages, the agenda and the registry.                                 *)
LEMMA PreimageQuiet ==
    ASSUME DemocracyInv, NEW u, NEW id,
           NotePreimage(u, id) \/ NoteImminentPreimage(u, id) \/ ReapPreimage(u, id)
    PROVE  Quiet
<1>1. SameLocks(ledger, ledger')
  <2>1. IsLaidOut(ledger)
    BY DEF DemocracyInv, LocksTyped
  <2>2. CASE NotePreimage(u, id)
    BY <2>1, <2>2, ReserveKeepsLocks DEF NotePreimage
  <2>3. CASE NoteImminentPreimage(u, id)
    BY <2>1, <2>3, LedgerStays DEF NoteImminentPreimage
  <2>4. CASE ReapPreimage(u, id)
    BY <2>1, <2>4, TransferHeldKeepsLocks DEF ReapPreimage
  <2> QED
    BY <2>2, <2>3, <2>4
<1>2. UNCHANGED preimageFrame
  BY DEF NotePreimage, NoteImminentPreimage, ReapPreimage
<1>3. QueuesTyped'
  BY <1>2 DEF DemocracyInv, QueuesTyped, preimageFrame, queueVars
<1> QED
  BY <1>1, <1>2, <1>3, QuietQueue DEF preimageFrame

LEMMA CancelQueuedQuiet ==
    ASSUME DemocracyInv, NEW i, CancelQueued(i)
    PROVE  Quiet
<1>1. IsSequence(agenda')
  BY SequenceShrinks DEF DemocracyInv, QueuesTyped, CancelQueued
<1>2. QueuesTyped'
  BY <1>1 DEF DemocracyInv, QueuesTyped, CancelQueued, queueVars
<1>3. SameLocks(ledger, ledger')
  BY LedgerStays DEF DemocracyInv, LocksTyped, CancelQueued
<1> QED
  BY <1>2, <1>3, QuietQueue DEF CancelQueued

LEMMA RegistryQuiet ==
    ASSUME DemocracyInv, UNCHANGED <<now, ledger, democracyVars>>
    PROVE  Quiet
<1>1. QueuesTyped'
  BY DEF DemocracyInv, QueuesTyped, democracyVars, queueVars, enactVars
<1>2. SameLocks(ledger, ledger')
  BY LedgerStays DEF DemocracyInv, LocksTyped
<1> QED
  BY <1>1, <1>2, QuietQueue DEF democracyVars

LEMMA BeginBlockQuiet ==
    ASSUME DemocracyInv, BeginBlock
    PROVE  Quiet
<1> USE DEF DemocracyInv
<1> DEFINE n == now + 1
           last == referendum_count
           enacted == EnactDue(ChainNow, n)
           launched == IF n % LaunchPeriod = 0 THEN LaunchNext(enacted, n) ELSE enacted
           baked == BakeAll(launched, n, last)
           low == UnbakedFrom(lowest_unbaked, last, baked.info)
<1>1. /\ public_props' = baked.props /\ deposit_of' = baked.deposits
      /\ next_external' = baked.external /\ referendum_count' = baked.count
      /\ referendum_info' = baked.info /\ agenda' = baked.agenda
      /\ ledger' = baked.ledger /\ now' = n /\ lowest_unbaked' = low
      /\ UNCHANGED <<voting_of, public_prop_count, cancellations>>
  BY DEF BeginBlock
<1>2. n % LaunchPeriod = 0 /\ last = MaxReferenda => next_external = <<>> /\ public_props = <<>>
  BY DEF BeginBlock
<1>3. ChainTypeOK(ChainNow) /\ ChainNow.count = last /\ ChainNow.info = referendum_info
      /\ ChainNow.external = next_external /\ ChainNow.props = public_props
      /\ ChainNow.ledger = ledger
  BY DEF ChainTypeOK, ChainNow, IsChain, QueuesTyped, LocksTyped, CountsTyped
<1>4. n \in Nat /\ last \in 0..MaxReferenda /\ lowest_unbaked \in Nat /\ last \in Nat
      /\ lowest_unbaked <= last
  BY DemocracyTypes DEF CountsTyped
<1>5. OnlyPays(ChainNow, enacted) /\ ChainTypeOK(enacted)
  BY <1>3, EnactDuePays, OnlyPaysKeepsType DEF ChainTypeOK
<1> HIDE DEF enacted, n
<1>6. Launches(enacted, launched)
  <2>1. CASE n % LaunchPeriod = 0
    <3>1. enacted.count = MaxReferenda => enacted.external = <<>> /\ enacted.props = <<>>
      BY <1>2, <1>3, <1>5, <2>1 DEF OnlyPays
    <3> QED
      BY <1>4, <1>5, <2>1, <3>1, LaunchNextOpens
  <2>2. CASE n % LaunchPeriod # 0
    BY <1>5, <2>2 DEF Launches, SameLocks, ChainTypeOK
  <2> QED
    BY <2>1, <2>2
<1> HIDE DEF launched, last
<1>7. Closes(launched, baked)
  BY <1>4, <1>6, BakeAllCloses DEF Launches
<1> HIDE DEF baked, low
<1>8. SameLocks(ledger, ledger')
  BY <1>1, <1>3, <1>5, <1>6, <1>7, SameLocksTwice DEF OnlyPays, Launches, Closes
<1>9. ChainTypeOK(baked)
  BY <1>7 DEF Closes
<1>10. QueuesTyped'
  BY <1>1, <1>9 DEF QueuesTyped, ChainTypeOK
<1>11. /\ launched.count \in {last, last + 1} /\ baked.count = launched.count
  BY <1>3, <1>5, <1>6, <1>7 DEF OnlyPays, Launches, Opens, Closes
<1>12. /\ low \in lowest_unbaked..last
       /\ \A i \in lowest_unbaked..(low - 1) : baked.info[i].kind # "ongoing"
  BY <1>4, UnbakedFirst DEF low
<1>13. CountsTyped'
  <2>1. baked.count \in 0..MaxReferenda
    BY <1>9 DEF ChainTypeOK
  <2>2. low \in 0..baked.count
    BY <1>4, <1>11, <1>12
  <2> QED
    BY <1>1, <1>4, <2>1, <2>2 DEF CountsTyped
<1>14. referendum_info' \in StatusesType
  BY <1>1, <1>9 DEF ChainTypeOK
<1>15. InfoMoves
  <2>1. referendum_count' \in {referendum_count, referendum_count + 1}
    BY <1>1, <1>11 DEF last
  <2>2. ASSUME NEW j \in RefIds
        PROVE  \/ referendum_info'[j] = referendum_info[j]
               \/ referendum_info'[j].kind # "ongoing"
               \/ /\ j = referendum_count /\ referendum_count' = referendum_count + 1
                  /\ referendum_info'[j].tally = NoTally
    <3>1. baked.info[j] = launched.info[j] \/ baked.info[j].kind # "ongoing"
      BY <1>7 DEF Closes
    <3>2. enacted.info = referendum_info /\ enacted.count = referendum_count
      BY <1>3, <1>5 DEF OnlyPays, last
    <3>3. CASE launched.info = enacted.info
      BY <1>1, <3>1, <3>2, <3>3
    <3>4. CASE Opens(enacted, launched)
      <4>1. PICK s \in StatusType :
               s.tally = NoTally /\ launched.info = [enacted.info EXCEPT ![enacted.count] = s]
        BY <3>4 DEF Opens
      <4>2. launched.info[j] = IF j = referendum_count THEN s ELSE referendum_info[j]
        BY <3>2, <4>1 DEF StatusesType
      <4>3. referendum_count' = referendum_count + 1
        BY <1>1, <1>11, <3>2, <3>4 DEF Opens
      <4> QED
        BY <1>1, <3>1, <4>1, <4>2, <4>3
    <3> QED
      BY <1>6, <3>3, <3>4 DEF Launches
  <2> QED
    BY <2>1, <2>2 DEF InfoMoves
<1>16. \A i \in RefIds : i < lowest_unbaked' => i < lowest_unbaked \/ ~ Ongoing(i)'
  <2> SUFFICES ASSUME NEW i \in RefIds, i < low, ~ (i < lowest_unbaked)
               PROVE  baked.info[i].kind # "ongoing"
    BY <1>1 DEF Ongoing
  <2>1. i \in lowest_unbaked..(low - 1)
    <3>1. i \in Int /\ low \in Int
      BY <1>4, <1>12 DEF RefIds
    <3> QED
      BY <1>4, <3>1
  <2> QED
    BY <1>12, <2>1
<1> QED
  BY <1>1, <1>8, <1>10, <1>13, <1>14, <1>15, <1>16 DEF Quiet

-----------------------------------------------------------------------------
(* Votes and tallies as numbers.                                           *)

LEMMA PowerFacts ==
    ASSUME NEW conviction \in 0..6, NEW n \in Nat
    PROVE  Power(conviction, n) \in PowerType
<1>1. n \div 10 \in Nat /\ n * conviction \in Nat
  OBVIOUS
<1> QED
  BY <1>1 DEF Power, PowerType

LEMMA OnSideFacts ==
    ASSUME NEW p \in PowerType, NEW aye
    PROVE  OnSide(aye, p) \in TallyType
BY DEF OnSide, PowerType, TallyType

LEMMA VoteFacts ==
    ASSUME NEW v \in AccountVotes
    PROVE  /\ v # NoVote /\ v.kind \in {"standard", "split"}
           /\ VoteBalance(v) \in Nat /\ VoteTally(v) \in TallyType
           /\ v.kind = "standard" => /\ v.conviction \in 0..6 /\ v.balance \in Nat
                                     /\ v.aye \in BOOLEAN
<1>1. v \in AccountVoteType
  BY DemocracyTypes
<1>2. CASE v \in [kind: {"standard"}, aye: BOOLEAN, conviction: 0..6, balance: Nat]
  <2>1. v.kind = "standard" /\ v.conviction \in 0..6 /\ v.balance \in Nat /\ v.aye \in BOOLEAN
    BY <1>2
  <2>2. Power(v.conviction, v.balance) \in PowerType
    BY <2>1, PowerFacts
  <2>3. VoteTally(v) \in TallyType
    BY <2>1, <2>2, OnSideFacts DEF VoteTally
  <2> QED
    BY <2>1, <2>3 DEF NoVote, VoteBalance
<1>3. CASE v \in [kind: {"split"}, aye: Nat, nay: Nat]
  <2>1. v.kind = "split" /\ v.aye \in Nat /\ v.nay \in Nat
    BY <1>3
  <2>2. Power(0, v.aye) \in PowerType /\ Power(0, v.nay) \in PowerType
    BY <2>1, PowerFacts
  <2>3. Power(0, v.aye).votes \in Nat /\ Power(0, v.nay).votes \in Nat
    BY <2>2 DEF PowerType
  <2>4. VoteTally(v) \in TallyType
    BY <2>1, <2>3 DEF VoteTally, TallyType
  <2> QED
    BY <2>1, <2>4 DEF NoVote, VoteBalance
<1> QED
  BY <1>1, <1>2, <1>3 DEF AccountVoteType

LEMMA FollowersFacts ==
    ASSUME NEW v, NEW p \in PowerType
    PROVE  Followers(v, p) \in TallyType
BY OnSideFacts DEF Followers, NoTally, TallyType

LEMMA TallySums ==
    ASSUME NEW t \in TallyType, NEW u \in TallyType
    PROVE  /\ TallyPlus(t, u) \in TallyType
           /\ TallyPlus(t, u).ayes = t.ayes + u.ayes
           /\ TallyPlus(t, u).nays = t.nays + u.nays
           /\ TallyPlus(t, u).turnout = t.turnout + u.turnout
           /\ TallyMinus(t, u) \in TallyType
           /\ TallyCovers(t, u) => /\ TallyMinus(t, u).ayes = t.ayes - u.ayes
                                   /\ TallyMinus(t, u).nays = t.nays - u.nays
                                   /\ TallyMinus(t, u).turnout = t.turnout - u.turnout
<1>1. /\ t.ayes \in Nat /\ t.nays \in Nat /\ t.turnout \in Nat
      /\ u.ayes \in Nat /\ u.nays \in Nat /\ u.turnout \in Nat
  BY DEF TallyType
<1>2. \A x, y \in Nat : SatSub(x, y) \in Nat /\ (x >= y => SatSub(x, y) = x - y)
  BY DEF SatSub
<1>3. /\ TallyPlus(t, u) \in TallyType
      /\ TallyPlus(t, u).ayes = t.ayes + u.ayes
      /\ TallyPlus(t, u).nays = t.nays + u.nays
      /\ TallyPlus(t, u).turnout = t.turnout + u.turnout
  BY <1>1 DEF TallyPlus, TallyType
<1> DEFINE a == SatSub(t.ayes, u.ayes)
           n == SatSub(t.nays, u.nays)
           o == SatSub(t.turnout, u.turnout)
<1>4. /\ a \in Nat /\ n \in Nat /\ o \in Nat
      /\ TallyCovers(t, u) =>
            a = t.ayes - u.ayes /\ n = t.nays - u.nays /\ o = t.turnout - u.turnout
  BY <1>1, <1>2 DEF TallyCovers
<1>5. TallyMinus(t, u) = [ayes |-> a, nays |-> n, turnout |-> o]
  BY DEF TallyMinus
<1> HIDE DEF a, n, o
<1> QED
  BY <1>3, <1>4, <1>5 DEF TallyType

LEMMA TallyEqual ==
    ASSUME NEW t \in TallyType, NEW u \in TallyType,
           t.ayes = u.ayes, t.nays = u.nays, t.turnout = u.turnout
    PROVE  t = u
BY DEF TallyType

LEMMA PowerEqual ==
    ASSUME NEW p \in PowerType, NEW q \in PowerType, p.votes = q.votes, p.capital = q.capital
    PROVE  p = q
BY DEF PowerType

LEMMA PowerSums ==
    ASSUME NEW p \in PowerType, NEW q \in PowerType
    PROVE  /\ p.votes \in Nat /\ p.capital \in Nat
           /\ PowerPlus(p, q) \in PowerType
           /\ PowerPlus(p, q).votes = p.votes + q.votes
           /\ PowerPlus(p, q).capital = p.capital + q.capital
           /\ PowerMinus(p, q) \in PowerType
           /\ p.votes >= q.votes => PowerMinus(p, q).votes = p.votes - q.votes
           /\ p.capital >= q.capital => PowerMinus(p, q).capital = p.capital - q.capital
<1>1. /\ p.votes \in Nat /\ p.capital \in Nat /\ q.votes \in Nat /\ q.capital \in Nat
  BY DEF PowerType
<1>2. \A x, y \in Nat : SatSub(x, y) \in Nat /\ (x >= y => SatSub(x, y) = x - y)
  BY DEF SatSub
<1>3. /\ PowerPlus(p, q) \in PowerType
      /\ PowerPlus(p, q).votes = p.votes + q.votes
      /\ PowerPlus(p, q).capital = p.capital + q.capital
  BY <1>1 DEF PowerPlus, PowerType
<1> DEFINE v == SatSub(p.votes, q.votes)
           c == SatSub(p.capital, q.capital)
<1>4. /\ v \in Nat /\ c \in Nat
      /\ p.votes >= q.votes => v = p.votes - q.votes
      /\ p.capital >= q.capital => c = p.capital - q.capital
  BY <1>1, <1>2
<1>5. PowerMinus(p, q) = [votes |-> v, capital |-> c]
  BY DEF PowerMinus
<1> HIDE DEF v, c
<1> QED
  BY <1>1, <1>3, <1>4, <1>5 DEF PowerType

(* What an account's vote adds, with the votes behind it, as three sums.   *)
LEMMA WithVoteFields ==
    ASSUME NEW t \in TallyType, NEW v \in AccountVotes, NEW p \in PowerType
    PROVE  LET x == VoteTally(v)
               f == Followers(v, p)
               w == WithVote(t, v, p)
           IN /\ x \in TallyType /\ f \in TallyType /\ w \in TallyType
              /\ w.ayes = t.ayes + x.ayes + f.ayes
              /\ w.nays = t.nays + x.nays + f.nays
              /\ w.turnout = t.turnout + x.turnout + f.turnout
<1> DEFINE x == VoteTally(v)
           f == Followers(v, p)
           y == TallyPlus(t, x)
<1>1. x \in TallyType /\ f \in TallyType
  BY VoteFacts, FollowersFacts
<1> HIDE DEF x, f
<1>2. /\ y \in TallyType /\ y.ayes = t.ayes + x.ayes /\ y.nays = t.nays + x.nays
      /\ y.turnout = t.turnout + x.turnout
  BY <1>1, TallySums
<1> HIDE DEF y
<1>3. /\ TallyPlus(y, f) \in TallyType /\ TallyPlus(y, f).ayes = y.ayes + f.ayes
      /\ TallyPlus(y, f).nays = y.nays + f.nays
      /\ TallyPlus(y, f).turnout = y.turnout + f.turnout
  BY <1>1, <1>2, TallySums
<1>4. WithVote(t, v, p) = TallyPlus(y, f)
  BY DEF WithVote, x, f, y
<1> QED
  BY <1>1, <1>2, <1>3, <1>4 DEF x, f

(* Taking a counted vote out again is exact.                               *)
LEMMA WithoutVoteFields ==
    ASSUME NEW t \in TallyType, NEW v \in AccountVotes, NEW p \in PowerType,
           TallyCovers(t, WithVote(NoTally, v, p))
    PROVE  LET c == WithVote(NoTally, v, p)
               w == WithoutVote(t, v, p)
           IN /\ c \in TallyType /\ w \in TallyType
              /\ w.ayes = t.ayes - c.ayes
              /\ w.nays = t.nays - c.nays
              /\ w.turnout = t.turnout - c.turnout
              /\ TallyCovers(t, VoteTally(v))
<1> DEFINE x == VoteTally(v)
           f == Followers(v, p)
           c == WithVote(NoTally, v, p)
           y == TallyMinus(t, x)
<1>1. NoTally \in TallyType /\ NoTally.ayes = 0 /\ NoTally.nays = 0 /\ NoTally.turnout = 0
  BY DEF NoTally, TallyType
<1>2. /\ x \in TallyType /\ f \in TallyType /\ c \in TallyType
      /\ c.ayes = 0 + x.ayes + f.ayes
      /\ c.nays = 0 + x.nays + f.nays
      /\ c.turnout = 0 + x.turnout + f.turnout
  BY <1>1, WithVoteFields
<1>3. WithoutVote(t, v, p) = TallyMinus(y, f)
  BY DEF WithoutVote
<1>4. TallyCovers(t, c)
  OBVIOUS
<1> HIDE DEF x, f, c
<1>5. /\ x.ayes \in Nat /\ x.nays \in Nat /\ x.turnout \in Nat
      /\ f.ayes \in Nat /\ f.nays \in Nat /\ f.turnout \in Nat
      /\ t.ayes \in Nat /\ t.nays \in Nat /\ t.turnout \in Nat
  BY <1>2 DEF TallyType
<1>6. TallyCovers(t, x)
  BY <1>2, <1>4, <1>5 DEF TallyCovers
<1>7. /\ y \in TallyType /\ y.ayes = t.ayes - x.ayes /\ y.nays = t.nays - x.nays
      /\ y.turnout = t.turnout - x.turnout
  BY <1>2, <1>6, TallySums
<1> HIDE DEF y
<1>8. TallyCovers(y, f)
  BY <1>2, <1>4, <1>5, <1>7 DEF TallyCovers
<1> DEFINE z == TallyMinus(y, f)
<1>9. /\ z \in TallyType /\ z.ayes = y.ayes - f.ayes /\ z.nays = y.nays - f.nays
      /\ z.turnout = y.turnout - f.turnout
  BY <1>2, <1>7, <1>8, TallySums
<1> HIDE DEF z
<1>10. z.ayes = t.ayes - c.ayes /\ z.nays = t.nays - c.nays /\ z.turnout = t.turnout - c.turnout
  BY <1>2, <1>5, <1>7, <1>9
<1>11. WithoutVote(t, v, p) = z
  BY <1>3 DEF z
<1> QED
  BY <1>2, <1>6, <1>9, <1>10, <1>11 DEF c, x

-----------------------------------------------------------------------------
(* Counting: the tally of a referendum and the delegations to an account   *)
(* as sums over the accounts, for any VotingOf.                            *)

LEMMA VotingFields ==
    ASSUME NEW x \in VotingType
    PROVE  /\ x.kind \in {"direct", "delegating"} /\ x.delegations \in PowerType
           /\ x.prior \in PriorType
           /\ x.kind = "direct" => x.votes \in [RefIds -> AccountVotes \cup {NoVote}]
           /\ x.kind = "delegating" =>
                 x.balance \in Nat /\ x.target \in Voters /\ x.conviction \in 0..6
BY DEF VotingType

LEMMA NothingCounts ==
    /\ NoTally \in TallyType /\ NoTally.ayes = 0 /\ NoTally.nays = 0 /\ NoTally.turnout = 0
    /\ NoPower \in PowerType /\ NoPower.votes = 0 /\ NoPower.capital = 0
BY DEF NoTally, TallyType, NoPower, PowerType

LEMMA CountedFacts ==
    ASSUME NEW x \in VotingType, NEW i \in RefIds
    PROVE  /\ CountedFor(x, i) \in TallyType
           /\ CountedFor(x, i).ayes \in Nat /\ CountedFor(x, i).nays \in Nat
           /\ CountedFor(x, i).turnout \in Nat
<1>1. CountedFor(x, i) \in TallyType
  <2>1. CASE x.kind = "direct" /\ x.votes[i] # NoVote
    <3>1. x.votes[i] \in AccountVotes /\ x.delegations \in PowerType
      BY <2>1, VotingFields
    <3>2. WithVote(NoTally, x.votes[i], x.delegations) \in TallyType
      BY <3>1, NothingCounts, WithVoteFields
    <3> QED
      BY <2>1, <3>2 DEF CountedFor
  <2>2. CASE ~(x.kind = "direct" /\ x.votes[i] # NoVote)
    BY <2>2, NothingCounts DEF CountedFor
  <2> QED
    BY <2>1, <2>2
<1> QED
  BY <1>1 DEF TallyType

LEMMA GivenFacts ==
    ASSUME NEW x \in VotingType, NEW to
    PROVE  /\ GivenTo(x, to) \in PowerType
           /\ GivenTo(x, to).votes \in Nat /\ GivenTo(x, to).capital \in Nat
<1>1. GivenTo(x, to) \in PowerType
  BY VotingFields, PowerFacts, NothingCounts DEF GivenTo
<1> QED
  BY <1>1 DEF PowerType

Ayes(V, a, i) == [u \in Voters |-> CountedFor(V[u][a], i).ayes]
Nays(V, a, i) == [u \in Voters |-> CountedFor(V[u][a], i).nays]
Turnout(V, a, i) == [u \in Voters |-> CountedFor(V[u][a], i).turnout]
Count(V, a, i) ==
    [ayes    |-> SumFunctionOnSet(Ayes(V, a, i), Voters),
     nays    |-> SumFunctionOnSet(Nays(V, a, i), Voters),
     turnout |-> SumFunctionOnSet(Turnout(V, a, i), Voters)]

Votes(V, a, to) == [u \in Voters |-> GivenTo(V[u][a], to).votes]
Capital(V, a, to) == [u \in Voters |-> GivenTo(V[u][a], to).capital]
Given(V, a, to) ==
    [votes   |-> SumFunctionOnSet(Votes(V, a, to), Voters),
     capital |-> SumFunctionOnSet(Capital(V, a, to), Voters)]

TalliesMatch(V, info) ==
    \A i \in RefIds : info[i].kind = "ongoing" => info[i].tally = Count(V, info[i].id[2], i)
DelegationsMatch(V) ==
    \A u \in Voters, a \in VotedAssets : V[u][a].delegations = Given(V, a, u)

LEMMA MatchIs ==
    TallyMatchesVotes <=>
        TalliesMatch(voting_of, referendum_info) /\ DelegationsMatch(voting_of)
<1>1. \A i \in RefIds : CountOf(i) = Count(voting_of, referendum_info[i].id[2], i)
  BY DEF CountOf, Count, Ayes, Nays, Turnout, SumFunction
<1>2. \A u \in Voters, a \in VotedAssets : DelegatedTo(u, a) = Given(voting_of, a, u)
  BY DEF DelegatedTo, Given, Votes, Capital, SumFunction
<1> QED
  BY <1>1, <1>2 DEF TallyMatchesVotes, TalliesMatch, DelegationsMatch, Ongoing

LEMMA MatchIsNext ==
    TallyMatchesVotes' <=>
        TalliesMatch(voting_of', referendum_info') /\ DelegationsMatch(voting_of')
<1>1. \A i \in RefIds : CountOf(i)' = Count(voting_of', referendum_info'[i].id[2], i)
  BY DEF CountOf, Count, Ayes, Nays, Turnout, SumFunction
<1>2. \A u \in Voters, a \in VotedAssets : DelegatedTo(u, a)' = Given(voting_of', a, u)
  BY DEF DelegatedTo, Given, Votes, Capital, SumFunction
<1> QED
  BY <1>1, <1>2 DEF TallyMatchesVotes, TalliesMatch, DelegationsMatch, Ongoing

LEMMA CountFacts ==
    ASSUME NEW V \in VotingsType, NEW a \in VotedAssets, NEW i \in RefIds
    PROVE  /\ Count(V, a, i) \in TallyType
           /\ \A u \in Voters : TallyCovers(Count(V, a, i), CountedFor(V[u][a], i))
<1>1. \A u \in Voters : V[u][a] \in VotingType
  BY DEF VotingsType
<1>2. IsFiniteSet(Voters)
  BY DemocracyTypes
<1> DEFINE f == Ayes(V, a, i)
           g == Nays(V, a, i)
           h == Turnout(V, a, i)
<1>3. \A u \in Voters : f[u] \in Nat /\ g[u] \in Nat /\ h[u] \in Nat
  BY <1>1, CountedFacts DEF Ayes, Nays, Turnout
<1>4. \A u \in Voters : /\ f[u] = CountedFor(V[u][a], i).ayes
                        /\ g[u] = CountedFor(V[u][a], i).nays
                        /\ h[u] = CountedFor(V[u][a], i).turnout
  BY DEF Ayes, Nays, Turnout
<1> HIDE DEF f, g, h
<1>5. /\ SumFunctionOnSet(f, Voters) \in Nat
      /\ SumFunctionOnSet(g, Voters) \in Nat
      /\ SumFunctionOnSet(h, Voters) \in Nat
  BY <1>2, <1>3, SumType
<1>6. \A u \in Voters : /\ f[u] <= SumFunctionOnSet(f, Voters)
                        /\ g[u] <= SumFunctionOnSet(g, Voters)
                        /\ h[u] <= SumFunctionOnSet(h, Voters)
  BY <1>2, <1>3, SumBounds
<1>7. Count(V, a, i) = [ayes |-> SumFunctionOnSet(f, Voters),
                        nays |-> SumFunctionOnSet(g, Voters),
                        turnout |-> SumFunctionOnSet(h, Voters)]
  BY DEF Count, f, g, h
<1>8. Count(V, a, i) \in TallyType
  BY <1>5, <1>7 DEF TallyType
<1>9. ASSUME NEW u \in Voters PROVE TallyCovers(Count(V, a, i), CountedFor(V[u][a], i))
  BY <1>3, <1>4, <1>5, <1>6, <1>7 DEF TallyCovers
<1> QED
  BY <1>8, <1>9

(* One account's vote changes.                                             *)
LEMMA CountChange ==
    ASSUME NEW V \in VotingsType, NEW W \in VotingsType, NEW a \in VotedAssets,
           NEW i \in RefIds, NEW u \in Voters,
           \A w \in Voters \ {u} : CountedFor(W[w][a], i) = CountedFor(V[w][a], i)
    PROVE  LET c == Count(V, a, i)
               d == Count(W, a, i)
               old == CountedFor(V[u][a], i)
               new == CountedFor(W[u][a], i)
           IN /\ d.ayes = c.ayes - old.ayes + new.ayes
              /\ d.nays = c.nays - old.nays + new.nays
              /\ d.turnout = c.turnout - old.turnout + new.turnout
<1>1. \A w \in Voters : V[w][a] \in VotingType /\ W[w][a] \in VotingType
  BY DEF VotingsType
<1>2. IsFiniteSet(Voters)
  BY DemocracyTypes
<1>3. ASSUME NEW w \in Voters
      PROVE  /\ Ayes(V, a, i)[w] = CountedFor(V[w][a], i).ayes /\ Ayes(V, a, i)[w] \in Int
             /\ Nays(V, a, i)[w] = CountedFor(V[w][a], i).nays /\ Nays(V, a, i)[w] \in Int
             /\ Turnout(V, a, i)[w] = CountedFor(V[w][a], i).turnout
             /\ Turnout(V, a, i)[w] \in Int
             /\ Ayes(W, a, i)[w] = CountedFor(W[w][a], i).ayes /\ Ayes(W, a, i)[w] \in Int
             /\ Nays(W, a, i)[w] = CountedFor(W[w][a], i).nays /\ Nays(W, a, i)[w] \in Int
             /\ Turnout(W, a, i)[w] = CountedFor(W[w][a], i).turnout
             /\ Turnout(W, a, i)[w] \in Int
  BY <1>1, CountedFacts DEF Ayes, Nays, Turnout
<1>4. \A w \in Voters \ {u} : /\ Ayes(V, a, i)[w] = Ayes(W, a, i)[w]
                              /\ Nays(V, a, i)[w] = Nays(W, a, i)[w]
                              /\ Turnout(V, a, i)[w] = Turnout(W, a, i)[w]
  BY <1>3
<1>5. /\ SumFunctionOnSet(Ayes(W, a, i), Voters) =
            SumFunctionOnSet(Ayes(V, a, i), Voters) - Ayes(V, a, i)[u] + Ayes(W, a, i)[u]
      /\ SumFunctionOnSet(Nays(W, a, i), Voters) =
            SumFunctionOnSet(Nays(V, a, i), Voters) - Nays(V, a, i)[u] + Nays(W, a, i)[u]
      /\ SumFunctionOnSet(Turnout(W, a, i), Voters) =
            SumFunctionOnSet(Turnout(V, a, i), Voters)
               - Turnout(V, a, i)[u] + Turnout(W, a, i)[u]
  BY <1>2, <1>3, <1>4, SumChange
<1> QED
  BY <1>3, <1>5 DEF Count

LEMMA CountSame ==
    ASSUME NEW V, NEW W, NEW a, NEW i,
           \A w \in Voters : CountedFor(W[w][a], i) = CountedFor(V[w][a], i)
    PROVE  Count(W, a, i) = Count(V, a, i)
<1>1. /\ Ayes(W, a, i) = Ayes(V, a, i) /\ Nays(W, a, i) = Nays(V, a, i)
      /\ Turnout(W, a, i) = Turnout(V, a, i)
  BY DEF Ayes, Nays, Turnout
<1> QED
  BY <1>1 DEF Count

LEMMA CountNone ==
    ASSUME NEW V, NEW a, NEW i, \A w \in Voters : CountedFor(V[w][a], i) = NoTally
    PROVE  Count(V, a, i) = NoTally
<1>1. IsFiniteSet(Voters)
  BY DemocracyTypes
<1>2. \A w \in Voters : /\ Ayes(V, a, i)[w] = 0 /\ Nays(V, a, i)[w] = 0
                        /\ Turnout(V, a, i)[w] = 0
  BY NothingCounts DEF Ayes, Nays, Turnout
<1>3. /\ SumFunctionOnSet(Ayes(V, a, i), Voters) = 0
      /\ SumFunctionOnSet(Nays(V, a, i), Voters) = 0
      /\ SumFunctionOnSet(Turnout(V, a, i), Voters) = 0
  BY <1>1, <1>2, SumZero
<1> QED
  BY <1>3 DEF Count, NoTally

LEMMA GivenSums ==
    ASSUME NEW V \in VotingsType, NEW a \in VotedAssets, NEW to
    PROVE  /\ Given(V, a, to) \in PowerType
           /\ \A u \in Voters : /\ GivenTo(V[u][a], to).votes <= Given(V, a, to).votes
                                /\ GivenTo(V[u][a], to).capital <= Given(V, a, to).capital
<1>1. \A u \in Voters : V[u][a] \in VotingType
  BY DEF VotingsType
<1>2. IsFiniteSet(Voters)
  BY DemocracyTypes
<1> DEFINE f == Votes(V, a, to)
           g == Capital(V, a, to)
<1>3. \A u \in Voters : /\ f[u] \in Nat /\ g[u] \in Nat
                        /\ f[u] = GivenTo(V[u][a], to).votes
                        /\ g[u] = GivenTo(V[u][a], to).capital
  BY <1>1, GivenFacts DEF Votes, Capital
<1> HIDE DEF f, g
<1>4. SumFunctionOnSet(f, Voters) \in Nat /\ SumFunctionOnSet(g, Voters) \in Nat
  BY <1>2, <1>3, SumType
<1>5. \A u \in Voters : /\ f[u] <= SumFunctionOnSet(f, Voters)
                        /\ g[u] <= SumFunctionOnSet(g, Voters)
  BY <1>2, <1>3, SumBounds
<1>6. Given(V, a, to) = [votes |-> SumFunctionOnSet(f, Voters),
                         capital |-> SumFunctionOnSet(g, Voters)]
  BY DEF Given, f, g
<1> QED
  BY <1>3, <1>4, <1>5, <1>6 DEF PowerType

LEMMA GivenChange ==
    ASSUME NEW V \in VotingsType, NEW W \in VotingsType, NEW a \in VotedAssets, NEW to,
           NEW u \in Voters,
           \A w \in Voters \ {u} : GivenTo(W[w][a], to) = GivenTo(V[w][a], to)
    PROVE  /\ Given(W, a, to).votes = Given(V, a, to).votes
                 - GivenTo(V[u][a], to).votes + GivenTo(W[u][a], to).votes
           /\ Given(W, a, to).capital = Given(V, a, to).capital
                 - GivenTo(V[u][a], to).capital + GivenTo(W[u][a], to).capital
<1>1. \A w \in Voters : V[w][a] \in VotingType /\ W[w][a] \in VotingType
  BY DEF VotingsType
<1>2. IsFiniteSet(Voters)
  BY DemocracyTypes
<1>3. ASSUME NEW w \in Voters
      PROVE  /\ Votes(V, a, to)[w] = GivenTo(V[w][a], to).votes /\ Votes(V, a, to)[w] \in Int
             /\ Capital(V, a, to)[w] = GivenTo(V[w][a], to).capital
             /\ Capital(V, a, to)[w] \in Int
             /\ Votes(W, a, to)[w] = GivenTo(W[w][a], to).votes /\ Votes(W, a, to)[w] \in Int
             /\ Capital(W, a, to)[w] = GivenTo(W[w][a], to).capital
             /\ Capital(W, a, to)[w] \in Int
  BY <1>1, GivenFacts DEF Votes, Capital
<1>4. \A w \in Voters \ {u} : /\ Votes(V, a, to)[w] = Votes(W, a, to)[w]
                              /\ Capital(V, a, to)[w] = Capital(W, a, to)[w]
  BY <1>3
<1>5. /\ SumFunctionOnSet(Votes(W, a, to), Voters) =
            SumFunctionOnSet(Votes(V, a, to), Voters)
               - Votes(V, a, to)[u] + Votes(W, a, to)[u]
      /\ SumFunctionOnSet(Capital(W, a, to), Voters) =
            SumFunctionOnSet(Capital(V, a, to), Voters)
               - Capital(V, a, to)[u] + Capital(W, a, to)[u]
  BY <1>2, <1>3, <1>4, SumChange
<1> QED
  BY <1>3, <1>5 DEF Given

LEMMA GivenSame ==
    ASSUME NEW V, NEW W, NEW a, NEW to,
           \A w \in Voters : GivenTo(W[w][a], to) = GivenTo(V[w][a], to)
    PROVE  Given(W, a, to) = Given(V, a, to)
<1>1. Votes(W, a, to) = Votes(V, a, to) /\ Capital(W, a, to) = Capital(V, a, to)
  BY DEF Votes, Capital
<1> QED
  BY <1>1 DEF Given

-----------------------------------------------------------------------------
(* Steps that touch neither votes nor locks keep the invariant.            *)

(* x is covered by a lock.                                                 *)
Covered(x, lock) ==
    IF x.kind = "delegating" THEN lock >= x.balance
    ELSE \A i \in VotedOn(x) : lock >= VoteBalance(x.votes[i])

LEMMA CoveredIs ==
    LockCoversVotes <=>
        \A u \in Voters, a \in VotedAssets : Covered(voting_of[u][a], ledger[a][u].frozen)
BY DEF LockCoversVotes, Covered

LEMMA NotOpenedNotCounted ==
    ASSUME DemocracyInv, NEW i \in RefIds, i >= referendum_count, NEW a \in VotedAssets
    PROVE  Count(voting_of, a, i) = NoTally
<1>1. ASSUME NEW w \in Voters PROVE CountedFor(voting_of[w][a], i) = NoTally
  <2>1. ~ (i < referendum_count)
    BY DemocracyTypes DEF DemocracyInv, CountsTyped, RefIds
  <2>2. ~ (voting_of[w][a].kind = "direct" /\ voting_of[w][a].votes[i] # NoVote)
    BY <2>1 DEF DemocracyInv, VotesPlaced
  <2> QED
    BY <2>2 DEF CountedFor
<1> QED
  BY <1>1, CountNone

LEMMA OngoingFields ==
    ASSUME NEW s \in StatusType, s.kind = "ongoing"
    PROVE  s.id \in ProposalIds /\ s.id[2] \in VotedAssets /\ s.tally \in TallyType
<1>1. s.id \in ProposalIds /\ s.tally \in TallyType
  BY DEF StatusType, NoInfo
<1> QED
  BY <1>1 DEF ProposalIds

LEMMA QuietKeeps ==
    ASSUME DemocracyInv, Quiet
    PROVE  DemocracyInv'
<1> USE DEF DemocracyInv
<1>1. LocksTyped' /\ voting_of' = voting_of /\ voting_of' \in VotingsType
  BY LocksKept DEF Quiet
<1>2. VotesPlaced'
  BY PlacesKept DEF Quiet
<1>3. NoneToOneself'
  BY <1>1 DEF NoneToOneself
<1>4. NoneForgotten'
  <2> SUFFICES ASSUME NEW i \in RefIds, Ongoing(i)'
               PROVE  i >= lowest_unbaked' /\ i < referendum_count'
    BY DEF NoneForgotten
  <2>1. ASSUME i < lowest_unbaked' PROVE FALSE
    <3>1. i < lowest_unbaked
      BY <2>1 DEF Quiet
    <3>2. /\ i \in Nat /\ lowest_unbaked \in Nat /\ referendum_count \in Nat
          /\ lowest_unbaked <= referendum_count
      BY DemocracyTypes DEF CountsTyped, RefIds
    <3>3. referendum_info'[i] = referendum_info[i]
      BY <3>1, <3>2 DEF Quiet, InfoMoves, Ongoing
    <3>4. Ongoing(i)
      BY <3>3 DEF Ongoing
    <3> QED
      BY <3>1, <3>2, <3>4 DEF NoneForgotten
  <2>2. i \in Int /\ lowest_unbaked' \in Int
    BY DEF RefIds, Quiet, CountsTyped
  <2>3. i < referendum_count'
    <3>1. i \in Int /\ referendum_count \in Int
          /\ referendum_count' \in {referendum_count, referendum_count + 1}
      BY DEF RefIds, Quiet, InfoMoves, CountsTyped
    <3>2. CASE referendum_info'[i] = referendum_info[i]
      <4>1. Ongoing(i)
        BY <3>2 DEF Ongoing
      <4>2. i < referendum_count
        BY <4>1 DEF NoneForgotten
      <4> QED
        BY <3>1, <4>2
    <3>3. CASE i = referendum_count /\ referendum_count' = referendum_count + 1
      BY <3>1, <3>3
    <3> QED
      BY <3>2, <3>3 DEF Quiet, InfoMoves, Ongoing
  <2> QED
    BY <2>1, <2>2, <2>3
<1>5. LockCoversVotes'
  <2>1. \A u \in Voters, a \in VotedAssets : ledger'[a][u].frozen = ledger[a][u].frozen
    BY DemocracyTypes DEF Quiet, SameLocks, Accounts
  <2>2. (\A u \in Voters, a \in VotedAssets : Covered(voting_of[u][a], ledger[a][u].frozen))'
    <3>1. \A u \in Voters, a \in VotedAssets : Covered(voting_of[u][a], ledger[a][u].frozen)
      BY CoveredIs
    <3> QED
      BY <1>1, <2>1, <3>1
  <2> QED
    BY <2>2, CoveredIs, PTL
<1>6. TallyMatchesVotes'
  <2>1. TalliesMatch(voting_of, referendum_info) /\ DelegationsMatch(voting_of)
    BY MatchIs
  <2>2. ASSUME NEW i \in RefIds, referendum_info'[i].kind = "ongoing"
        PROVE  referendum_info'[i].tally = Count(voting_of, referendum_info'[i].id[2], i)
    <3>1. CASE referendum_info'[i] = referendum_info[i]
      BY <2>1, <2>2, <3>1 DEF TalliesMatch
    <3>2. CASE i = referendum_count /\ referendum_info'[i].tally = NoTally
      <4>1. referendum_info'[i].id[2] \in VotedAssets
        BY <2>2, OngoingFields DEF Quiet, StatusesType
      <4>2. i >= referendum_count
        BY <3>2 DEF CountsTyped
      <4> QED
        BY <3>2, <4>1, <4>2, NotOpenedNotCounted
    <3> QED
      BY <2>2, <3>1, <3>2 DEF Quiet, InfoMoves
  <2>3. (TalliesMatch(voting_of, referendum_info) /\ DelegationsMatch(voting_of))'
    BY <1>1, <2>1, <2>2 DEF TalliesMatch
  <2> QED
    BY <2>3, MatchIs, PTL
<1> QED
  BY <1>1, <1>2, <1>3, <1>4, <1>5, <1>6 DEF Quiet

-----------------------------------------------------------------------------
(* Votes, their removal, and unlocking: one account's own entry.           *)

SetsVoting(V, u, a, y, W) == W = [V EXCEPT ![u] = [V[u] EXCEPT ![a] = y]]

LEMMA VotingSet ==
    ASSUME NEW V \in VotingsType, NEW u \in Voters, NEW a \in VotedAssets, NEW y \in VotingType,
           NEW W, SetsVoting(V, u, a, y, W)
    PROVE  /\ W \in VotingsType /\ W[u][a] = y
           /\ \A w \in Voters, b \in VotedAssets : w # u \/ b # a => W[w][b] = V[w][b]
BY DEF SetsVoting, VotingsType

(* y is x with v as its vote on i, whatever its prior lock.                *)
Revoted(x, i, v, y) ==
    /\ y \in VotingType /\ y.kind = "direct" /\ y.delegations = x.delegations
    /\ y.votes = [x.votes EXCEPT ![i] = v]

LEMMA VoteWritten ==
    ASSUME NEW x \in VotingType, x.kind = "direct", NEW i \in RefIds,
           NEW v \in AccountVotes \cup {NoVote}, NEW p \in PriorType,
           NEW y, y = [x EXCEPT !.votes[i] = v, !.prior = p]
    PROVE  Revoted(x, i, v, y)
<1> DEFINE votes == [x.votes EXCEPT ![i] = v]
<1>1. votes \in [RefIds -> AccountVotes \cup {NoVote}]
  BY VotingFields
<1>2. y = [x EXCEPT !.votes = votes, !.prior = p]
  OBVIOUS
<1>3. x \in [kind: {"direct"}, votes: [RefIds -> AccountVotes \cup {NoVote}],
             delegations: PowerType, prior: PriorType]
  BY DEF VotingType
<1> HIDE DEF votes
<1>4. /\ y \in [kind: {"direct"}, votes: [RefIds -> AccountVotes \cup {NoVote}],
                delegations: PowerType, prior: PriorType]
      /\ y.delegations = x.delegations /\ y.votes = votes
  BY <1>1, <1>2, <1>3
<1> QED
  BY <1>4 DEF Revoted, VotingType, votes

LEMMA RevotedCounts ==
    ASSUME NEW x \in VotingType, x.kind = "direct", NEW i \in RefIds, NEW v, NEW y,
           Revoted(x, i, v, y)
    PROVE  /\ \A j \in RefIds \ {i} : CountedFor(y, j) = CountedFor(x, j)
           /\ v = NoVote => CountedFor(y, i) = NoTally
           /\ v # NoVote => CountedFor(y, i) = WithVote(NoTally, v, x.delegations)
           /\ x.votes[i] = NoVote => CountedFor(x, i) = NoTally
           /\ x.votes[i] # NoVote =>
                 CountedFor(x, i) = WithVote(NoTally, x.votes[i], x.delegations)
           /\ \A to : GivenTo(y, to) = NoPower /\ GivenTo(x, to) = NoPower
<1>1. x.votes \in [RefIds -> AccountVotes \cup {NoVote}]
  BY VotingFields
<1>2. y.votes[i] = v /\ \A j \in RefIds \ {i} : y.votes[j] = x.votes[j]
  BY <1>1 DEF Revoted
<1> QED
  BY <1>2 DEF Revoted, CountedFor, GivenTo

(* In W, u has another vote on i, for asset a.                             *)
Revotes(V, u, a, i, v, y, W) ==
    /\ V \in VotingsType /\ DelegationsMatch(V) /\ V[u][a].kind = "direct"
    /\ Revoted(V[u][a], i, v, y) /\ SetsVoting(V, u, a, y, W)

(* Only the tally of i, for asset a, is affected.                          *)
Recounts(V, u, a, i, W) ==
    /\ W \in VotingsType /\ DelegationsMatch(W)
    /\ \A j \in RefIds, b \in VotedAssets : j # i \/ b # a => Count(W, b, j) = Count(V, b, j)
    /\ \A w \in Voters \ {u} : CountedFor(W[w][a], i) = CountedFor(V[w][a], i)

LEMMA Recount ==
    ASSUME NEW V, NEW u \in Voters, NEW a \in VotedAssets, NEW i \in RefIds, NEW v, NEW y,
           NEW W, Revotes(V, u, a, i, v, y, W)
    PROVE  Recounts(V, u, a, i, W)
<1> DEFINE x == V[u][a]
<1> USE DEF Revotes
<1>1. x \in VotingType /\ y \in VotingType
  BY DEF VotingsType, Revoted
<1>2. /\ W \in VotingsType /\ W[u][a] = y
      /\ \A w \in Voters, b \in VotedAssets : w # u \/ b # a => W[w][b] = V[w][b]
  BY <1>1, VotingSet
<1>3. /\ \A j \in RefIds \ {i} : CountedFor(y, j) = CountedFor(x, j)
      /\ \A to : GivenTo(y, to) = NoPower /\ GivenTo(x, to) = NoPower
  BY <1>1, RevotedCounts
<1>4. ASSUME NEW j \in RefIds, NEW b \in VotedAssets, j # i \/ b # a
      PROVE  Count(W, b, j) = Count(V, b, j)
  <2>1. ASSUME NEW w \in Voters PROVE CountedFor(W[w][b], j) = CountedFor(V[w][b], j)
    <3>1. CASE w # u \/ b # a
      BY <1>2, <3>1
    <3>2. CASE w = u /\ b = a
      BY <1>2, <1>3, <1>4, <3>2
    <3> QED
      BY <3>1, <3>2
  <2> QED
    BY <2>1, CountSame
<1>5. ASSUME NEW z \in Voters, NEW b \in VotedAssets
      PROVE  W[z][b].delegations = Given(W, b, z)
  <2>1. ASSUME NEW w \in Voters PROVE GivenTo(W[w][b], z) = GivenTo(V[w][b], z)
    <3>1. CASE w # u \/ b # a
      BY <1>2, <3>1
    <3>2. CASE w = u /\ b = a
      BY <1>2, <1>3, <3>2
    <3> QED
      BY <3>1, <3>2
  <2>2. Given(W, b, z) = Given(V, b, z)
    BY <2>1, GivenSame
  <2>3. W[z][b].delegations = V[z][b].delegations
    BY <1>2 DEF Revoted
  <2> QED
    BY <2>2, <2>3 DEF DelegationsMatch
<1>6. \A w \in Voters \ {u} : CountedFor(W[w][a], i) = CountedFor(V[w][a], i)
  BY <1>2
<1> QED
  BY <1>2, <1>4, <1>5, <1>6 DEF DelegationsMatch, Recounts

LEMMA FrameKept ==
    ASSUME DemocracyInv, UNCHANGED <<now, queueVars, enactVars, countVars>>
    PROVE  QueuesTyped' /\ CountsTyped' /\ UNCHANGED <<referendum_count, lowest_unbaked>>
BY DEF DemocracyInv, QueuesTyped, CountsTyped, queueVars, enactVars, countVars

LEMMA LockRaised ==
    ASSUME LocksTyped, NEW u \in Voters, NEW a \in VotedAssets, NEW n \in Nat,
           ledger' = ExtendLock(ledger, a, u, n)
    PROVE  /\ LocksTyped' /\ ledger'[a][u].frozen >= n
           /\ \A w \in Voters, b \in VotedAssets :
                 ledger'[b][w].frozen >= ledger[b][w].frozen
<1> DEFINE old == ledger[a][u].frozen
           lock == GreaterOf(old, n)
<1>1. \A w \in Voters, b \in VotedAssets : b \in AssetIds /\ w \in Accounts
  BY DemocracyTypes DEF Accounts
<1>2. old \in Nat
  BY DEF LocksTyped
<1>3. lock \in Nat /\ lock >= n /\ lock >= old
  BY <1>2 DEF GreaterOf
<1>4. ledger' = SetLock(ledger, a, u, lock)
  BY DEF ExtendLock
<1> HIDE DEF lock
<1>5. /\ IsLaidOut(ledger') /\ ledger'[a][u].frozen = lock
      /\ \A b \in AssetIds, w \in Accounts : b # a \/ w # u => ledger'[b][w] = ledger[b][w]
  BY <1>1, <1>4, LockSet DEF LocksTyped
<1>6. ASSUME NEW w \in Voters, NEW b \in VotedAssets
      PROVE  ledger'[b][w].frozen \in Nat /\ ledger'[b][w].frozen >= ledger[b][w].frozen
  <2>1. ledger[b][w].frozen \in Nat
    BY DEF LocksTyped
  <2>2. CASE b = a /\ w = u
    BY <1>3, <1>5, <2>2
  <2>3. CASE b # a \/ w # u
    <3>1. ledger'[b][w] = ledger[b][w]
      BY <1>1, <1>5, <2>3
    <3> QED
      BY <2>1, <3>1
  <2> QED
    BY <2>2, <2>3
<1> QED
  BY <1>3, <1>5, <1>6 DEF LocksTyped

LEMMA CoveredMore ==
    ASSUME NEW x \in VotingType, NEW m \in Nat, NEW n \in Nat, n >= m, Covered(x, m)
    PROVE  Covered(x, n)
<1>1. CASE x.kind = "delegating"
  BY <1>1, VotingFields DEF Covered
<1>2. CASE x.kind = "direct"
  <2>1. ASSUME NEW i \in VotedOn(x) PROVE n >= VoteBalance(x.votes[i])
    <3>1. x.votes[i] \in AccountVotes
      BY <1>2, VotingFields DEF VotedOn
    <3>2. VoteBalance(x.votes[i]) \in Nat /\ m >= VoteBalance(x.votes[i])
      BY <1>2, <3>1, VoteFacts DEF Covered
    <3> QED
      BY <3>2
  <2> QED
    BY <1>2, <2>1 DEF Covered
<1> QED
  BY <1>1, <1>2, VotingFields

(* When one entry changes and no lock is lowered, only the new entry has   *)
(* to be looked at.                                                        *)
LEMMA CoverKept ==
    ASSUME DemocracyInv, LocksTyped', NEW u \in Voters, NEW a \in VotedAssets,
           \A w \in Voters, b \in VotedAssets : ledger'[b][w].frozen >= ledger[b][w].frozen,
           \A w \in Voters, b \in VotedAssets :
              w # u \/ b # a => \A l : Covered(voting_of'[w][b], l) <=> Covered(voting_of[w][b], l),
           Covered(voting_of'[u][a], ledger'[a][u].frozen)
    PROVE  LockCoversVotes'
<1>1. ASSUME NEW w \in Voters, NEW b \in VotedAssets
      PROVE  Covered(voting_of'[w][b], ledger'[b][w].frozen)
  <2>1. CASE w = u /\ b = a
    BY <2>1
  <2>2. CASE w # u \/ b # a
    <3>1. /\ voting_of[w][b] \in VotingType /\ ledger[b][w].frozen \in Nat
          /\ ledger'[b][w].frozen \in Nat /\ ledger'[b][w].frozen >= ledger[b][w].frozen
      BY DEF DemocracyInv, VotingsType, LocksTyped
    <3>2. Covered(voting_of[w][b], ledger[b][w].frozen)
      BY CoveredIs DEF DemocracyInv
    <3>3. Covered(voting_of[w][b], ledger'[b][w].frozen)
      BY <3>1, <3>2, CoveredMore
    <3> QED
      BY <2>2, <3>3
  <2> QED
    BY <2>1, <2>2
<1> QED
  BY <1>1 DEF LockCoversVotes, Covered

(* The tally of an open referendum, for the asset it is about.             *)
LEMMA TallyNow ==
    ASSUME DemocracyInv, NEW i \in RefIds, Ongoing(i)
    PROVE  /\ referendum_info[i].id[2] \in VotedAssets /\ referendum_info[i].tally \in TallyType
           /\ referendum_info[i] \in StatusType
           /\ referendum_info[i].tally = Count(voting_of, referendum_info[i].id[2], i)
<1>1. referendum_info[i] \in StatusType
  BY DEF DemocracyInv, StatusesType
<1> QED
  BY <1>1, OngoingFields, MatchIs DEF DemocracyInv, TalliesMatch, Ongoing

LEMMA TallyWritten ==
    ASSUME NEW s \in StatusType, s.kind = "ongoing", NEW t \in TallyType,
           NEW r, r = [s EXCEPT !.tally = t]
    PROVE  r \in StatusType /\ r.kind = "ongoing" /\ r.id = s.id /\ r.tally = t
BY DEF StatusType, NoInfo

(* What a step on votes and delegations has to show.                       *)
LEMMA VotingStepKeeps ==
    ASSUME DemocracyInv, UNCHANGED <<now, queueVars, enactVars, countVars>>,
           voting_of' \in VotingsType, referendum_info' \in StatusesType,
           \A j \in RefIds : /\ referendum_info'[j].kind = "ongoing" <=> Ongoing(j)
                             /\ Ongoing(j) => referendum_info'[j].id = referendum_info[j].id,
           \A w \in Voters, b \in VotedAssets, j \in RefIds :
              voting_of'[w][b].kind = "direct" /\ voting_of'[w][b].votes[j] # NoVote =>
                 \/ voting_of[w][b].kind = "direct" /\ voting_of[w][b].votes[j] # NoVote
                 \/ Ongoing(j) /\ referendum_info[j].id[2] = b,
           NoneToOneself', LocksTyped', LockCoversVotes',
           TalliesMatch(voting_of', referendum_info'), DelegationsMatch(voting_of')
    PROVE  DemocracyInv'
<1> USE DEF DemocracyInv
<1>1. QueuesTyped' /\ CountsTyped' /\ UNCHANGED <<referendum_count, lowest_unbaked>>
  BY FrameKept
<1>2. NoneForgotten'
  BY <1>1 DEF NoneForgotten, Ongoing
<1>3. VotesPlaced'
  <2> SUFFICES ASSUME NEW w \in Voters, NEW b \in VotedAssets, NEW j \in RefIds,
                      voting_of'[w][b].kind = "direct", voting_of'[w][b].votes[j] # NoVote
               PROVE  /\ j < referendum_count'
                      /\ Ongoing(j)' => referendum_info'[j].id[2] = b
    BY DEF VotesPlaced
  <2>1. j < referendum_count /\ (Ongoing(j) => referendum_info[j].id[2] = b)
    <3>1. CASE voting_of[w][b].kind = "direct" /\ voting_of[w][b].votes[j] # NoVote
      BY <3>1 DEF VotesPlaced
    <3>2. CASE Ongoing(j) /\ referendum_info[j].id[2] = b
      BY <3>2 DEF NoneForgotten
    <3> QED
      BY <3>1, <3>2
  <2> QED
    BY <1>1, <2>1 DEF Ongoing
<1>4. TallyMatchesVotes'
  BY MatchIsNext
<1> QED
  BY <1>1, <1>2, <1>3, <1>4

LEMMA VoteKeeps ==
    ASSUME DemocracyInv, NEW u \in Voters, NEW i \in RefIds, NEW v \in AccountVotes,
           Vote(u, i, v)
    PROVE  DemocracyInv'
<1> USE DEF DemocracyInv
<1> DEFINE s == referendum_info[i]
           a == s.id[2]
           x == voting_of[u][a]
           old == x.votes[i]
           p == x.delegations
           rest == IF old = NoVote THEN s.tally ELSE WithoutVote(s.tally, old, p)
           t == WithVote(rest, v, p)
           y == [x EXCEPT !.votes[i] = v, !.prior = x.prior]
           r == [s EXCEPT !.tally = t]
<1>1. Ongoing(i) /\ x.kind = "direct"
  BY DEF Vote
<1>2. a \in VotedAssets /\ s.tally \in TallyType /\ s \in StatusType
      /\ s.tally = Count(voting_of, a, i)
  BY <1>1, TallyNow
<1>3. x \in VotingType /\ x.prior \in PriorType /\ p \in PowerType
  BY <1>2, VotingFields DEF VotingsType
<1>4. /\ SetsVoting(voting_of, u, a, y, voting_of')
  <2>1. voting_of' = [voting_of EXCEPT ![u][a].votes[i] = v]
    BY DEF Vote
  <2>2. y = [x EXCEPT !.votes[i] = v]
    <3> HIDE DEF x
    <3> QED
      BY <1>1, <1>3 DEF VotingType
  <2> HIDE DEF y
  <2> QED
    BY <2>1, <2>2 DEF SetsVoting
<1>5. referendum_info' = [referendum_info EXCEPT ![i] = r]
  BY DEF Vote
<1>6. /\ ledger' = ExtendLock(ledger, a, u, VoteBalance(v))
      /\ UNCHANGED <<now, queueVars, enactVars, countVars>>
  BY DEF Vote
<1> HIDE DEF a
<1>7. Revoted(x, i, v, y)
  <2> HIDE DEF x
  <2> QED
    BY <1>1, <1>3, VoteWritten
<1>8. /\ old # NoVote => old \in AccountVotes
      /\ old = NoVote => CountedFor(x, i) = NoTally
      /\ old # NoVote => CountedFor(x, i) = WithVote(NoTally, old, p)
      /\ CountedFor(y, i) = WithVote(NoTally, v, p)
  <2>1. old # NoVote => old \in AccountVotes
    BY <1>1, <1>3, VotingFields
  <2>2. v # NoVote
    BY VoteFacts
  <2> HIDE DEF x, y
  <2> QED
    BY <1>1, <1>3, <1>7, <2>1, <2>2, RevotedCounts
<1> DEFINE V == voting_of
           W == voting_of'
<1>9. /\ W \in VotingsType /\ DelegationsMatch(W) /\ W[u][a] = y
      /\ \A j \in RefIds, b \in VotedAssets : j # i \/ b # a => Count(W, b, j) = Count(V, b, j)
      /\ \A w \in Voters \ {u} : CountedFor(W[w][a], i) = CountedFor(V[w][a], i)
      /\ \A w \in Voters, b \in VotedAssets : w # u \/ b # a => W[w][b] = V[w][b]
  <2>1. V \in VotingsType /\ DelegationsMatch(V) /\ y \in VotingType
    BY <1>7, MatchIs DEF Revoted
  <2>2. V[u][a].kind = "direct" /\ Revoted(V[u][a], i, v, y) /\ SetsVoting(V, u, a, y, W)
    BY <1>1, <1>4, <1>7
  <2>3. Revotes(V, u, a, i, v, y, W)
    BY <2>1, <2>2 DEF Revotes
  <2> HIDE DEF y, V, W
  <2>4. /\ W[u][a] = y
        /\ \A w \in Voters, b \in VotedAssets : w # u \/ b # a => W[w][b] = V[w][b]
    BY <1>2, <2>1, <2>2, VotingSet
  <2>5. Recounts(V, u, a, i, W)
    BY <1>2, <2>3, Recount
  <2> QED
    BY <2>4, <2>5 DEF Recounts
<1> HIDE DEF y, x, old, p
<1> DEFINE before == CountedFor(x, i)
           behind == CountedFor(y, i)
           c == Count(V, a, i)
           d == Count(W, a, i)
<1>10. /\ before \in TallyType /\ behind \in TallyType /\ TallyCovers(c, before)
       /\ c \in TallyType /\ d \in TallyType
       /\ d.ayes = c.ayes - before.ayes + behind.ayes
       /\ d.nays = c.nays - before.nays + behind.nays
       /\ d.turnout = c.turnout - before.turnout + behind.turnout
  <2>1. V[u][a] = x /\ V \in VotingsType
    BY DEF x
  <2>2. y \in VotingType
    BY <1>7 DEF Revoted
  <2> HIDE DEF V, W
  <2> QED
    BY <1>2, <1>3, <1>9, <2>1, <2>2, CountedFacts, CountFacts, CountChange
<1>11. /\ rest \in TallyType
       /\ rest.ayes = c.ayes - before.ayes
       /\ rest.nays = c.nays - before.nays
       /\ rest.turnout = c.turnout - before.turnout
  <2>1. CASE old = NoVote
    <3>1. rest = c /\ before = NoTally
      BY <1>2, <1>8, <2>1
    <3> HIDE DEF rest, c, before
    <3> QED
      BY <1>10, <3>1, NothingCounts DEF TallyType
  <2>2. CASE old # NoVote
    <3>1. rest = WithoutVote(c, old, p) /\ before = WithVote(NoTally, old, p)
          /\ old \in AccountVotes
      BY <1>2, <1>8, <2>2
    <3> HIDE DEF rest, c, before
    <3> QED
      BY <1>3, <1>10, <3>1, WithoutVoteFields
  <2> QED
    BY <2>1, <2>2
<1>12. t \in TallyType /\ t = d
  <2> HIDE DEF rest, c, d, before, behind
  <2> DEFINE k == VoteTally(v)
             f == Followers(v, p)
  <2>1. /\ k \in TallyType /\ f \in TallyType /\ t \in TallyType
        /\ t.ayes = rest.ayes + k.ayes + f.ayes
        /\ t.nays = rest.nays + k.nays + f.nays
        /\ t.turnout = rest.turnout + k.turnout + f.turnout
    BY <1>3, <1>11, WithVoteFields
  <2>2. /\ behind.ayes = 0 + k.ayes + f.ayes
        /\ behind.nays = 0 + k.nays + f.nays
        /\ behind.turnout = 0 + k.turnout + f.turnout
    <3>1. behind = WithVote(NoTally, v, p)
      BY <1>8 DEF behind
    <3> QED
      BY <1>3, <3>1, NothingCounts, WithVoteFields
  <2> HIDE DEF k, f, t
  <2>3. t.ayes = d.ayes /\ t.nays = d.nays /\ t.turnout = d.turnout
    BY <1>10, <1>11, <2>1, <2>2 DEF TallyType
  <2> QED
    BY <1>10, <2>1, <2>3, TallyEqual
<1> HIDE DEF t, rest
<1>13. r \in StatusType /\ r.kind = "ongoing" /\ r.id = s.id /\ r.tally = t
  <2>1. s.kind = "ongoing"
    BY <1>1 DEF Ongoing
  <2> HIDE DEF s
  <2> QED
    BY <1>2, <1>12, <2>1, TallyWritten
<1> HIDE DEF r, before, behind
<1>14. /\ referendum_info' \in StatusesType /\ referendum_info'[i] = r
       /\ \A j \in RefIds \ {i} : referendum_info'[j] = referendum_info[j]
  BY <1>5, <1>13 DEF StatusesType
<1>15. r.id[2] = a
  BY <1>13 DEF a
<1>16. TalliesMatch(W, referendum_info')
  <2>1. ASSUME NEW j \in RefIds, referendum_info'[j].kind = "ongoing"
        PROVE  referendum_info'[j].tally = Count(W, referendum_info'[j].id[2], j)
    <3>1. CASE j = i
      BY <1>12, <1>13, <1>14, <1>15, <3>1 DEF d
    <3>2. CASE j # i
      <4>1. referendum_info'[j] = referendum_info[j] /\ Ongoing(j)
        BY <1>14, <2>1, <3>2 DEF Ongoing
      <4> QED
        BY <1>9, <3>2, <4>1, TallyNow
    <3> QED
      BY <3>1, <3>2
  <2> QED
    BY <2>1 DEF TalliesMatch
<1>18. /\ LocksTyped' /\ ledger'[a][u].frozen >= VoteBalance(v)
       /\ \A w \in Voters, b \in VotedAssets : ledger'[b][w].frozen >= ledger[b][w].frozen
  BY <1>2, <1>6, VoteFacts, LockRaised
<1>19. LockCoversVotes'
  <2>1. Covered(y, ledger'[a][u].frozen)
    <3>1. Covered(x, ledger[a][u].frozen)
      BY <1>2, CoveredIs DEF x
    <3>2. Covered(x, ledger'[a][u].frozen)
      BY <1>2, <1>3, <1>18, <3>1, CoveredMore DEF LocksTyped
    <3>3. y.kind = "direct" /\ y.votes = [x.votes EXCEPT ![i] = v]
      BY <1>7 DEF Revoted
    <3>4. x.votes \in [RefIds -> AccountVotes \cup {NoVote}]
      BY <1>1, <1>3, VotingFields
    <3>5. ASSUME NEW j \in VotedOn(y) PROVE ledger'[a][u].frozen >= VoteBalance(y.votes[j])
      <4>1. CASE j = i
        BY <1>18, <3>3, <3>4, <4>1
      <4>2. CASE j # i
        <5>1. y.votes[j] = x.votes[j] /\ j \in VotedOn(x)
          BY <3>3, <3>4, <4>2 DEF VotedOn
        <5> QED
          BY <1>1, <3>2, <5>1 DEF Covered
      <4> QED
        BY <4>1, <4>2
    <3> QED
      BY <3>3, <3>5 DEF Covered
  <2> QED
    BY <1>2, <1>9, <1>18, <2>1, CoverKept
<1>20. \A j \in RefIds : /\ referendum_info'[j].kind = "ongoing" <=> Ongoing(j)
                         /\ Ongoing(j) => referendum_info'[j].id = referendum_info[j].id
  <2> SUFFICES ASSUME NEW j \in RefIds
               PROVE  /\ referendum_info'[j].kind = "ongoing" <=> Ongoing(j)
                      /\ Ongoing(j) => referendum_info'[j].id = referendum_info[j].id
    OBVIOUS
  <2>1. CASE j = i
    BY <1>1, <1>13, <1>14, <2>1
  <2>2. CASE j # i
    BY <1>14, <2>2 DEF Ongoing
  <2> QED
    BY <2>1, <2>2
<1>21. NoneToOneself'
  <2>1. y.kind = "direct"
    BY <1>7 DEF Revoted
  <2> QED
    BY <1>2, <1>9, <2>1 DEF NoneToOneself
<1>22. ASSUME NEW w \in Voters, NEW b \in VotedAssets, NEW j \in RefIds,
              W[w][b].kind = "direct", W[w][b].votes[j] # NoVote
       PROVE  \/ V[w][b].kind = "direct" /\ V[w][b].votes[j] # NoVote
              \/ Ongoing(j) /\ referendum_info[j].id[2] = b
  <2>1. CASE w = u /\ b = a /\ j = i
    BY <1>1, <2>1 DEF a
  <2>2. CASE ~ (w = u /\ b = a /\ j = i)
    <3>1. CASE w = u /\ b = a
      <4>1. x.votes \in [RefIds -> AccountVotes \cup {NoVote}]
        BY <1>1, <1>3, VotingFields
      <4>2. y.votes[j] = x.votes[j]
        BY <1>7, <2>2, <3>1, <4>1 DEF Revoted
      <4> QED
        BY <1>1, <1>9, <1>22, <3>1, <4>2 DEF x
    <3>2. CASE w # u \/ b # a
      BY <1>9, <1>22, <3>2
    <3> QED
      BY <3>1, <3>2
  <2> QED
    BY <2>1, <2>2
<1> QED
  BY <1>6, <1>9, <1>14, <1>16, <1>18, <1>19, <1>20, <1>21, <1>22, VotingStepKeeps

LEMMA SetTwice ==
    ASSUME NEW V \in VotingsType, NEW u \in Voters, NEW a \in VotedAssets, NEW x, NEW y,
           NEW U, SetsVoting(V, u, a, x, U), NEW W, SetsVoting(U, u, a, y, W)
    PROVE  SetsVoting(V, u, a, y, W) /\ U[u][a] = x
BY DEF SetsVoting, VotingsType

LEMMA LockEnds ==
    ASSUME NEW prior \in PriorType, NEW until \in Nat, NEW n \in Nat
    PROVE  Accumulated(prior, until, n) \in PriorType
<1>1. prior.until \in Nat /\ prior.amount \in Nat
  BY DEF PriorType
<1>2. GreaterOf(prior.until, until) \in Nat /\ GreaterOf(prior.amount, n) \in Nat
  BY <1>1 DEF GreaterOf
<1> QED
  BY <1>2 DEF Accumulated, PriorType

LEMMA LockedFor ==
    ASSUME NEW conviction \in 0..6, NEW since \in Nat
    PROVE  since + VoteLockingPeriod * LockPeriods(conviction) \in Nat
<1> DEFINE k == LockPeriods(conviction)
<1>1. k \in Nat
  <2>1. conviction = 0 \/ conviction = 1 \/ conviction = 2 \/ conviction = 3
        \/ conviction = 4 \/ conviction = 5 \/ conviction = 6
    OBVIOUS
  <2> QED
    BY <2>1 DEF LockPeriods
<1>2. VoteLockingPeriod \in Nat
  BY DemocracyTypes
<1> HIDE DEF k
<1>3. VoteLockingPeriod * k \in Nat
  BY <1>1, <1>2
<1> QED
  BY <1>3 DEF k

(* A vote is removed, with a prior lock or without.                        *)
LEMMA VoteRemoved ==
    ASSUME DemocracyInv, NEW u \in Voters, NEW a \in VotedAssets, NEW i \in RefIds,
           NEW byOther, RemoveVote(u, a, i, byOther)
    PROVE  \E y : Revotes(voting_of, u, a, i, NoVote, y, voting_of')
<1> USE DEF DemocracyInv
<1> DEFINE x == voting_of[u][a]
           v == x.votes[i]
           info == referendum_info[i]
           wins == info.kind = "finished" /\ v.kind = "standard" /\ v.aye = info.approved
           unlockAt == info.end + VoteLockingPeriod * LockPeriods(v.conviction)
           held == wins /\ now < unlockAt
           x1 == [x EXCEPT !.votes[i] = NoVote]
           V1 == [voting_of EXCEPT ![u][a].votes[i] = NoVote]
           q(z) == IF held THEN Accumulated(z.prior, unlockAt, v.balance) ELSE z.prior
           y == [x1 EXCEPT !.prior = q(x1)]
<1>1. x.kind = "direct" /\ v # NoVote
  BY DEF RemoveVote
<1>2. x \in VotingType /\ x.prior \in PriorType /\ v \in AccountVotes
  BY <1>1, VotingFields DEF VotingsType
<1>3. q(x) \in PriorType
  <2>1. CASE held
    <3>1. info \in StatusType /\ info.kind = "finished"
      BY <2>1 DEF StatusesType
    <3>2. info.end \in Nat
      <4> HIDE DEF info
      <4> QED
        BY <3>1 DEF StatusType, NoInfo
    <3>3. v.conviction \in 0..6 /\ v.balance \in Nat
      BY <1>2, <2>1, VoteFacts
    <3>4. unlockAt \in Nat
      BY <3>2, <3>3, LockedFor
    <3> HIDE DEF unlockAt
    <3> QED
      BY <1>2, <2>1, <3>3, <3>4, LockEnds
  <2>2. CASE ~ held
    BY <1>2, <2>2
  <2> QED
    BY <2>1, <2>2
<1>4. voting_of' = [V1 EXCEPT ![u][a].prior = q(V1[u][a])]
  BY DEF RemoveVote
<1> HIDE DEF held, unlockAt, wins, info, v
<1>5. x1.prior = x.prior /\ Revoted(x, i, NoVote, [x1 EXCEPT !.prior = q(x)])
  <2> HIDE DEF x
  <2>1. x1.prior = x.prior
    BY <1>1, <1>2 DEF VotingType
  <2> DEFINE z == [x1 EXCEPT !.prior = q(x)]
  <2>2. z = [x EXCEPT !.votes[i] = NoVote, !.prior = q(x)]
    OBVIOUS
  <2> HIDE DEF z, q, x1
  <2>3. Revoted(x, i, NoVote, z)
    BY <1>1, <1>2, <1>3, <2>2, VoteWritten
  <2> QED
    BY <2>1, <2>3 DEF z
<1>6. Revoted(x, i, NoVote, y)
  BY <1>5
<1>7. SetsVoting(voting_of, u, a, x1, V1)
  BY DEF SetsVoting
<1>8. V1[u][a] = x1
  <2> HIDE DEF x1, V1
  <2> QED
    BY <1>7 DEF SetsVoting, VotingsType
<1>9. SetsVoting(V1, u, a, y, voting_of')
  <2> HIDE DEF x1
  <2> QED
    BY <1>4, <1>8 DEF SetsVoting
<1> HIDE DEF V1, x1, y
<1>10. SetsVoting(voting_of, u, a, y, voting_of')
  BY <1>7, <1>9, SetTwice
<1>11. Revotes(voting_of, u, a, i, NoVote, y, voting_of')
  BY <1>1, <1>6, <1>10, MatchIs DEF Revotes
<1> QED
  BY <1>11

LEMMA RemoveVoteKeeps ==
    ASSUME DemocracyInv, NEW u \in Voters, NEW a \in VotedAssets, NEW i \in RefIds,
           NEW byOther, RemoveVote(u, a, i, byOther)
    PROVE  DemocracyInv'
<1> USE DEF DemocracyInv
<1> DEFINE s == referendum_info[i]
           x == voting_of[u][a]
           old == x.votes[i]
           p == x.delegations
           t == WithoutVote(s.tally, old, p)
           r == [s EXCEPT !.tally = t]
           V == voting_of
           W == voting_of'
<1>1. x.kind = "direct" /\ old # NoVote
  BY DEF RemoveVote
<1>2. x \in VotingType /\ old \in AccountVotes /\ p \in PowerType
  BY <1>1, VotingFields DEF VotingsType
<1>3. /\ referendum_info' =
            IF Ongoing(i) THEN [referendum_info EXCEPT ![i] = r] ELSE referendum_info
      /\ ledger' = ledger /\ UNCHANGED <<now, queueVars, enactVars, countVars>>
  BY DEF RemoveVote
<1>4. PICK y : Revotes(V, u, a, i, NoVote, y, W)
  BY VoteRemoved
<1>5. y \in VotingType /\ y.kind = "direct" /\ Revoted(x, i, NoVote, y)
      /\ SetsVoting(V, u, a, y, W) /\ V \in VotingsType
  BY <1>4 DEF Revotes, Revoted
<1>6. CountedFor(x, i) = WithVote(NoTally, old, p) /\ CountedFor(y, i) = NoTally
  <2> HIDE DEF x
  <2> QED
    BY <1>1, <1>2, <1>5, RevotedCounts
<1>7. /\ W[u][a] = y
      /\ \A w \in Voters, b \in VotedAssets : w # u \/ b # a => W[w][b] = V[w][b]
  <2> HIDE DEF V, W
  <2> QED
    BY <1>5, VotingSet
<1>8. /\ W \in VotingsType /\ DelegationsMatch(W)
      /\ \A j \in RefIds, b \in VotedAssets : j # i \/ b # a => Count(W, b, j) = Count(V, b, j)
      /\ \A w \in Voters \ {u} : CountedFor(W[w][a], i) = CountedFor(V[w][a], i)
  <2> HIDE DEF V, W
  <2>1. Recounts(V, u, a, i, W)
    BY <1>4, Recount
  <2> QED
    BY <2>1 DEF Recounts
<1> DEFINE before == CountedFor(x, i)
           c == Count(V, a, i)
           d == Count(W, a, i)
<1>9. /\ before \in TallyType /\ TallyCovers(c, before) /\ c \in TallyType /\ d \in TallyType
      /\ d.ayes = c.ayes - before.ayes + 0
      /\ d.nays = c.nays - before.nays + 0
      /\ d.turnout = c.turnout - before.turnout + 0
  <2>1. V[u][a] = x
    OBVIOUS
  <2> HIDE DEF V, W, x, old, p
  <2>2. before \in TallyType /\ TallyCovers(c, before) /\ c \in TallyType /\ d \in TallyType
    BY <1>2, <1>5, <1>8, <2>1, CountedFacts, CountFacts
  <2>3. LET behind == CountedFor(W[u][a], i) IN
        /\ d.ayes = c.ayes - before.ayes + behind.ayes
        /\ d.nays = c.nays - before.nays + behind.nays
        /\ d.turnout = c.turnout - before.turnout + behind.turnout
    BY <1>5, <1>8, <2>1, CountChange
  <2> QED
    BY <1>6, <1>7, <2>2, <2>3, NothingCounts
<1> HIDE DEF x, old, p
<1>10. Ongoing(i) => /\ s.id[2] = a /\ s.tally = c /\ s \in StatusType /\ s.kind = "ongoing"
                     /\ t \in TallyType /\ t = d
  <2> SUFFICES ASSUME Ongoing(i)
               PROVE  /\ s.id[2] = a /\ s.tally = c /\ s \in StatusType /\ s.kind = "ongoing"
                      /\ t \in TallyType /\ t = d
    OBVIOUS
  <2>1. s.id[2] = a
    BY <1>1 DEF VotesPlaced, x, old
  <2>2. s.tally = c /\ s \in StatusType /\ s.kind = "ongoing"
    BY <2>1, TallyNow DEF Ongoing
  <2>3. t = WithoutVote(c, old, p) /\ before = WithVote(NoTally, old, p)
    BY <1>6, <2>2
  <2> HIDE DEF c, d, before, t
  <2>4. /\ t \in TallyType /\ t.ayes = c.ayes - before.ayes
        /\ t.nays = c.nays - before.nays /\ t.turnout = c.turnout - before.turnout
    BY <1>2, <1>9, <2>3, WithoutVoteFields
  <2>5. t.ayes = d.ayes /\ t.nays = d.nays /\ t.turnout = d.turnout
    BY <1>9, <2>4 DEF TallyType
  <2> QED
    BY <1>9, <2>1, <2>2, <2>4, <2>5, TallyEqual
<1>11. Ongoing(i) => /\ r \in StatusType /\ r.kind = "ongoing" /\ r.id = s.id /\ r.tally = d
  <2> HIDE DEF s, t
  <2> QED
    BY <1>10, TallyWritten
<1> HIDE DEF r, before, t
<1>12. /\ referendum_info' \in StatusesType
       /\ Ongoing(i) => referendum_info'[i] = r
       /\ ~ Ongoing(i) => referendum_info' = referendum_info
       /\ \A j \in RefIds \ {i} : referendum_info'[j] = referendum_info[j]
  BY <1>3, <1>11 DEF StatusesType
<1>13. TalliesMatch(W, referendum_info')
  <2>1. ASSUME NEW j \in RefIds, referendum_info'[j].kind = "ongoing"
        PROVE  referendum_info'[j].tally = Count(W, referendum_info'[j].id[2], j)
    <3>1. CASE j = i
      <4>1. Ongoing(i)
        BY <1>12, <2>1, <3>1 DEF Ongoing
      <4> QED
        BY <1>10, <1>11, <1>12, <3>1, <4>1 DEF d
    <3>2. CASE j # i
      <4>1. referendum_info'[j] = referendum_info[j] /\ Ongoing(j)
        BY <1>12, <2>1, <3>2 DEF Ongoing
      <4> QED
        BY <1>8, <3>2, <4>1, TallyNow
    <3> QED
      BY <3>1, <3>2
  <2> QED
    BY <2>1 DEF TalliesMatch
<1>14. LocksTyped'
  BY <1>3 DEF LocksTyped
<1>15. x.votes \in [RefIds -> AccountVotes \cup {NoVote}] /\ y.votes = [x.votes EXCEPT ![i] = NoVote]
  BY <1>1, <1>2, <1>5, VotingFields DEF Revoted
<1>16. \A j \in RefIds : y.votes[j] # NoVote => j # i /\ y.votes[j] = x.votes[j]
  BY <1>15
<1>17. LockCoversVotes'
  <2>1. Covered(x, ledger[a][u].frozen)
    BY CoveredIs DEF x
  <2>2. Covered(y, ledger'[a][u].frozen)
    BY <1>1, <1>3, <1>5, <1>16, <2>1 DEF Covered, VotedOn
  <2>3. \A w \in Voters, b \in VotedAssets : ledger'[b][w].frozen >= ledger[b][w].frozen
    BY <1>3 DEF LocksTyped
  <2> QED
    BY <1>7, <1>14, <2>2, <2>3, CoverKept
<1>18. \A j \in RefIds : /\ referendum_info'[j].kind = "ongoing" <=> Ongoing(j)
                         /\ Ongoing(j) => referendum_info'[j].id = referendum_info[j].id
  <2> SUFFICES ASSUME NEW j \in RefIds
               PROVE  /\ referendum_info'[j].kind = "ongoing" <=> Ongoing(j)
                      /\ Ongoing(j) => referendum_info'[j].id = referendum_info[j].id
    OBVIOUS
  <2>1. CASE j = i
    BY <1>11, <1>12, <2>1 DEF Ongoing
  <2>2. CASE j # i
    BY <1>12, <2>2 DEF Ongoing
  <2> QED
    BY <2>1, <2>2
<1>19. NoneToOneself'
  BY <1>5, <1>7 DEF NoneToOneself
<1>20. ASSUME NEW w \in Voters, NEW b \in VotedAssets, NEW j \in RefIds,
              W[w][b].kind = "direct", W[w][b].votes[j] # NoVote
       PROVE  V[w][b].kind = "direct" /\ V[w][b].votes[j] # NoVote
  <2>1. CASE w = u /\ b = a
    BY <1>1, <1>7, <1>16, <1>20, <2>1 DEF x
  <2>2. CASE w # u \/ b # a
    BY <1>7, <1>20, <2>2
  <2> QED
    BY <2>1, <2>2
<1> QED
  BY <1>3, <1>8, <1>12, <1>13, <1>14, <1>17, <1>18, <1>19, <1>20, VotingStepKeeps

-----------------------------------------------------------------------------
(* Unlocking.                                                              *)

LEMMA LockEnough ==
    ASSUME NEW x \in VotingType
    PROVE  LockedBalance(x) \in Nat /\ Covered(x, LockedBalance(x))
<1>1. CASE x.kind = "delegating"
  BY <1>1, VotingFields DEF LockedBalance, Covered
<1>2. CASE x.kind = "direct"
  <2> DEFINE g == [i \in RefIds |-> IF x.votes[i] # NoVote THEN VoteBalance(x.votes[i]) ELSE 0]
             S == {x.prior.amount} \cup {VoteBalance(x.votes[i]) : i \in VotedOn(x)}
             b == x.prior.amount + SumFunctionOnSet(g, RefIds)
  <2>1. x.prior.amount \in Nat /\ x.votes \in [RefIds -> AccountVotes \cup {NoVote}]
    BY <1>2, VotingFields DEF PriorType
  <2>2. \A i \in RefIds : x.votes[i] # NoVote => VoteBalance(x.votes[i]) \in Nat
    BY <2>1, VoteFacts
  <2>3. \A i \in RefIds : g[i] \in Nat
    BY <2>2
  <2>4. \A i \in VotedOn(x) : i \in RefIds /\ g[i] = VoteBalance(x.votes[i])
    BY DEF VotedOn
  <2>5. IsFiniteSet(RefIds)
    <3>1. MaxReferenda \in Nat
      BY DemocracyTypes
    <3> QED
      BY <3>1, FS_Interval DEF RefIds
  <2>6. LockedBalance(x) = Max(S)
    BY <1>2 DEF LockedBalance
  <2> HIDE DEF g
  <2>7. /\ SumFunctionOnSet(g, RefIds) \in Nat
        /\ \A i \in RefIds : g[i] <= SumFunctionOnSet(g, RefIds)
    BY <2>3, <2>5, SumType, SumBounds
  <2>8. b \in Nat /\ x.prior.amount <= b /\ \A i \in VotedOn(x) : g[i] \in Nat /\ g[i] <= b
    BY <2>1, <2>3, <2>4, <2>7
  <2>9. \A n \in S : n \in Nat /\ n <= b
    BY <2>1, <2>4, <2>8
  <2>10. S # {}
    OBVIOUS
  <2>11. \A i \in VotedOn(x) : VoteBalance(x.votes[i]) \in S
    OBVIOUS
  <2> HIDE DEF S, b
  <2>12. Max(S) \in S /\ \A n \in S : Max(S) >= n
    BY <2>8, <2>9, <2>10, MaxBelow
  <2> QED
    BY <1>2, <2>6, <2>9, <2>11, <2>12 DEF Covered
<1> QED
  BY <1>1, <1>2, VotingFields

(* y is x with another prior lock.                                         *)
Relocked(x, y) ==
    /\ y \in VotingType /\ y.kind = x.kind /\ y.delegations = x.delegations
    /\ x.kind = "direct" => y.votes = x.votes
    /\ x.kind = "delegating" =>
          y.balance = x.balance /\ y.target = x.target /\ y.conviction = x.conviction

LEMMA RejigRelocks ==
    ASSUME NEW x \in VotingType
    PROVE  Relocked(x, Rejig(x))
<1>1. NoPrior \in PriorType
  BY DEF NoPrior, PriorType
<1> DEFINE y == [x EXCEPT !.prior = NoPrior]
<1>2. Relocked(x, x)
  BY DEF Relocked
<1>3. Relocked(x, y)
  BY <1>1 DEF Relocked, VotingType
<1> QED
  BY <1>2, <1>3 DEF Rejig

LEMMA RelockedCounts ==
    ASSUME NEW x \in VotingType, NEW y, Relocked(x, y)
    PROVE  /\ \A j \in RefIds : CountedFor(y, j) = CountedFor(x, j)
           /\ \A to : GivenTo(y, to) = GivenTo(x, to)
<1>1. x.kind = "direct" \/ x.kind = "delegating"
  BY VotingFields
<1> QED
  BY <1>1 DEF Relocked, CountedFor, GivenTo

LEMMA UnlockKeeps ==
    ASSUME DemocracyInv, NEW u \in Voters, NEW a \in VotedAssets, Unlock(u, a)
    PROVE  DemocracyInv'
<1> USE DEF DemocracyInv
<1> DEFINE x == voting_of[u][a]
           y == Rejig(x)
           V == voting_of
           W == voting_of'
           lock == LockedBalance(y)
<1>1. x \in VotingType /\ V \in VotingsType
  BY DEF VotingsType
<1>2. Relocked(x, y) /\ y \in VotingType
  <2> HIDE DEF x
  <2> QED
    BY <1>1, RejigRelocks DEF Relocked
<1>3. SetsVoting(V, u, a, y, W)
  BY DEF Unlock, SetsVoting
<1>4. /\ referendum_info' = referendum_info
      /\ UNCHANGED <<now, queueVars, enactVars, countVars>>
      /\ ledger' = SetLock(ledger, a, u, LockedBalance(W[u][a]))
  BY DEF Unlock
<1> HIDE DEF x, y
<1>5. /\ W \in VotingsType /\ W[u][a] = y
      /\ \A w \in Voters, b \in VotedAssets : w # u \/ b # a => W[w][b] = V[w][b]
  <2> HIDE DEF V, W
  <2> QED
    BY <1>1, <1>2, <1>3, VotingSet
<1>6. V[u][a] = x
  BY DEF x
<1>7. \A w \in Voters, b \in VotedAssets : Relocked(V[w][b], W[w][b]) /\ V[w][b] \in VotingType
  <2> SUFFICES ASSUME NEW w \in Voters, NEW b \in VotedAssets
               PROVE  Relocked(V[w][b], W[w][b]) /\ V[w][b] \in VotingType
    OBVIOUS
  <2>1. V[w][b] \in VotingType
    BY DEF VotingsType
  <2>2. CASE w = u /\ b = a
    BY <1>2, <1>5, <1>6, <2>1, <2>2
  <2>3. CASE w # u \/ b # a
    <3>1. W[w][b] = V[w][b]
      BY <1>5, <2>3
    <3> HIDE DEF V, W
    <3> QED
      BY <2>1, <3>1 DEF Relocked
  <2> QED
    BY <2>2, <2>3
<1>8. \A w \in Voters, b \in VotedAssets :
         /\ \A j \in RefIds : CountedFor(W[w][b], j) = CountedFor(V[w][b], j)
         /\ \A to : GivenTo(W[w][b], to) = GivenTo(V[w][b], to)
         /\ W[w][b].delegations = V[w][b].delegations
  <2> HIDE DEF V, W
  <2> QED
    BY <1>7, RelockedCounts DEF Relocked
<1>9. TalliesMatch(V, referendum_info) /\ DelegationsMatch(V)
  BY MatchIs
<1>10. DelegationsMatch(W)
  <2> SUFFICES ASSUME NEW w \in Voters, NEW b \in VotedAssets
               PROVE  W[w][b].delegations = Given(W, b, w)
    BY DEF DelegationsMatch
  <2>1. Given(W, b, w) = Given(V, b, w)
    <3>1. \A z \in Voters : GivenTo(W[z][b], w) = GivenTo(V[z][b], w)
      BY <1>8
    <3> HIDE DEF V, W
    <3> QED
      BY <3>1, GivenSame
  <2> QED
    BY <1>8, <1>9, <2>1 DEF DelegationsMatch
<1>11. TalliesMatch(W, referendum_info')
  <2> SUFFICES ASSUME NEW j \in RefIds, referendum_info[j].kind = "ongoing"
               PROVE  referendum_info[j].tally = Count(W, referendum_info[j].id[2], j)
    BY <1>4 DEF TalliesMatch
  <2>1. Ongoing(j)
    BY DEF Ongoing
  <2>2. referendum_info[j].id[2] \in VotedAssets
        /\ referendum_info[j].tally = Count(V, referendum_info[j].id[2], j)
    BY <2>1, TallyNow
  <2>3. Count(W, referendum_info[j].id[2], j) = Count(V, referendum_info[j].id[2], j)
    BY <1>8, <2>2, CountSame
  <2> QED
    BY <2>2, <2>3
<1>12. lock \in Nat /\ Covered(y, lock)
  BY <1>2, LockEnough
<1> HIDE DEF lock
<1>13. /\ IsLaidOut(ledger') /\ ledger'[a][u].frozen = lock
       /\ \A b \in VotedAssets, w \in Voters : b # a \/ w # u => ledger'[b][w] = ledger[b][w]
  <2>1. \A w \in Voters, b \in VotedAssets : b \in AssetIds /\ w \in Accounts
    BY DemocracyTypes DEF Accounts
  <2>2. ledger' = SetLock(ledger, a, u, lock)
    BY <1>4, <1>5 DEF lock
  <2> QED
    BY <2>1, <2>2, LockSet DEF LocksTyped
<1>14. LocksTyped'
  <2>1. ASSUME NEW w \in Voters, NEW b \in VotedAssets PROVE ledger'[b][w].frozen \in Nat
    <3>1. CASE w = u /\ b = a
      BY <1>12, <1>13, <3>1
    <3>2. CASE w # u \/ b # a
      <4>1. ledger'[b][w] = ledger[b][w] /\ ledger[b][w].frozen \in Nat
        BY <1>13, <3>2 DEF LocksTyped
      <4> QED
        BY <4>1
    <3> QED
      BY <3>1, <3>2
  <2> QED
    BY <1>13, <2>1 DEF LocksTyped
<1>15. LockCoversVotes'
  <2>1. ASSUME NEW w \in Voters, NEW b \in VotedAssets
        PROVE  Covered(voting_of'[w][b], ledger'[b][w].frozen)
    <3>1. CASE w = u /\ b = a
      BY <1>5, <1>12, <1>13, <3>1
    <3>2. CASE w # u \/ b # a
      <4>1. ledger'[b][w] = ledger[b][w] /\ W[w][b] = V[w][b]
        BY <1>5, <1>13, <3>2
      <4>2. Covered(voting_of[w][b], ledger[b][w].frozen)
        BY CoveredIs
      <4> QED
        BY <4>1, <4>2
    <3> QED
      BY <3>1, <3>2
  <2> QED
    BY <2>1 DEF LockCoversVotes, Covered
<1>16. NoneToOneself'
  BY <1>7, VotingFields DEF NoneToOneself, Relocked
<1>17. ASSUME NEW w \in Voters, NEW b \in VotedAssets, NEW j \in RefIds,
              W[w][b].kind = "direct", W[w][b].votes[j] # NoVote
       PROVE  V[w][b].kind = "direct" /\ V[w][b].votes[j] # NoVote
  BY <1>7, <1>17 DEF Relocked
<1>18. referendum_info' \in StatusesType
  BY <1>4
<1>19. \A j \in RefIds : /\ referendum_info'[j].kind = "ongoing" <=> Ongoing(j)
                         /\ Ongoing(j) => referendum_info'[j].id = referendum_info[j].id
  BY <1>4 DEF Ongoing
<1> QED
  BY <1>4, <1>5, <1>10, <1>11, <1>14, <1>15, <1>16, <1>17, <1>18, <1>19, VotingStepKeeps

-----------------------------------------------------------------------------
(* Delegating: the delegations of an account, and with them the tallies it *)
(* votes on, grow and shrink.                                              *)

(* The votes of V are on the referenda of info, and counted there.         *)
Counted(V, info) ==
    /\ V \in VotingsType /\ info \in StatusesType /\ TalliesMatch(V, info)
    /\ \A w \in Voters, b \in VotedAssets, j \in RefIds :
          V[w][b].kind = "direct" /\ V[w][b].votes[j] # NoVote /\ info[j].kind = "ongoing" =>
             info[j].id[2] = b

(* y is x with other delegations behind it.                                *)
Redelegated(x, q, y) ==
    /\ y \in VotingType /\ y.kind = x.kind /\ y.delegations = q
    /\ x.kind = "direct" => y.votes = x.votes
    /\ x.kind = "delegating" =>
          y.balance = x.balance /\ y.target = x.target /\ y.conviction = x.conviction

LEMMA DelegationsWritten ==
    ASSUME NEW x \in VotingType, NEW q \in PowerType, NEW y, y = [x EXCEPT !.delegations = q]
    PROVE  Redelegated(x, q, y)
BY DEF Redelegated, VotingType

Backs(x, i) == x.kind = "direct" /\ x.votes[i].kind = "standard"

LEMMA FollowersCount ==
    ASSUME NEW x \in VotingType, NEW i \in RefIds, Backs(x, i)
    PROVE  LET c == CountedFor(x, i)
               k == VoteTally(x.votes[i])
               f == OnSide(x.votes[i].aye, x.delegations)
           IN /\ c \in TallyType /\ k \in TallyType /\ f \in TallyType
              /\ x.votes[i] \in AccountVotes
              /\ c.ayes = k.ayes + f.ayes /\ c.nays = k.nays + f.nays
              /\ c.turnout = k.turnout + f.turnout
<1> DEFINE v == x.votes[i]
           p == x.delegations
           c == CountedFor(x, i)
           k == VoteTally(v)
           f == Followers(v, p)
<1>1. v.kind = "standard" /\ v \in AccountVotes \cup {NoVote} /\ p \in PowerType
  BY VotingFields DEF Backs
<1>2. v # NoVote /\ v \in AccountVotes
  BY <1>1 DEF NoVote
<1>3. c = WithVote(NoTally, v, p) /\ f = OnSide(v.aye, p)
  BY <1>1, <1>2 DEF CountedFor, Backs, Followers
<1> HIDE DEF v, p
<1>4. /\ k \in TallyType /\ f \in TallyType /\ c \in TallyType
      /\ c.ayes = 0 + k.ayes + f.ayes /\ c.nays = 0 + k.nays + f.nays
      /\ c.turnout = 0 + k.turnout + f.turnout
  BY <1>1, <1>2, <1>3, NothingCounts, WithVoteFields
<1>5. /\ c.ayes = k.ayes + f.ayes /\ c.nays = k.nays + f.nays
      /\ c.turnout = k.turnout + f.turnout
  <2> HIDE DEF c, k, f
  <2> QED
    BY <1>4 DEF TallyType
<1> QED
  BY <1>2, <1>3, <1>4, <1>5 DEF v, p

LEMMA RedelegatedCounts ==
    ASSUME NEW x \in VotingType, NEW q \in PowerType, NEW y, Redelegated(x, q, y)
    PROVE  /\ \A to : GivenTo(y, to) = GivenTo(x, to)
           /\ \A j \in RefIds : ~ Backs(x, j) => CountedFor(y, j) = CountedFor(x, j)
<1>1. x.kind = "direct" \/ x.kind = "delegating"
  BY VotingFields
<1>2. \A to : GivenTo(y, to) = GivenTo(x, to)
  BY <1>1 DEF Redelegated, GivenTo
<1>3. ASSUME NEW j \in RefIds, ~ Backs(x, j) PROVE CountedFor(y, j) = CountedFor(x, j)
  <2>1. CASE x.kind = "direct"
    <3>1. y.votes[j] = x.votes[j] /\ x.votes[j].kind # "standard" /\ y.kind = "direct"
      BY <1>3, <2>1 DEF Redelegated, Backs
    <3>2. \A t, p : WithVote(t, x.votes[j], p) = TallyPlus(TallyPlus(t, VoteTally(x.votes[j])), NoTally)
      BY <3>1 DEF WithVote, Followers
    <3> QED
      BY <2>1, <3>1, <3>2 DEF CountedFor
  <2>2. CASE x.kind = "delegating"
    BY <2>2 DEF Redelegated, CountedFor
  <2> QED
    BY <1>1, <2>1, <2>2
<1> QED
  BY <1>2, <1>3

(* The tallies x is behind become those of T.                              *)
Retallied(info, x, T, new) ==
    new = [i \in RefIds |-> IF Backs(x, i) /\ info[i].kind = "ongoing"
                            THEN [info[i] EXCEPT !.tally = T[i]] ELSE info[i]]

SameReferenda(info, new) ==
    \A j \in RefIds : /\ new[j].kind = "ongoing" <=> info[j].kind = "ongoing"
                      /\ info[j].kind = "ongoing" => new[j].id = info[j].id

(* T moves a tally by what is added to, or taken from, the delegations.    *)
Moved(t, aye, p, q, n) ==
    /\ n \in TallyType
    /\ n.ayes = t.ayes - OnSide(aye, p).ayes + OnSide(aye, q).ayes
    /\ n.nays = t.nays - OnSide(aye, p).nays + OnSide(aye, q).nays
    /\ n.turnout = t.turnout - OnSide(aye, p).turnout + OnSide(aye, q).turnout

Shifts(V, info, to, a, q, y, T, W, new) ==
    /\ Counted(V, info) /\ Redelegated(V[to][a], q, y) /\ SetsVoting(V, to, a, y, W)
    /\ Retallied(info, V[to][a], T, new)
    /\ \A i \in RefIds : Backs(V[to][a], i) /\ info[i].kind = "ongoing" =>
          Moved(info[i].tally, V[to][a].votes[i].aye, V[to][a].delegations, q, T[i])

LEMMA ShiftCounts ==
    ASSUME NEW V, NEW info, NEW to \in Voters, NEW a \in VotedAssets, NEW q \in PowerType,
           NEW y, NEW T, NEW W, NEW new, Shifts(V, info, to, a, q, y, T, W, new)
    PROVE  Counted(W, new) /\ SameReferenda(info, new)
<1> DEFINE x == V[to][a]
<1>1. /\ V \in VotingsType /\ info \in StatusesType /\ TalliesMatch(V, info)
      /\ Redelegated(x, q, y) /\ SetsVoting(V, to, a, y, W) /\ Retallied(info, x, T, new)
      /\ \A w \in Voters, b \in VotedAssets, j \in RefIds :
            V[w][b].kind = "direct" /\ V[w][b].votes[j] # NoVote /\ info[j].kind = "ongoing" =>
               info[j].id[2] = b
  BY DEF Shifts, Counted
<1>2. \A i \in RefIds : Backs(x, i) /\ info[i].kind = "ongoing" =>
         Moved(info[i].tally, x.votes[i].aye, x.delegations, q, T[i])
  BY DEF Shifts
<1>3. x \in VotingType /\ y \in VotingType
  BY <1>1 DEF VotingsType, Redelegated
<1>4. /\ W \in VotingsType /\ W[to][a] = y
      /\ \A w \in Voters, b \in VotedAssets : w # to \/ b # a => W[w][b] = V[w][b]
  BY <1>1, <1>3, VotingSet
<1> HIDE DEF x
<1>5. ASSUME NEW i \in RefIds, info[i].kind = "ongoing"
      PROVE  /\ info[i] \in StatusType /\ info[i].id[2] \in VotedAssets
             /\ info[i].tally \in TallyType /\ info[i].tally = Count(V, info[i].id[2], i)
  <2>1. info[i] \in StatusType
    BY <1>1 DEF StatusesType
  <2> QED
    BY <1>1, <1>5, <2>1, OngoingFields DEF TalliesMatch
<1>6. ASSUME NEW i \in RefIds, Backs(x, i), info[i].kind = "ongoing"
      PROVE  info[i].id[2] = a /\ T[i] = Count(W, a, i) /\ T[i] \in TallyType
  <2>1. info[i].id[2] = a
    <3>1. x.kind = "direct" /\ x.votes[i] # NoVote
      BY <1>6 DEF Backs, NoVote
    <3> QED
      BY <1>1, <1>6, <3>1 DEF x
  <2> DEFINE t == info[i].tally
             p == x.delegations
             aye == x.votes[i].aye
             before == CountedFor(x, i)
             behind == CountedFor(y, i)
             k == VoteTally(x.votes[i])
             f == OnSide(aye, p)
             g == OnSide(aye, q)
             d == Count(W, a, i)
             n == T[i]
  <2>2. Moved(t, aye, p, q, n)
    BY <1>2, <1>6
  <2>3. /\ before \in TallyType /\ k \in TallyType /\ f \in TallyType
        /\ before.ayes = k.ayes + f.ayes /\ before.nays = k.nays + f.nays
        /\ before.turnout = k.turnout + f.turnout
    BY <1>3, <1>6, FollowersCount
  <2>4. Backs(y, i) /\ y.votes[i] = x.votes[i] /\ y.delegations = q
    BY <1>1, <1>6 DEF Backs, Redelegated
  <2>5. /\ behind \in TallyType /\ g \in TallyType
        /\ behind.ayes = k.ayes + g.ayes /\ behind.nays = k.nays + g.nays
        /\ behind.turnout = k.turnout + g.turnout
    BY <1>3, <2>4, FollowersCount
  <2>6. t = Count(V, a, i) /\ t \in TallyType
    BY <1>5, <1>6, <2>1
  <2>7. /\ d \in TallyType
        /\ d.ayes = t.ayes - before.ayes + behind.ayes
        /\ d.nays = t.nays - before.nays + behind.nays
        /\ d.turnout = t.turnout - before.turnout + behind.turnout
    <3>1. V[to][a] = x
      BY DEF x
    <3>2. \A w \in Voters \ {to} : CountedFor(W[w][a], i) = CountedFor(V[w][a], i)
      BY <1>4
    <3> HIDE DEF before, behind, t, d
    <3>3. d \in TallyType
      BY <1>4, CountFacts DEF d
    <3>4. LET c == Count(V, a, i) IN
          /\ d.ayes = c.ayes - before.ayes + behind.ayes
          /\ d.nays = c.nays - before.nays + behind.nays
          /\ d.turnout = c.turnout - before.turnout + behind.turnout
      BY <1>1, <1>4, <3>1, <3>2, CountChange DEF before, behind, d
    <3> QED
      BY <2>6, <3>3, <3>4
  <2>8. /\ n \in TallyType /\ n.ayes = t.ayes - f.ayes + g.ayes
        /\ n.nays = t.nays - f.nays + g.nays
        /\ n.turnout = t.turnout - f.turnout + g.turnout
    BY <2>2 DEF Moved
  <2> HIDE DEF t, before, behind, k, f, g, d, n
  <2>9. n.ayes = d.ayes /\ n.nays = d.nays /\ n.turnout = d.turnout
    BY <2>3, <2>5, <2>6, <2>7, <2>8 DEF TallyType
  <2>10. n = d
    BY <2>7, <2>8, <2>9, TallyEqual
  <2> QED
    BY <2>1, <2>8, <2>10 DEF n, d
<1>7. ASSUME NEW i \in RefIds, Backs(x, i), info[i].kind = "ongoing"
      PROVE  /\ new[i] \in StatusType /\ new[i].kind = "ongoing" /\ new[i].id = info[i].id
             /\ new[i].tally = Count(W, a, i)
  <2> DEFINE s == info[i]
             t == T[i]
  <2>1. new[i] = [s EXCEPT !.tally = t]
    BY <1>1, <1>7 DEF Retallied
  <2>2. s \in StatusType /\ s.kind = "ongoing" /\ t \in TallyType
    BY <1>5, <1>6, <1>7
  <2> HIDE DEF s, t
  <2>3. new[i] \in StatusType /\ new[i].kind = "ongoing" /\ new[i].id = s.id /\ new[i].tally = t
    BY <2>1, <2>2, TallyWritten
  <2> QED
    BY <1>6, <1>7, <2>3 DEF s, t
<1>8. ASSUME NEW i \in RefIds, ~ (Backs(x, i) /\ info[i].kind = "ongoing")
      PROVE  new[i] = info[i]
  BY <1>1, <1>8 DEF Retallied
<1>9. new \in StatusesType
  <2>1. \A i \in RefIds : new[i] \in StatusType
    BY <1>1, <1>7, <1>8 DEF StatusesType
  <2>2. new = [i \in RefIds |-> new[i]]
    BY <1>1 DEF Retallied
  <2> QED
    BY <2>1, <2>2 DEF StatusesType
<1>10. SameReferenda(info, new)
  BY <1>7, <1>8 DEF SameReferenda
<1>11. ASSUME NEW j \in RefIds, new[j].kind = "ongoing"
       PROVE  new[j].tally = Count(W, new[j].id[2], j)
  <2>1. info[j].kind = "ongoing" /\ new[j].id = info[j].id
    BY <1>10, <1>11 DEF SameReferenda
  <2>2. CASE Backs(x, j)
    BY <1>6, <1>7, <2>1, <2>2
  <2>3. CASE ~ Backs(x, j)
    <3> DEFINE b == info[j].id[2]
    <3>1. b \in VotedAssets /\ info[j].tally = Count(V, b, j) /\ new[j] = info[j]
      BY <1>5, <1>8, <2>1, <2>3
    <3>2. CountedFor(y, j) = CountedFor(x, j)
      BY <1>1, <1>3, <2>3, RedelegatedCounts
    <3>3. ASSUME NEW w \in Voters PROVE CountedFor(W[w][b], j) = CountedFor(V[w][b], j)
      <4>1. CASE w = to /\ b = a
        BY <1>4, <3>2, <4>1 DEF x
      <4>2. CASE w # to \/ b # a
        BY <1>4, <3>1, <4>2
      <4> QED
        BY <4>1, <4>2
    <3>4. Count(W, b, j) = Count(V, b, j)
      BY <3>3, CountSame
    <3> QED
      BY <3>1, <3>4
  <2> QED
    BY <2>2, <2>3
<1>12. ASSUME NEW w \in Voters, NEW b \in VotedAssets, NEW j \in RefIds,
              W[w][b].kind = "direct", W[w][b].votes[j] # NoVote, new[j].kind = "ongoing"
       PROVE  new[j].id[2] = b
  <2>1. info[j].kind = "ongoing" /\ new[j].id = info[j].id
    BY <1>10, <1>12 DEF SameReferenda
  <2>2. V[w][b].kind = "direct" /\ V[w][b].votes[j] # NoVote
    <3>1. CASE w = to /\ b = a
      <4>1. y.kind = "direct" /\ y.votes[j] # NoVote
        BY <1>4, <1>12, <3>1
      <4>2. x.kind = "direct" /\ x.votes[j] # NoVote
        BY <1>1, <4>1 DEF Redelegated
      <4> QED
        BY <3>1, <4>2 DEF x
    <3>2. CASE w # to \/ b # a
      BY <1>4, <1>12, <3>2
    <3> QED
      BY <3>1, <3>2
  <2> QED
    BY <1>1, <2>1, <2>2
<1> QED
  BY <1>4, <1>9, <1>10, <1>11, <1>12 DEF Counted, TalliesMatch

LEMMA SideFields ==
    ASSUME NEW aye, NEW p \in PowerType
    PROVE  /\ OnSide(aye, p) \in TallyType
           /\ OnSide(aye, p).ayes = IF aye THEN p.votes ELSE 0
           /\ OnSide(aye, p).nays = IF aye THEN 0 ELSE p.votes
           /\ OnSide(aye, p).turnout = p.capital
BY OnSideFacts DEF OnSide

LEMMA TakenAway ==
    ASSUME NEW t \in TallyType, NEW aye, NEW p \in PowerType, NEW g \in PowerType,
           TallyCovers(t, OnSide(aye, p)), p.votes >= g.votes, p.capital >= g.capital
    PROVE  Moved(t, aye, p, PowerMinus(p, g), TallyMinus(t, OnSide(aye, g)))
<1> DEFINE q == PowerMinus(p, g)
           f == OnSide(aye, p)
           h == OnSide(aye, g)
           k == OnSide(aye, q)
           n == TallyMinus(t, h)
<1>1. /\ q \in PowerType /\ q.votes = p.votes - g.votes /\ q.capital = p.capital - g.capital
      /\ p.votes \in Nat /\ p.capital \in Nat /\ g.votes \in Nat /\ g.capital \in Nat
  BY PowerSums DEF PowerType
<1> HIDE DEF q
<1>2. /\ f \in TallyType /\ f.ayes = (IF aye THEN p.votes ELSE 0)
      /\ f.nays = (IF aye THEN 0 ELSE p.votes) /\ f.turnout = p.capital
      /\ h \in TallyType /\ h.ayes = (IF aye THEN g.votes ELSE 0)
      /\ h.nays = (IF aye THEN 0 ELSE g.votes) /\ h.turnout = g.capital
      /\ k \in TallyType /\ k.ayes = (IF aye THEN q.votes ELSE 0)
      /\ k.nays = (IF aye THEN 0 ELSE q.votes) /\ k.turnout = q.capital
  BY <1>1, SideFields
<1>3. t.ayes \in Nat /\ t.nays \in Nat /\ t.turnout \in Nat
  BY DEF TallyType
<1>4. TallyCovers(t, f)
  OBVIOUS
<1> HIDE DEF f, h, k
<1>5. TallyCovers(t, h)
  BY <1>1, <1>2, <1>3, <1>4 DEF TallyCovers
<1>6. /\ n \in TallyType /\ n.ayes = t.ayes - h.ayes /\ n.nays = t.nays - h.nays
      /\ n.turnout = t.turnout - h.turnout
  BY <1>2, <1>5, TallySums
<1> HIDE DEF n
<1>7. /\ n.ayes = t.ayes - f.ayes + k.ayes /\ n.nays = t.nays - f.nays + k.nays
      /\ n.turnout = t.turnout - f.turnout + k.turnout
  <2>1. CASE aye
    BY <1>1, <1>2, <1>3, <1>6, <2>1
  <2>2. CASE ~ aye
    BY <1>1, <1>2, <1>3, <1>6, <2>2
  <2> QED
    BY <2>1, <2>2
<1> QED
  BY <1>6, <1>7 DEF Moved, f, h, k, n, q

LEMMA AddedTo ==
    ASSUME NEW t \in TallyType, NEW aye, NEW p \in PowerType, NEW g \in PowerType
    PROVE  Moved(t, aye, p, PowerPlus(p, g), TallyPlus(t, OnSide(aye, g)))
<1> DEFINE q == PowerPlus(p, g)
           f == OnSide(aye, p)
           h == OnSide(aye, g)
           k == OnSide(aye, q)
           n == TallyPlus(t, h)
<1>1. /\ q \in PowerType /\ q.votes = p.votes + g.votes /\ q.capital = p.capital + g.capital
      /\ p.votes \in Nat /\ p.capital \in Nat /\ g.votes \in Nat /\ g.capital \in Nat
  BY PowerSums DEF PowerType
<1> HIDE DEF q
<1>2. /\ f \in TallyType /\ f.ayes = (IF aye THEN p.votes ELSE 0)
      /\ f.nays = (IF aye THEN 0 ELSE p.votes) /\ f.turnout = p.capital
      /\ h \in TallyType /\ h.ayes = (IF aye THEN g.votes ELSE 0)
      /\ h.nays = (IF aye THEN 0 ELSE g.votes) /\ h.turnout = g.capital
      /\ k \in TallyType /\ k.ayes = (IF aye THEN q.votes ELSE 0)
      /\ k.nays = (IF aye THEN 0 ELSE q.votes) /\ k.turnout = q.capital
  BY <1>1, SideFields
<1>3. t.ayes \in Nat /\ t.nays \in Nat /\ t.turnout \in Nat
  BY DEF TallyType
<1> HIDE DEF f, h, k
<1>4. /\ n \in TallyType /\ n.ayes = t.ayes + h.ayes /\ n.nays = t.nays + h.nays
      /\ n.turnout = t.turnout + h.turnout
  BY <1>2, TallySums
<1> HIDE DEF n
<1>5. /\ n.ayes = t.ayes - f.ayes + k.ayes /\ n.nays = t.nays - f.nays + k.nays
      /\ n.turnout = t.turnout - f.turnout + k.turnout
  <2>1. CASE aye
    BY <1>1, <1>2, <1>3, <1>4, <2>1
  <2>2. CASE ~ aye
    BY <1>1, <1>2, <1>3, <1>4, <2>2
  <2> QED
    BY <2>1, <2>2
<1> QED
  BY <1>4, <1>5 DEF Moved, f, h, k, n, q

(* In book R the delegations of to, for a, are q, and all tallies right.   *)
Passes(B, to, a, q, R) ==
    /\ Counted(R.voting, R.info) /\ SameReferenda(B.info, R.info)
    /\ Redelegated(B.voting[to][a], q, R.voting[to][a])
    /\ \A w \in Voters, b \in VotedAssets :
          w # to \/ b # a => R.voting[w][b] = B.voting[w][b]

LEMMA BookTally ==
    ASSUME NEW V, NEW info, Counted(V, info), NEW to \in Voters, NEW a \in VotedAssets,
           NEW i \in RefIds, Backs(V[to][a], i), info[i].kind = "ongoing"
    PROVE  /\ info[i].tally \in TallyType
           /\ TallyCovers(info[i].tally, OnSide(V[to][a].votes[i].aye, V[to][a].delegations))
<1> DEFINE x == V[to][a]
           t == info[i].tally
           c == CountedFor(x, i)
           k == VoteTally(x.votes[i])
           f == OnSide(x.votes[i].aye, x.delegations)
<1>1. V \in VotingsType /\ x \in VotingType /\ info[i] \in StatusType
  BY DEF Counted, VotingsType, StatusesType
<1>2. x.kind = "direct" /\ x.votes[i] # NoVote
  BY DEF Backs, NoVote
<1>3. info[i].id[2] = a
  BY <1>2 DEF Counted
<1>4. t \in TallyType /\ t = Count(V, a, i)
  BY <1>1, <1>3, OngoingFields DEF Counted, TalliesMatch
<1>5. TallyCovers(t, c)
  BY <1>1, <1>4, CountFacts
<1>6. /\ c \in TallyType /\ k \in TallyType /\ f \in TallyType
      /\ c.ayes = k.ayes + f.ayes /\ c.nays = k.nays + f.nays /\ c.turnout = k.turnout + f.turnout
  <2>1. Backs(x, i)
    OBVIOUS
  <2> HIDE DEF x
  <2> QED
    BY <1>1, <2>1, FollowersCount
<1> HIDE DEF t, c, k, f
<1>7. TallyCovers(t, f)
  BY <1>4, <1>5, <1>6 DEF TallyCovers, TallyType
<1> QED
  BY <1>4, <1>7 DEF t, f, x

LEMMA ReducedPasses ==
    ASSUME NEW B, Counted(B.voting, B.info), NEW to \in Voters, NEW a \in VotedAssets,
           NEW g \in PowerType,
           B.voting[to][a].delegations.votes >= g.votes,
           B.voting[to][a].delegations.capital >= g.capital
    PROVE  Passes(B, to, a, PowerMinus(B.voting[to][a].delegations, g), Reduced(B, to, a, g))
<1> DEFINE V == B.voting
           info == B.info
           x == V[to][a]
           p == x.delegations
           q == PowerMinus(p, g)
           y == [x EXCEPT !.delegations = q]
           T == [i \in RefIds |-> TallyMinus(info[i].tally, OnSide(x.votes[i].aye, g))]
           R == Reduced(B, to, a, g)
<1>1. /\ R.voting = [V EXCEPT ![to][a].delegations = q]
      /\ R.info = [i \in RefIds |->
                      IF Carries(B, to, a, i)
                      THEN [info[i] EXCEPT !.tally =
                               TallyMinus(info[i].tally, OnSide(x.votes[i].aye, g))]
                      ELSE info[i]]
  BY DEF Reduced, Behind
<1>2. \A i : Carries(B, to, a, i) <=> Backs(x, i) /\ info[i].kind = "ongoing"
  BY DEF Carries, Backs
<1>3. SetsVoting(V, to, a, y, R.voting)
  <2>1. R.voting = [V EXCEPT ![to][a].delegations = q]
    BY <1>1
  <2> HIDE DEF V, q, R
  <2> QED
    BY <2>1 DEF SetsVoting
<1>4. Counted(V, info) /\ x \in VotingType /\ p \in PowerType /\ V \in VotingsType
  BY VotingFields DEF Counted, VotingsType
<1>5. p.votes >= g.votes /\ p.capital >= g.capital
  OBVIOUS
<1> HIDE DEF V, info, R
<1>6. Retallied(info, x, T, R.info)
  <2> HIDE DEF x
  <2> QED
    BY <1>1, <1>2 DEF Retallied
<1>7. q \in PowerType
  <2> HIDE DEF p
  <2> QED
    BY <1>4, PowerSums
<1>8. Redelegated(x, q, y)
  <2> HIDE DEF x, q
  <2> QED
    BY <1>4, <1>7, DelegationsWritten
<1>9. ASSUME NEW i \in RefIds, Backs(x, i), info[i].kind = "ongoing"
      PROVE  Moved(info[i].tally, x.votes[i].aye, p, q, T[i])
  <2> DEFINE t == info[i].tally
             aye == x.votes[i].aye
  <2>1. t \in TallyType /\ TallyCovers(t, OnSide(aye, p))
    BY <1>4, <1>9, BookTally
  <2>2. T[i] = TallyMinus(t, OnSide(aye, g))
    OBVIOUS
  <2> HIDE DEF t, aye, T, p
  <2>3. Moved(t, aye, p, q, T[i])
    BY <1>4, <1>5, <2>1, <2>2, TakenAway
  <2> QED
    BY <2>3 DEF t, aye
<1> HIDE DEF T, q, y
<1>10. Shifts(V, info, to, a, q, y, T, R.voting, R.info)
  BY <1>3, <1>4, <1>6, <1>8, <1>9 DEF Shifts
<1>11. Counted(R.voting, R.info) /\ SameReferenda(info, R.info)
  BY <1>7, <1>10, ShiftCounts
<1>12. y \in VotingType
  BY <1>8 DEF Redelegated
<1>13. /\ R.voting[to][a] = y
       /\ \A w \in Voters, b \in VotedAssets : w # to \/ b # a => R.voting[w][b] = V[w][b]
  BY <1>3, <1>4, <1>12, VotingSet
<1>14. Passes(B, to, a, q, R)
  BY <1>8, <1>11, <1>13 DEF Passes, V, info
<1> QED
  BY <1>14 DEF q, R, V

LEMMA IncreasedPasses ==
    ASSUME NEW B, Counted(B.voting, B.info), NEW to \in Voters, NEW a \in VotedAssets,
           NEW g \in PowerType
    PROVE  Passes(B, to, a, PowerPlus(B.voting[to][a].delegations, g), Increased(B, to, a, g))
<1> DEFINE V == B.voting
           info == B.info
           x == V[to][a]
           p == x.delegations
           q == PowerPlus(p, g)
           y == [x EXCEPT !.delegations = q]
           T == [i \in RefIds |-> TallyPlus(info[i].tally, OnSide(x.votes[i].aye, g))]
           R == Increased(B, to, a, g)
<1>1. /\ R.voting = [V EXCEPT ![to][a].delegations = q]
      /\ R.info = [i \in RefIds |->
                      IF Carries(B, to, a, i)
                      THEN [info[i] EXCEPT !.tally =
                               TallyPlus(info[i].tally, OnSide(x.votes[i].aye, g))]
                      ELSE info[i]]
  BY DEF Increased, Behind
<1>2. \A i : Carries(B, to, a, i) <=> Backs(x, i) /\ info[i].kind = "ongoing"
  BY DEF Carries, Backs
<1>3. SetsVoting(V, to, a, y, R.voting)
  <2>1. R.voting = [V EXCEPT ![to][a].delegations = q]
    BY <1>1
  <2> HIDE DEF V, q, R
  <2> QED
    BY <2>1 DEF SetsVoting
<1>4. Counted(V, info) /\ x \in VotingType /\ p \in PowerType /\ V \in VotingsType
  BY VotingFields DEF Counted, VotingsType
<1> HIDE DEF V, info, R
<1>5. Retallied(info, x, T, R.info)
  <2> HIDE DEF x
  <2> QED
    BY <1>1, <1>2 DEF Retallied
<1>6. q \in PowerType
  <2> HIDE DEF p
  <2> QED
    BY <1>4, PowerSums
<1>7. Redelegated(x, q, y)
  <2> HIDE DEF x, q
  <2> QED
    BY <1>4, <1>6, DelegationsWritten
<1>8. ASSUME NEW i \in RefIds, Backs(x, i), info[i].kind = "ongoing"
      PROVE  Moved(info[i].tally, x.votes[i].aye, p, q, T[i])
  <2> DEFINE t == info[i].tally
             aye == x.votes[i].aye
  <2>1. t \in TallyType
    BY <1>4, <1>8, BookTally
  <2>2. T[i] = TallyPlus(t, OnSide(aye, g))
    OBVIOUS
  <2> HIDE DEF t, aye, T, p
  <2>3. Moved(t, aye, p, q, T[i])
    BY <1>4, <2>1, <2>2, AddedTo
  <2> QED
    BY <2>3 DEF t, aye
<1> HIDE DEF T, q, y
<1>9. Shifts(V, info, to, a, q, y, T, R.voting, R.info)
  BY <1>3, <1>4, <1>5, <1>7, <1>8 DEF Shifts
<1>10. Counted(R.voting, R.info) /\ SameReferenda(info, R.info)
  BY <1>6, <1>9, ShiftCounts
<1>11. y \in VotingType
  BY <1>7 DEF Redelegated
<1>12. /\ R.voting[to][a] = y
       /\ \A w \in Voters, b \in VotedAssets : w # to \/ b # a => R.voting[w][b] = V[w][b]
  BY <1>3, <1>4, <1>11, VotingSet
<1>13. Passes(B, to, a, q, R)
  BY <1>7, <1>10, <1>12 DEF Passes, V, info
<1> QED
  BY <1>13 DEF q, R, V

-----------------------------------------------------------------------------
(* An account's delegation ends, another one starts.                       *)

Silent(x) == \A j \in RefIds : ~ (x.kind = "direct" /\ x.votes[j] # NoVote)

SameShape(x, y) == Redelegated(x, y.delegations, y)

LEMMA ShapeKept ==
    ASSUME NEW x \in VotingType, NEW y, SameShape(x, y)
    PROVE  /\ y \in VotingType /\ y.kind = x.kind
           /\ \A to : GivenTo(y, to) = GivenTo(x, to)
           /\ \A l : Covered(y, l) <=> Covered(x, l)
           /\ x.kind = "direct" => y.votes = x.votes
           /\ x.kind = "delegating" => y.target = x.target
<1>1. x.kind = "direct" \/ x.kind = "delegating"
  BY VotingFields
<1> QED
  BY <1>1 DEF SameShape, Redelegated, GivenTo, Covered, VotedOn

LEMMA ShapeTwice ==
    ASSUME NEW x \in VotingType, NEW y, SameShape(x, y), NEW z, SameShape(y, z)
    PROVE  SameShape(x, z)
BY DEF SameShape, Redelegated

LEMMA SilentSet ==
    ASSUME NEW V, NEW info, Counted(V, info), NEW u \in Voters, NEW a \in VotedAssets,
           NEW y \in VotingType, Silent(V[u][a]), Silent(y), NEW W, SetsVoting(V, u, a, y, W)
    PROVE  Counted(W, info)
<1>1. V \in VotingsType /\ info \in StatusesType /\ TalliesMatch(V, info)
  BY DEF Counted
<1>2. /\ W \in VotingsType /\ W[u][a] = y
      /\ \A w \in Voters, b \in VotedAssets : w # u \/ b # a => W[w][b] = V[w][b]
  BY <1>1, VotingSet
<1>3. ASSUME NEW j \in RefIds, info[j].kind = "ongoing"
      PROVE  info[j].tally = Count(W, info[j].id[2], j)
  <2> DEFINE b == info[j].id[2]
  <2>1. info[j] \in StatusType
    BY <1>1 DEF StatusesType
  <2>2. b \in VotedAssets /\ info[j].tally = Count(V, b, j)
    BY <1>1, <1>3, <2>1, OngoingFields DEF TalliesMatch
  <2> HIDE DEF b
  <2>3. ASSUME NEW w \in Voters PROVE CountedFor(W[w][b], j) = CountedFor(V[w][b], j)
    <3>1. CASE w = u /\ b = a
      <4>1. CountedFor(y, j) = NoTally /\ CountedFor(V[u][a], j) = NoTally
        BY DEF CountedFor, Silent
      <4> QED
        BY <1>2, <3>1, <4>1
    <3>2. CASE w # u \/ b # a
      BY <1>2, <2>2, <3>2
    <3> QED
      BY <3>1, <3>2
  <2>4. Count(W, b, j) = Count(V, b, j)
    BY <2>3, CountSame
  <2> QED
    BY <2>2, <2>4 DEF b
<1>4. ASSUME NEW w \in Voters, NEW b \in VotedAssets, NEW j \in RefIds,
             W[w][b].kind = "direct", W[w][b].votes[j] # NoVote, info[j].kind = "ongoing"
      PROVE  info[j].id[2] = b
  <2>1. w # u \/ b # a
    BY <1>2, <1>4 DEF Silent
  <2>2. W[w][b] = V[w][b]
    BY <1>2, <2>1
  <2> QED
    BY <1>4, <2>2 DEF Counted
<1> QED
  BY <1>1, <1>2, <1>3, <1>4 DEF Counted, TalliesMatch

(* Book R is B without, or with, what x gives, for asset a.                *)
Follows(B, a, R) ==
    /\ Counted(R.voting, R.info) /\ SameReferenda(B.info, R.info)
    /\ \A w \in Voters, b \in VotedAssets :
          /\ SameShape(B.voting[w][b], R.voting[w][b])
          /\ b # a => R.voting[w][b] = B.voting[w][b]
Drops(B, a, x, R) ==
    /\ Follows(B, a, R)
    /\ \A w \in Voters :
          /\ R.voting[w][a].delegations.votes =
                B.voting[w][a].delegations.votes - GivenTo(x, w).votes
          /\ R.voting[w][a].delegations.capital =
                B.voting[w][a].delegations.capital - GivenTo(x, w).capital
Gains(B, a, x, R) ==
    /\ Follows(B, a, R)
    /\ \A w \in Voters :
          /\ R.voting[w][a].delegations.votes =
                B.voting[w][a].delegations.votes + GivenTo(x, w).votes
          /\ R.voting[w][a].delegations.capital =
                B.voting[w][a].delegations.capital + GivenTo(x, w).capital

LEMMA PassesFollows ==
    ASSUME NEW B, Counted(B.voting, B.info), NEW to \in Voters, NEW a \in VotedAssets, NEW q,
           NEW R, Passes(B, to, a, q, R)
    PROVE  Follows(B, a, R) /\ R.voting[to][a].delegations = q
<1>1. \A w \in Voters, b \in VotedAssets : B.voting[w][b] \in VotingType
  BY DEF Counted, VotingsType
<1>2. /\ Counted(R.voting, R.info) /\ SameReferenda(B.info, R.info)
      /\ Redelegated(B.voting[to][a], q, R.voting[to][a])
      /\ \A w \in Voters, b \in VotedAssets :
            w # to \/ b # a => R.voting[w][b] = B.voting[w][b]
  BY DEF Passes
<1>3. R.voting[to][a].delegations = q
  BY <1>2 DEF Redelegated
<1>4. ASSUME NEW w \in Voters, NEW b \in VotedAssets
      PROVE  SameShape(B.voting[w][b], R.voting[w][b])
  <2>1. CASE w = to /\ b = a
    BY <1>2, <1>3, <2>1 DEF SameShape
  <2>2. CASE w # to \/ b # a
    BY <1>1, <1>2, <2>2 DEF SameShape, Redelegated
  <2> QED
    BY <2>1, <2>2
<1> QED
  BY <1>2, <1>3, <1>4 DEF Follows

LEMMA DelegationsTyped ==
    ASSUME NEW V, NEW info, Counted(V, info), NEW w \in Voters, NEW a \in VotedAssets
    PROVE  /\ V[w][a] \in VotingType /\ V[w][a].delegations \in PowerType
           /\ V[w][a].delegations.votes \in Nat /\ V[w][a].delegations.capital \in Nat
<1>1. V[w][a] \in VotingType
  BY DEF Counted, VotingsType
<1>2. V[w][a].delegations \in PowerType
  BY <1>1, VotingFields
<1> QED
  BY <1>1, <1>2 DEF PowerType

LEMMA NothingGiven ==
    ASSUME NEW B, Counted(B.voting, B.info), NEW a \in VotedAssets, NEW x, x.kind = "direct"
    PROVE  Drops(B, a, x, B) /\ Gains(B, a, x, B)
<1>1. \A w : GivenTo(x, w) = NoPower
  BY DEF GivenTo
<1>2. Follows(B, a, B)
  BY DelegationsTyped DEF Follows, SameReferenda, SameShape, Redelegated
<1> QED
  BY <1>1, <1>2, NothingCounts, DelegationsTyped DEF Drops, Gains

LEMMA LeavingDrops ==
    ASSUME NEW B, Counted(B.voting, B.info), DelegationsMatch(B.voting), NEW u \in Voters,
           NEW a \in VotedAssets, NEW x, x = B.voting[u][a], x.kind = "delegating"
    PROVE  Drops(B, a, x, Reduced(B, x.target, a, Power(x.conviction, x.balance)))
<1> DEFINE g == Power(x.conviction, x.balance)
           to == x.target
           p == B.voting[to][a].delegations
           R == Reduced(B, to, a, g)
           q == PowerMinus(p, g)
<1>1. x \in VotingType /\ B.voting \in VotingsType
  BY DEF Counted, VotingsType
<1>2. to \in Voters /\ x.conviction \in 0..6 /\ x.balance \in Nat
  BY <1>1, VotingFields
<1>3. g \in PowerType
  BY <1>2, PowerFacts
<1>4. GivenTo(x, to) = g /\ \A w : w # to => GivenTo(x, w) = NoPower
  BY DEF GivenTo
<1> HIDE DEF g, to
<1>5. p = Given(B.voting, a, to) /\ p \in PowerType
  BY <1>2, DelegationsTyped DEF DelegationsMatch
<1>6. p.votes >= g.votes /\ p.capital >= g.capital
  <2>1. GivenTo(B.voting[u][a], to) = g
    BY <1>4
  <2>2. /\ GivenTo(B.voting[u][a], to).votes <= Given(B.voting, a, to).votes
        /\ GivenTo(B.voting[u][a], to).capital <= Given(B.voting, a, to).capital
    BY <1>1, GivenSums
  <2> QED
    BY <1>3, <1>5, <2>1, <2>2 DEF PowerType
<1>7. Passes(B, to, a, q, R)
  BY <1>2, <1>3, <1>6, ReducedPasses
<1>8. q.votes = p.votes - g.votes /\ q.capital = p.capital - g.capital
  <2> HIDE DEF p
  <2> QED
    BY <1>3, <1>5, <1>6, PowerSums
<1> HIDE DEF q, R
<1>9. Follows(B, a, R) /\ R.voting[to][a].delegations = q
  BY <1>2, <1>7, PassesFollows
<1>10. ASSUME NEW w \in Voters
       PROVE  /\ R.voting[w][a].delegations.votes =
                    B.voting[w][a].delegations.votes - GivenTo(x, w).votes
              /\ R.voting[w][a].delegations.capital =
                    B.voting[w][a].delegations.capital - GivenTo(x, w).capital
  <2>1. CASE w = to
    BY <1>4, <1>8, <1>9, <2>1
  <2>2. CASE w # to
    <3>1. R.voting[w][a] = B.voting[w][a]
      BY <1>7, <2>2 DEF Passes
    <3>2. B.voting[w][a].delegations.votes \in Nat /\ B.voting[w][a].delegations.capital \in Nat
      BY DelegationsTyped
    <3> QED
      BY <1>4, <2>2, <3>1, <3>2, NothingCounts
  <2> QED
    BY <2>1, <2>2
<1>11. Drops(B, a, x, R)
  BY <1>9, <1>10 DEF Drops
<1> QED
  BY <1>11 DEF R, to, g

LEMMA JoiningGains ==
    ASSUME NEW B, Counted(B.voting, B.info), NEW a \in VotedAssets, NEW to \in Voters,
           NEW x, x.kind = "delegating", x.target = to, x.conviction \in 0..6, x.balance \in Nat
    PROVE  Gains(B, a, x, Increased(B, to, a, Power(x.conviction, x.balance)))
<1> DEFINE g == Power(x.conviction, x.balance)
           p == B.voting[to][a].delegations
           R == Increased(B, to, a, g)
           q == PowerPlus(p, g)
<1>1. g \in PowerType
  BY PowerFacts
<1>2. GivenTo(x, to) = g /\ \A w : w # to => GivenTo(x, w) = NoPower
  BY DEF GivenTo
<1> HIDE DEF g
<1>3. p \in PowerType
  BY DelegationsTyped
<1>4. Passes(B, to, a, q, R)
  BY <1>1, IncreasedPasses
<1>5. q.votes = p.votes + g.votes /\ q.capital = p.capital + g.capital
  <2> HIDE DEF p
  <2> QED
    BY <1>1, <1>3, PowerSums
<1> HIDE DEF q, R
<1>6. Follows(B, a, R) /\ R.voting[to][a].delegations = q
  BY <1>4, PassesFollows
<1>7. ASSUME NEW w \in Voters
      PROVE  /\ R.voting[w][a].delegations.votes =
                   B.voting[w][a].delegations.votes + GivenTo(x, w).votes
             /\ R.voting[w][a].delegations.capital =
                   B.voting[w][a].delegations.capital + GivenTo(x, w).capital
  <2>1. CASE w = to
    BY <1>2, <1>5, <1>6, <2>1
  <2>2. CASE w # to
    <3>1. R.voting[w][a] = B.voting[w][a]
      BY <1>4, <2>2 DEF Passes
    <3>2. B.voting[w][a].delegations.votes \in Nat /\ B.voting[w][a].delegations.capital \in Nat
      BY DelegationsTyped
    <3> QED
      BY <1>2, <2>2, <3>1, <3>2, NothingCounts
  <2> QED
    BY <2>1, <2>2
<1>8. Gains(B, a, x, R)
  BY <1>6, <1>7 DEF Gains
<1> QED
  BY <1>8 DEF R, g

(* By way of books C and D, entry x of u becomes y.                        *)
Redirects(B, C, D, u, a, x, y, W) ==
    /\ Counted(B.voting, B.info) /\ DelegationsMatch(B.voting) /\ x = B.voting[u][a]
    /\ Drops(B, a, x, C) /\ Gains(C, a, y, D) /\ SetsVoting(D.voting, u, a, y, W)
    /\ y \in VotingType /\ y.delegations = x.delegations /\ Silent(x) /\ Silent(y)
    /\ x.kind = "delegating" => x.target # u
    /\ y.kind = "delegating" => y.target # u

Redirection(B, D, u, a, y, W) ==
    /\ Counted(W, D.info) /\ DelegationsMatch(W) /\ SameReferenda(B.info, D.info)
    /\ W[u][a] = y
    /\ \A w \in Voters, b \in VotedAssets :
          w # u \/ b # a => SameShape(B.voting[w][b], W[w][b])

LEMMA Redirected ==
    ASSUME NEW B, NEW C, NEW D, NEW u \in Voters, NEW a \in VotedAssets, NEW x, NEW y, NEW W,
           Redirects(B, C, D, u, a, x, y, W)
    PROVE  Redirection(B, D, u, a, y, W)
<1> DEFINE V == B.voting
<1>1. /\ Counted(V, B.info) /\ DelegationsMatch(V) /\ x = V[u][a] /\ V \in VotingsType
      /\ Follows(B, a, C) /\ Follows(C, a, D) /\ SetsVoting(D.voting, u, a, y, W)
      /\ y \in VotingType /\ y.delegations = x.delegations /\ Silent(x) /\ Silent(y)
  BY DEF Redirects, Drops, Gains, Counted
<1>2. GivenTo(x, u) = NoPower /\ GivenTo(y, u) = NoPower
  BY DEF Redirects, GivenTo
<1>3. \A w \in Voters, b \in VotedAssets : V[w][b] \in VotingType
  BY <1>1 DEF VotingsType
<1>4. \A w \in Voters, b \in VotedAssets : SameShape(V[w][b], C.voting[w][b])
                                           /\ SameShape(C.voting[w][b], D.voting[w][b])
  BY <1>1 DEF Follows
<1>5. \A w \in Voters, b \in VotedAssets : SameShape(V[w][b], D.voting[w][b])
  <2> HIDE DEF V
  <2> QED
    BY <1>3, <1>4, ShapeTwice
<1>6. Counted(D.voting, D.info) /\ D.voting \in VotingsType
  BY <1>1 DEF Follows, Counted
<1>7. Silent(D.voting[u][a])
  <2>1. SameShape(x, D.voting[u][a]) /\ x \in VotingType
    BY <1>1, <1>3, <1>5
  <2>2. x.kind = "direct" => D.voting[u][a].votes = x.votes
    BY <2>1, ShapeKept
  <2>3. D.voting[u][a].kind = x.kind
    BY <2>1, ShapeKept
  <2> QED
    BY <1>1, <2>2, <2>3 DEF Silent
<1>8. Counted(W, D.info)
  BY <1>1, <1>6, <1>7, SilentSet
<1>9. /\ W \in VotingsType /\ W[u][a] = y
      /\ \A w \in Voters, b \in VotedAssets : w # u \/ b # a => W[w][b] = D.voting[w][b]
  BY <1>1, <1>6, VotingSet
<1>10. SameReferenda(B.info, D.info)
  BY <1>1 DEF Follows, SameReferenda
<1>11. \A w \in Voters, b \in VotedAssets : w # u \/ b # a => SameShape(V[w][b], W[w][b])
  BY <1>5, <1>9
<1>12. \A w \in Voters, b \in VotedAssets : w # u \/ b # a =>
          \A to : GivenTo(W[w][b], to) = GivenTo(V[w][b], to)
  <2> HIDE DEF V
  <2> QED
    BY <1>3, <1>11, ShapeKept
<1>13. ASSUME NEW z \in Voters, NEW b \in VotedAssets
       PROVE  W[z][b].delegations = Given(W, b, z)
  <2>1. CASE b # a
    <3>1. \A w \in Voters : W[w][b] = V[w][b]
      BY <1>1, <1>9, <2>1 DEF Follows
    <3>2. Given(W, b, z) = Given(V, b, z)
      BY <3>1, GivenSame
    <3> QED
      BY <1>1, <3>1, <3>2 DEF DelegationsMatch
  <2>2. CASE b = a
    <3> DEFINE n == Given(V, a, z)
               m == Given(W, a, z)
               f == GivenTo(x, z)
               g == GivenTo(y, z)
               d == W[z][a].delegations
    <3>1. \A w \in Voters \ {u} : GivenTo(W[w][a], z) = GivenTo(V[w][a], z)
      BY <1>12
    <3>2. m.votes = n.votes - f.votes + g.votes /\ m.capital = n.capital - f.capital + g.capital
      BY <1>1, <1>9, <3>1, GivenChange
    <3>3. V[z][a].delegations = n
      BY <1>1 DEF DelegationsMatch
    <3>4. n \in PowerType /\ m \in PowerType /\ f \in PowerType /\ g \in PowerType
      BY <1>1, <1>3, <1>9, GivenSums, GivenFacts
    <3>5. d \in PowerType
      BY <1>8, DelegationsTyped
    <3>6. CASE z = u
      <4>1. f = NoPower /\ g = NoPower /\ d = n
        BY <1>1, <1>2, <1>9, <3>3, <3>6
      <4> HIDE DEF n, m, f, g, d
      <4>2. m.votes = d.votes /\ m.capital = d.capital
        BY <3>2, <3>4, <4>1, NothingCounts DEF PowerType
      <4>3. d = m
        BY <3>4, <3>5, <4>2, PowerEqual
      <4> QED
        BY <2>2, <4>3 DEF d, m
    <3>7. CASE z # u
      <4>1. W[z][a] = D.voting[z][a]
        BY <1>9, <3>7
      <4>2. /\ C.voting[z][a].delegations.votes = n.votes - f.votes
            /\ C.voting[z][a].delegations.capital = n.capital - f.capital
        BY <3>3 DEF Redirects, Drops
      <4>3. /\ d.votes = C.voting[z][a].delegations.votes + g.votes
            /\ d.capital = C.voting[z][a].delegations.capital + g.capital
        BY <4>1 DEF Redirects, Gains
      <4> HIDE DEF n, m, f, g, d
      <4>4. m.votes = d.votes /\ m.capital = d.capital
        BY <3>2, <4>2, <4>3
      <4>5. d = m
        BY <3>4, <3>5, <4>4, PowerEqual
      <4> QED
        BY <2>2, <4>5 DEF d, m
    <3> QED
      BY <3>6, <3>7
  <2> QED
    BY <2>1, <2>2
<1> QED
  BY <1>8, <1>9, <1>10, <1>11, <1>13 DEF DelegationsMatch, Redirection

LEMMA BookCounted ==
    ASSUME DemocracyInv
    PROVE  /\ VotingBook.voting = voting_of /\ VotingBook.info = referendum_info
           /\ Counted(VotingBook.voting, VotingBook.info) /\ DelegationsMatch(VotingBook.voting)
<1>1. VotingBook.voting = voting_of /\ VotingBook.info = referendum_info
  BY DEF VotingBook
<1>2. TalliesMatch(voting_of, referendum_info) /\ DelegationsMatch(voting_of)
  BY MatchIs DEF DemocracyInv
<1>3. \A w \in Voters, b \in VotedAssets, j \in RefIds :
         /\ voting_of[w][b].kind = "direct" /\ voting_of[w][b].votes[j] # NoVote
         /\ referendum_info[j].kind = "ongoing"
         => referendum_info[j].id[2] = b
  BY DEF DemocracyInv, VotesPlaced, Ongoing
<1> QED
  BY <1>1, <1>2, <1>3 DEF Counted, DemocracyInv

LEMMA RedirectKeeps ==
    ASSUME DemocracyInv, NEW u \in Voters, NEW a \in VotedAssets, NEW C, NEW D, NEW x, NEW y,
           Redirects(VotingBook, C, D, u, a, x, y, voting_of'),
           referendum_info' = D.info, UNCHANGED <<now, queueVars, enactVars, countVars>>,
           LocksTyped', Covered(y, ledger'[a][u].frozen),
           \A w \in Voters, b \in VotedAssets : ledger'[b][w].frozen >= ledger[b][w].frozen
    PROVE  DemocracyInv'
<1> USE DEF DemocracyInv
<1> DEFINE V == voting_of
           W == voting_of'
<1>1. VotingBook.voting = V /\ VotingBook.info = referendum_info
  BY DEF VotingBook
<1>2. /\ Counted(W, referendum_info') /\ DelegationsMatch(W)
      /\ SameReferenda(referendum_info, referendum_info') /\ W[u][a] = y
      /\ \A w \in Voters, b \in VotedAssets : w # u \/ b # a => SameShape(V[w][b], W[w][b])
  <2>1. Redirection(VotingBook, D, u, a, y, W)
    BY Redirected
  <2> QED
    BY <1>1, <2>1 DEF Redirection
<1>3. /\ W \in VotingsType /\ referendum_info' \in StatusesType
      /\ TalliesMatch(W, referendum_info')
  BY <1>2 DEF Counted
<1>4. Silent(y) /\ (y.kind = "delegating" => y.target # u)
  BY DEF Redirects
<1>5. \A w \in Voters, b \in VotedAssets : V[w][b] \in VotingType
  BY DEF VotingsType
<1>6. \A w \in Voters, b \in VotedAssets : w # u \/ b # a =>
         /\ W[w][b].kind = V[w][b].kind
         /\ \A l : Covered(W[w][b], l) <=> Covered(V[w][b], l)
         /\ V[w][b].kind = "direct" => W[w][b].votes = V[w][b].votes
         /\ V[w][b].kind = "delegating" => W[w][b].target = V[w][b].target
  <2> HIDE DEF V, W
  <2> QED
    BY <1>2, <1>5, ShapeKept
<1>7. LockCoversVotes'
  <2>1. Covered(voting_of'[u][a], ledger'[a][u].frozen)
    BY <1>2
  <2>2. \A w \in Voters, b \in VotedAssets : w # u \/ b # a =>
           \A l : Covered(voting_of'[w][b], l) <=> Covered(voting_of[w][b], l)
    BY <1>6
  <2> HIDE DEF DemocracyInv
  <2> QED
    BY <2>1, <2>2, CoverKept
<1>8. NoneToOneself'
  <2> SUFFICES ASSUME NEW w \in Voters, NEW b \in VotedAssets, W[w][b].kind = "delegating"
               PROVE  W[w][b].target # w
    BY DEF NoneToOneself
  <2>1. CASE w = u /\ b = a
    BY <1>2, <1>4, <2>1
  <2>2. CASE w # u \/ b # a
    BY <1>6, <2>2 DEF NoneToOneself
  <2> QED
    BY <2>1, <2>2
<1>9. ASSUME NEW w \in Voters, NEW b \in VotedAssets, NEW j \in RefIds,
             W[w][b].kind = "direct", W[w][b].votes[j] # NoVote
      PROVE  V[w][b].kind = "direct" /\ V[w][b].votes[j] # NoVote
  <2>1. w # u \/ b # a
    BY <1>2, <1>4, <1>9 DEF Silent
  <2> QED
    BY <1>6, <1>9, <2>1
<1>10. \A j \in RefIds : /\ referendum_info'[j].kind = "ongoing" <=> Ongoing(j)
                         /\ Ongoing(j) => referendum_info'[j].id = referendum_info[j].id
  BY <1>2 DEF SameReferenda, Ongoing
<1> QED
  BY <1>2, <1>3, <1>7, <1>8, <1>9, <1>10, VotingStepKeeps

LEMMA SilentEntry ==
    ASSUME NEW x \in VotingType, x.kind = "delegating" \/ VotedOn(x) = {}
    PROVE  Silent(x)
BY DEF Silent, VotedOn

LEMMA DelegateKeeps ==
    ASSUME DemocracyInv, NEW u \in Voters, NEW to \in Voters, NEW a \in VotedAssets,
           NEW conviction \in 0..6, NEW n \in Nat, Delegate(u, to, a, conviction, n)
    PROVE  DemocracyInv'
<1> DEFINE x == voting_of[u][a]
           B == VotingBook
           C == IF x.kind = "delegating"
                THEN Reduced(B, x.target, a, Power(x.conviction, x.balance)) ELSE B
           D == Increased(C, to, a, Power(conviction, n))
           y == Delegating(n, to, conviction, x.delegations, x.prior)
<1>1. /\ u # to /\ (x.kind = "direct" => VotedOn(x) = {})
      /\ voting_of' = [D.voting EXCEPT ![u][a] = y]
      /\ referendum_info' = D.info /\ ledger' = ExtendLock(ledger, a, u, n)
      /\ UNCHANGED <<now, queueVars, enactVars, countVars>>
  BY DEF Delegate
<1>2. x \in VotingType /\ (x.kind = "delegating" => x.target # u)
  BY DEF DemocracyInv, VotingsType, NoneToOneself
<1>3. x.kind \in {"direct", "delegating"} /\ x.delegations \in PowerType /\ x.prior \in PriorType
  BY <1>2, VotingFields
<1>4. Silent(x)
  BY <1>1, <1>2, <1>3, SilentEntry
<1>5. /\ B.voting[u][a] = x /\ Counted(B.voting, B.info) /\ DelegationsMatch(B.voting)
  BY BookCounted
<1> HIDE DEF x, B
<1>6. Drops(B, a, x, C)
  <2>1. CASE x.kind = "delegating"
    BY <1>5, <2>1, LeavingDrops
  <2>2. CASE x.kind = "direct"
    BY <1>5, <2>2, NothingGiven
  <2> QED
    BY <1>3, <2>1, <2>2
<1> HIDE DEF C
<1>7. /\ y \in VotingType /\ y.kind = "delegating" /\ y.target = to /\ y.conviction = conviction
      /\ y.balance = n /\ y.delegations = x.delegations
  BY <1>3 DEF Delegating, VotingType
<1>8. Gains(C, a, y, D)
  <2>1. Counted(C.voting, C.info)
    BY <1>6 DEF Drops, Follows
  <2>2. D = Increased(C, to, a, Power(y.conviction, y.balance))
    BY <1>7
  <2> HIDE DEF y, D
  <2> QED
    BY <1>7, <2>1, <2>2, JoiningGains
<1>9. SetsVoting(D.voting, u, a, y, voting_of')
  BY <1>1 DEF SetsVoting
<1>10. Silent(y)
  <2> HIDE DEF y
  <2> QED
    BY <1>7, SilentEntry
<1> HIDE DEF y, D
<1>11. Redirects(B, C, D, u, a, x, y, voting_of')
  BY <1>1, <1>2, <1>4, <1>5, <1>6, <1>7, <1>8, <1>9, <1>10 DEF Redirects
<1>12. /\ LocksTyped' /\ ledger'[a][u].frozen >= n
       /\ \A w \in Voters, b \in VotedAssets : ledger'[b][w].frozen >= ledger[b][w].frozen
  BY <1>1, LockRaised DEF DemocracyInv
<1>13. Covered(y, ledger'[a][u].frozen)
  BY <1>7, <1>12 DEF Covered
<1> QED
  BY <1>1, <1>11, <1>12, <1>13, RedirectKeeps DEF B

LEMMA UndelegateKeeps ==
    ASSUME DemocracyInv, NEW u \in Voters, NEW a \in VotedAssets, Undelegate(u, a)
    PROVE  DemocracyInv'
<1> DEFINE x == voting_of[u][a]
           B == VotingBook
           C == Reduced(B, x.target, a, Power(x.conviction, x.balance))
           until == now + VoteLockingPeriod * LockPeriods(x.conviction)
           prior == Accumulated(x.prior, until, x.balance)
           y == Idle(x.delegations, prior)
<1>1. /\ x.kind = "delegating" /\ voting_of' = [C.voting EXCEPT ![u][a] = y]
      /\ referendum_info' = C.info /\ ledger' = ledger
      /\ UNCHANGED <<now, queueVars, enactVars, countVars>>
  BY DEF Undelegate
<1>2. x \in VotingType /\ x.target # u
  BY <1>1 DEF DemocracyInv, VotingsType, NoneToOneself
<1>3. /\ x.delegations \in PowerType /\ x.prior \in PriorType /\ x.conviction \in 0..6
      /\ x.balance \in Nat
  BY <1>1, <1>2, VotingFields
<1>4. Silent(x)
  BY <1>1, <1>2, SilentEntry
<1>5. /\ B.voting[u][a] = x /\ Counted(B.voting, B.info) /\ DelegationsMatch(B.voting)
  BY BookCounted
<1>6. prior \in PriorType
  <2>1. now \in Nat
    BY DEF DemocracyInv, CountsTyped
  <2>2. until \in Nat
    BY <1>3, <2>1, LockedFor
  <2> HIDE DEF until, x
  <2> QED
    BY <1>3, <2>2, LockEnds
<1> HIDE DEF x, B, prior
<1>7. Drops(B, a, x, C)
  BY <1>1, <1>5, LeavingDrops
<1> HIDE DEF C
<1>8. /\ y \in VotingType /\ y.kind = "direct" /\ y.delegations = x.delegations
      /\ VotedOn(y) = {}
  <2>1. y \in VotingType /\ y.kind = "direct" /\ y.delegations = x.delegations
        /\ y.votes = [i \in RefIds |-> NoVote]
    BY <1>3, <1>6 DEF Idle, VotingType
  <2> HIDE DEF y
  <2> QED
    BY <2>1 DEF VotedOn
<1>9. SetsVoting(C.voting, u, a, y, voting_of')
  BY <1>1 DEF SetsVoting
<1> HIDE DEF y
<1>10. Gains(C, a, y, C)
  <2>1. Counted(C.voting, C.info)
    BY <1>7 DEF Drops, Follows
  <2> QED
    BY <1>8, <2>1, NothingGiven
<1>11. Silent(y)
  BY <1>8, SilentEntry
<1>12. Redirects(B, C, C, u, a, x, y, voting_of')
  BY <1>1, <1>2, <1>4, <1>5, <1>7, <1>8, <1>9, <1>10, <1>11 DEF Redirects
<1>13. LocksTyped' /\ \A w \in Voters, b \in VotedAssets :
                         ledger'[b][w].frozen >= ledger[b][w].frozen
  BY <1>1 DEF DemocracyInv, LocksTyped
<1>14. Covered(y, ledger'[a][u].frozen)
  BY <1>8 DEF Covered
<1> QED
  BY <1>1, <1>12, <1>13, <1>14, RedirectKeeps DEF B

-----------------------------------------------------------------------------
(* The specification.                                                      *)

LEMMA InitLocks ==
    ASSUME ChainInit
    PROVE  LocksTyped /\ now \in Nat
<1>1. \A a \in AssetIds, who \in Accounts : \E n \in Nat : ledger[a][who] = Holding(n)
  BY DEF ChainInit
<1>2. \A n \in Nat : IsEntry(Holding(n)) /\ Holding(n).frozen = 0
  BY DEF Holding, NoFunds, IsEntry
<1>3. \A a \in AssetIds, who \in Accounts : IsEntry(ledger[a][who]) /\ ledger[a][who].frozen = 0
  BY <1>1, <1>2
<1>4. ledger = [a \in AssetIds |-> [who \in Accounts |-> ledger[a][who]]]
  BY DEF ChainInit
<1>5. \A u \in Voters, a \in VotedAssets : a \in AssetIds /\ u \in Accounts
  BY DemocracyTypes DEF Accounts
<1>6. \A u \in Voters, a \in VotedAssets : ledger[a][u].frozen \in Nat
  BY <1>3, <1>5
<1>7. now \in Nat
  BY DEF ChainInit
<1> QED
  BY <1>3, <1>4, <1>6, <1>7 DEF LocksTyped, IsLaidOut

LEMMA DemocracyStarts ==
    ASSUME ChainInit, DemocracyInit
    PROVE  DemocracyInv
<1> DEFINE e == Idle(NoPower, NoPrior)
<1>1. /\ e \in VotingType /\ e.kind = "direct" /\ e.delegations = NoPower
      /\ \A i \in RefIds : e.votes[i] = NoVote
  <2>1. NoPower \in PowerType /\ NoPrior \in PriorType
    BY NothingCounts DEF NoPrior, PriorType
  <2> QED
    BY <2>1 DEF Idle, VotingType
<1>2. voting_of = [u \in Voters |-> [a \in VotedAssets |-> e]]
  BY DEF DemocracyInit
<1> HIDE DEF e
<1>3. voting_of \in VotingsType /\ \A u \in Voters, a \in VotedAssets : voting_of[u][a] = e
  BY <1>1, <1>2 DEF VotingsType
<1>4. QueuesTyped
  <2>1. MaxPublicProps \in Nat
    BY DemocracyTypes
  <2>2. NoDeposit \in DepositType
    BY NoDepositFits
  <2>3. public_props \in Seq(PropType)
    BY DEF DemocracyInit
  <2>4. next_external \in WaitingType
    BY DEF DemocracyInit, WaitingType
  <2>5. IsSequence(agenda)
    BY DEF DemocracyInit, IsSequence
  <2> QED
    BY <2>1, <2>2, <2>3, <2>4, <2>5 DEF QueuesTyped, DemocracyInit
<1>5. LocksTyped /\ now \in Nat
  BY InitLocks
<1>6. CountsTyped
  <2>1. MaxReferenda \in Nat
    BY DemocracyTypes
  <2> QED
    BY <1>5, <2>1 DEF CountsTyped, DemocracyInit
<1>7. \A i \in RefIds : referendum_info[i] = NoInfo /\ ~ Ongoing(i)
  BY DEF DemocracyInit, Ongoing, NoInfo
<1>8. referendum_info \in StatusesType
  BY DEF DemocracyInit, StatusesType, StatusType
<1>9. VotesPlaced /\ NoneToOneself /\ NoneForgotten
  BY <1>1, <1>3, <1>7 DEF VotesPlaced, NoneToOneself, NoneForgotten
<1>10. LockCoversVotes
  <2>1. VotedOn(e) = {} /\ e.kind # "delegating"
    BY <1>1 DEF VotedOn
  <2> QED
    BY <1>3, <2>1 DEF LockCoversVotes
<1>11. TallyMatchesVotes
  <2>1. TalliesMatch(voting_of, referendum_info)
    BY <1>7 DEF TalliesMatch, Ongoing
  <2>2. ASSUME NEW u \in Voters, NEW a \in VotedAssets PROVE Given(voting_of, a, u) = NoPower
    <3>1. \A w \in Voters : GivenTo(voting_of[w][a], u) = NoPower
      BY <1>1, <1>3 DEF GivenTo
    <3>2. \A w \in Voters : Votes(voting_of, a, u)[w] = 0 /\ Capital(voting_of, a, u)[w] = 0
      BY <3>1, NothingCounts DEF Votes, Capital
    <3>3. IsFiniteSet(Voters)
      BY DemocracyTypes
    <3>4. /\ SumFunctionOnSet(Votes(voting_of, a, u), Voters) = 0
          /\ SumFunctionOnSet(Capital(voting_of, a, u), Voters) = 0
      BY <3>2, <3>3, SumZero
    <3> QED
      BY <3>4 DEF Given, NoPower
  <2>3. DelegationsMatch(voting_of)
    BY <1>1, <1>3, <2>2 DEF DelegationsMatch
  <2> QED
    BY <2>1, <2>3, MatchIs
<1> QED
  BY <1>3, <1>4, <1>5, <1>6, <1>8, <1>9, <1>10, <1>11 DEF DemocracyInv

LEMMA VotingNextKeeps ==
    ASSUME DemocracyInv, VotingNext
    PROVE  DemocracyInv'
<1>1. CASE \E u \in Voters, i \in RefIds, v \in AccountVotes : Vote(u, i, v)
  BY <1>1, VoteKeeps
<1>2. CASE \E u \in Voters, a \in VotedAssets, i \in RefIds, byOther \in BOOLEAN :
              RemoveVote(u, a, i, byOther)
  BY <1>2, RemoveVoteKeeps
<1>3. CASE \E u, to \in Voters, a \in VotedAssets, input \in DelegationInputs :
              Delegate(u, to, a, input[1], input[2])
  <2>1. PICK u \in Voters, to \in Voters, a \in VotedAssets, input \in DelegationInputs :
           Delegate(u, to, a, input[1], input[2])
    BY <1>3
  <2>2. input[1] \in 0..6 /\ input[2] \in Nat
    BY DemocracyTypes
  <2> QED
    BY <2>1, <2>2, DelegateKeeps
<1>4. CASE \E u \in Voters, a \in VotedAssets : Undelegate(u, a) \/ Unlock(u, a)
  BY <1>4, UndelegateKeeps, UnlockKeeps
<1> QED
  BY <1>1, <1>2, <1>3, <1>4 DEF VotingNext

LEMMA QueueNextQuiet ==
    ASSUME DemocracyInv, QueueNext(Voters)
    PROVE  Quiet
<1>1. CASE \E u \in Voters, id \in ProposalIds : Propose(u, id, MinimumDeposit_)
  <2>1. MinimumDeposit_ \in Nat
    BY DemocracyTypes
  <2> QED
    BY <1>1, <2>1, ProposeQuiet
<1>2. CASE \E u \in Voters, p \in PropIds : Second(u, p, MaxPublicProps)
  BY <1>2, SecondQuiet
<1>3. CASE ClearPublicProposals
  BY <1>3, ExternalQuiet
<1>4. CASE \E p \in PropIds : CancelProposal(p)
  BY <1>4, CancelProposalQuiet
<1>5. ASSUME NEW id \in ProposalIds,
             \/ ExternalPropose(id)
             \/ \E t \in {"SimpleMajority", "SuperMajorityAgainst"} :
                   ExternalProposeReplacing(id, t)
             \/ \E u \in Voters : VetoExternal(u, id)
             \/ \E input \in FastTrackInputs : FastTrack(id, input[1], input[2])
             \/ \E refs \in {{}} \cup {{i} : i \in RefIds} : BlacklistProposal(id, refs)
      PROVE  Quiet
  <2>1. CASE \/ ExternalPropose(id)
             \/ \E t \in {"SimpleMajority", "SuperMajorityAgainst"} :
                   ExternalProposeReplacing(id, t)
             \/ \E u \in Voters : VetoExternal(u, id)
    BY <2>1, ExternalQuiet
  <2>2. CASE \E input \in FastTrackInputs : FastTrack(id, input[1], input[2])
    <3>1. PICK input \in FastTrackInputs : FastTrack(id, input[1], input[2])
      BY <2>2
    <3>2. input[1] \in Nat /\ input[2] \in Nat
      BY DemocracyTypes
    <3> QED
      BY <3>1, <3>2, FastTrackQuiet
  <2>3. CASE \E refs \in {{}} \cup {{i} : i \in RefIds} : BlacklistProposal(id, refs)
    BY <2>3, BlacklistQuiet
  <2> QED
    BY <1>5, <2>1, <2>2, <2>3
<1>6. CASE \E i \in RefIds : CancelReferendum(i) \/ EmergencyCancel(i)
  BY <1>6, CancelReferendumQuiet
<1> QED
  BY <1>1, <1>2, <1>3, <1>4, <1>5, <1>6 DEF QueueNext

LEMMA DemocracySteps ==
    ASSUME DemocracyInv,
           [DemocracyNext]_<<now, ledger, democracyVars, origins_by_asset_id>>
    PROVE  DemocracyInv'
<1>1. CASE VotingNext
  BY <1>1, VotingNextKeeps
<1>2. CASE QueueNext(Voters)
  BY <1>2, QueueNextQuiet, QuietKeeps
<1>3. CASE EnactNext(Voters)
  <2>1. Quiet
    BY <1>3, PreimageQuiet, CancelQueuedQuiet DEF EnactNext
  <2> QED
    BY <2>1, QuietKeeps
<1>4. CASE RegistryNext \/ UNCHANGED <<now, ledger, democracyVars, origins_by_asset_id>>
  <2>1. UNCHANGED <<now, ledger, democracyVars>>
    BY <1>4 DEF RegistryNext
  <2> QED
    BY <2>1, RegistryQuiet, QuietKeeps
<1>5. CASE BeginBlock
  BY <1>5, BeginBlockQuiet, QuietKeeps
<1> QED
  BY <1>1, <1>2, <1>3, <1>4, <1>5 DEF DemocracyNext

LEMMA DemocracyHolds == DemocracySpec => []DemocracyInv
<1>1. ChainInit /\ RegistryInit /\ DemocracyInit => DemocracyInv
  BY DemocracyStarts
<1>2. DemocracyInv /\ [DemocracyNext]_<<now, ledger, democracyVars, origins_by_asset_id>>
         => DemocracyInv'
  BY DemocracySteps
<1> QED
  BY <1>1, <1>2, PTL DEF DemocracySpec

LEMMA InvTypes == DemocracyInv => DemocracyTypeOK
<1> SUFFICES ASSUME DemocracyInv PROVE DemocracyTypeOK
  OBVIOUS
<1> USE DEF DemocracyInv
<1>1. \A k \in DOMAIN public_props :
         public_props[k].index \in PropIds /\ public_props[k].id \in ProposalIds
  <2>1. public_props \in Seq(PropType)
    BY DEF QueuesTyped
  <2>2. \A k \in DOMAIN public_props : public_props[k] \in PropType
    BY <2>1
  <2> QED
    BY <2>2 DEF PropType
<1>2. \A p \in PropIds : \A k \in DOMAIN deposit_of[p].whos : deposit_of[p].whos[k] \in Voters
  <2> SUFFICES ASSUME NEW p \in PropIds
               PROVE  \A k \in DOMAIN deposit_of[p].whos : deposit_of[p].whos[k] \in Voters
    OBVIOUS
  <2>1. deposit_of[p] \in DepositType
    BY DEF QueuesTyped
  <2>2. deposit_of[p].whos \in Seq(Voters)
    BY <2>1 DEF DepositType
  <2> QED
    BY <2>2
<1>3. Len(next_external) <= 1
  <2>1. next_external \in WaitingType
    BY DEF QueuesTyped
  <2>2. CASE next_external = <<>>
    BY <2>2
  <2>3. CASE \E e \in ExternalType : next_external = <<e>>
    <3>1. PICK e \in ExternalType : next_external = <<e>>
      BY <2>3
    <3>2. Len(<<e>>) = 1
      OBVIOUS
    <3> QED
      BY <3>1, <3>2
  <2> QED
    BY <2>1, <2>2, <2>3 DEF WaitingType
<1> QED
  BY <1>1, <1>2, <1>3 DEF DemocracyTypeOK, QueuesTyped, CountsTyped, StatusesType, VotingsType

(* The storage of the pallet keeps its types, and the two counters of      *)
(* referenda their order, through every call and every block.              *)
THEOREM DemocracyTyped == DemocracySpec => []DemocracyTypeOK
BY DemocracyHolds, InvTypes, PTL

(* vote, remove_vote, delegate and undelegate correct the tallies in       *)
(* place: in every reachable state that is what a count would give.        *)
THEOREM TalliesAreCounts == DemocracySpec => []TallyMatchesVotes
<1>1. DemocracyInv => TallyMatchesVotes
  BY DEF DemocracyInv
<1> QED
  BY <1>1, DemocracyHolds, PTL

(* Until it is removed a vote, until it ends a delegation, stays locked,   *)
(* whatever unlock, other votes and other assets do.                       *)
THEOREM VotesStayLocked == DemocracySpec => []LockCoversVotes
<1>1. DemocracyInv => LockCoversVotes
  BY DEF DemocracyInv
<1> QED
  BY <1>1, DemocracyHolds, PTL

(* begin_block looks at the referenda from LowestUnbaked up to             *)
(* ReferendumCount only: every open one is among them.                     *)
THEOREM NoReferendumForgotten == DemocracySpec => []NoneForgotten
<1>1. DemocracyInv => NoneForgotten
  BY DEF DemocracyInv
<1> QED
  BY <1>1, DemocracyHolds, PTL

-----------------------------------------------------------------------------
(* Referenda as Referendum sees them.                                      *)

(* What holds of the first position and goes on from each to the next      *)
(* holds of all.                                                           *)
LEMMA Upwards ==
    ASSUME NEW N \in Nat, NEW S, 0 \in S, \A k \in 1..N : k - 1 \in S => k \in S
    PROVE  \A k \in 0..N : k \in S
<1> DEFINE bad == {k \in 0..N : k \notin S}
<1>1. ASSUME bad # {} PROVE FALSE
  <2>1. PICK k \in bad : \A m \in bad : k <= m
    <3>1. bad \subseteq Nat
      OBVIOUS
    <3> HIDE DEF bad
    <3> QED
      BY <1>1, <3>1, SmallestSize
  <2>2. k \in 1..N /\ k - 1 \in 0..N /\ ~ (k <= k - 1)
    BY <2>1
  <2>3. k - 1 \notin bad
    <3> HIDE DEF bad
    <3> QED
      BY <2>1, <2>2
  <2> QED
    BY <2>1, <2>2, <2>3
<1> QED
  BY <1>1

Once(a) == \A j, k \in DOMAIN a : a[j].index = a[k].index => j = k

(* r consists of entries of s at positions to keep, up to n, and has all   *)
(* of them.                                                                *)
PickedFrom(r, s, keep, n) ==
    /\ \A j \in DOMAIN r : \E k \in DOMAIN s \cap keep : k <= n /\ r[j] = s[k]
    /\ \A k \in DOMAIN s \cap keep : k <= n => \E j \in DOMAIN r : r[j] = s[k]
    /\ Once(s) => Once(r)

LEMMA RetainPicks ==
    ASSUME NEW T, NEW s \in Seq(T), NEW keep
    PROVE  Retain(s, keep) \in Seq(T) /\ PickedFrom(Retain(s, keep), s, keep, Len(s))
<1> DEFINE N == Len(s)
           g == CHOOSE f : Retains(f, s, keep, N)
           good == {k \in 0..N : g[k] \in Seq(T) /\ PickedFrom(g[k], s, keep, k)}
<1>1. Retain(s, keep) = g[N]
  BY DEF Retain, Retains
<1>2. N \in Nat /\ DOMAIN s = 1..N
  OBVIOUS
<1>3. Retains(g, s, keep, N)
  <2> HIDE DEF N
  <2> QED
    BY <1>2, RetainsExists
<1> HIDE DEF g
<1>4. ASSUME NEW k \in 1..N, g[k - 1] \in Seq(T), PickedFrom(g[k - 1], s, keep, k - 1)
      PROVE  g[k] \in Seq(T) /\ PickedFrom(g[k], s, keep, k)
  <2> DEFINE p == g[k - 1]
  <2>1. g[k] = IF k \in keep THEN Append(p, s[k]) ELSE p
    <3>1. k \in 0..N /\ k # 0
      BY <1>2
    <3> HIDE DEF N
    <3> QED
      BY <1>3, <3>1 DEF Retains
  <2>2. s[k] \in T
    OBVIOUS
  <2>3. p \in Seq(T) /\ PickedFrom(p, s, keep, k - 1)
    BY <1>4
  <2> HIDE DEF N, p
  <2>4. CASE k \notin keep
    <3>1. g[k] = p
      BY <2>1, <2>4
    <3>2. \A m \in DOMAIN s \cap keep : m <= k => m <= k - 1
      BY <1>2, <2>4
    <3>3. \A m \in DOMAIN s \cap keep : m <= k - 1 => m <= k
      BY <1>2
    <3> QED
      BY <2>3, <3>1, <3>2, <3>3 DEF PickedFrom
  <2>5. CASE k \in keep
    <3> DEFINE q == Append(p, s[k])
    <3>1. /\ q \in Seq(T) /\ Len(p) \in Nat /\ DOMAIN q = 1..(Len(p) + 1)
          /\ DOMAIN p = 1..Len(p)
          /\ q[Len(p) + 1] = s[k]
          /\ \A j \in DOMAIN p : q[j] = p[j]
      BY <2>2, <2>3
    <3>2. g[k] = q
      BY <2>1, <2>5
    <3> HIDE DEF q
    <3>3. \A j \in DOMAIN q : j \in DOMAIN p \/ j = Len(p) + 1
      BY <3>1
    <3>4. \A j \in DOMAIN p : j \in DOMAIN q
      BY <3>1
    <3>5. Len(p) + 1 \in DOMAIN q /\ k \in DOMAIN s \cap keep
      BY <1>2, <2>5, <3>1
    <3>6. \A m \in DOMAIN s : m <= k => m <= k - 1 \/ m = k
      BY <1>2
    <3>7. \A m \in DOMAIN s : (m <= k - 1 => m <= k /\ m # k) /\ k <= k
      BY <1>2
    <3>8. \A j \in DOMAIN q : \E m \in DOMAIN s \cap keep : m <= k /\ q[j] = s[m]
      <4> SUFFICES ASSUME NEW j \in DOMAIN q
                   PROVE  \E m \in DOMAIN s \cap keep : m <= k /\ q[j] = s[m]
        OBVIOUS
      <4>1. CASE j \in DOMAIN p
        <5>1. PICK m \in DOMAIN s \cap keep : m <= k - 1 /\ p[j] = s[m]
          BY <2>3, <4>1 DEF PickedFrom
        <5> QED
          BY <3>1, <3>7, <4>1, <5>1
      <4>2. CASE j = Len(p) + 1
        BY <3>1, <3>5, <3>7, <4>2
      <4> QED
        BY <3>3, <4>1, <4>2
    <3>9. \A m \in DOMAIN s \cap keep : m <= k => \E j \in DOMAIN q : q[j] = s[m]
      <4> SUFFICES ASSUME NEW m \in DOMAIN s \cap keep, m <= k
                   PROVE  \E j \in DOMAIN q : q[j] = s[m]
        OBVIOUS
      <4>1. CASE m <= k - 1
        <5>1. PICK j \in DOMAIN p : p[j] = s[m]
          BY <2>3, <4>1 DEF PickedFrom
        <5> QED
          BY <3>1, <3>4, <5>1
      <4>2. CASE m = k
        BY <3>1, <3>5, <4>2
      <4> QED
        BY <3>6, <4>1, <4>2
    <3>10. ASSUME Once(s) PROVE Once(q)
      <4>1. Once(p)
        BY <2>3, <3>10 DEF PickedFrom
      <4>2. \A j \in DOMAIN p : q[j].index # q[Len(p) + 1].index
        <5> SUFFICES ASSUME NEW j \in DOMAIN p, p[j].index = s[k].index PROVE FALSE
          BY <3>1
        <5>1. PICK m \in DOMAIN s \cap keep : m <= k - 1 /\ p[j] = s[m]
          BY <2>3 DEF PickedFrom
        <5>2. m # k
          BY <3>7, <5>1
        <5> QED
          BY <3>5, <3>10, <5>1, <5>2 DEF Once
      <4> SUFFICES ASSUME NEW j \in DOMAIN q, NEW i \in DOMAIN q, q[i].index = q[j].index
                   PROVE  i = j
        BY DEF Once
      <4>3. CASE i \in DOMAIN p /\ j \in DOMAIN p
        BY <3>1, <4>1, <4>3 DEF Once
      <4> QED
        BY <3>3, <4>2, <4>3
    <3> QED
      BY <3>1, <3>2, <3>8, <3>9, <3>10 DEF PickedFrom
  <2> QED
    BY <2>4, <2>5
<1>5. g[0] \in Seq(T) /\ PickedFrom(g[0], s, keep, 0)
  <2>1. g[0] = <<>>
    BY <1>2, <1>3 DEF Retains
  <2>2. \A k \in DOMAIN s : ~ (k <= 0)
    BY <1>2
  <2> QED
    BY <2>1, <2>2 DEF PickedFrom, Once
<1> HIDE DEF N
<1>6. \A k \in 0..N : k \in good
  <2>1. 0 \in good
    BY <1>2, <1>5
  <2>2. \A k \in 1..N : k - 1 \in good => k \in good
    <3> SUFFICES ASSUME NEW k \in 1..N, k - 1 \in good PROVE k \in good
      OBVIOUS
    <3> QED
      BY <1>2, <1>4
  <2> HIDE DEF good
  <2> QED
    BY <1>2, <2>1, <2>2, Upwards
<1>7. N \in good
  BY <1>2, <1>6
<1> QED
  BY <1>1, <1>7 DEF N

AgendaType == [index: RefIds, when: Nat, id: ProposalIds]
Outcomes == {"missing", "invalid", "ungoverned", "executed"}

OnAgenda(c, i) == \E k \in DOMAIN c.agenda : c.agenda[k].index = i

(* A referendum is voted on, waits for its enactment or has had it, never  *)
(* two of these; it waits once, and it is enacted once.                    *)
Coherent(c) ==
    /\ c.agenda \in Seq(AgendaType) /\ Once(c.agenda)
    /\ c.outcomes \in [RefIds -> Seq(Outcomes)]
    /\ \A i \in RefIds :
          /\ OnAgenda(c, i) \/ c.outcomes[i] # <<>> => i < c.count /\ c.info[i].kind # "ongoing"
          /\ OnAgenda(c, i) => c.outcomes[i] = <<>>
          /\ Len(c.outcomes[i]) <= 1
          /\ c.info[i].kind = "ongoing" => i < c.count

(* The stage of a referendum in a chain.                                   *)
StageIn(c, i) ==
    IF i >= c.count THEN "unopened"
    ELSE IF c.outcomes[i] = <<"executed">> THEN "executed"
    ELSE IF c.outcomes[i] # <<>> THEN "closed"
    ELSE IF OnAgenda(c, i) THEN "queued"
    ELSE IF c.info[i].kind = "ongoing" THEN "open" ELSE "closed"

LEMMA CountedReferenda ==
    ASSUME NEW n \in 0..MaxReferenda
    PROVE  /\ n \in Int /\ RefIds \subseteq Int
           /\ \A i \in RefIds : i >= n <=> ~ (i < n)
           /\ \A i \in RefIds : i < n + 1 <=> i < n \/ i = n
           /\ \A i \in RefIds : i < n => i # n
BY DemocracyTypes DEF RefIds

LEMMA StageOfIsStageIn ==
    ASSUME Coherent(ChainNow), referendum_count \in 0..MaxReferenda, NEW i \in RefIds
    PROVE  StageOf(i) = StageIn(ChainNow, i)
<1> DEFINE o == enactments[i]
<1>1. ChainNow.count = referendum_count /\ ChainNow.outcomes = enactments
      /\ ChainNow.info = referendum_info /\ ChainNow.agenda = agenda
  BY DEF ChainNow
<1>2. o \in Seq(Outcomes) /\ Len(o) <= 1
  BY <1>1 DEF Coherent
<1>3. o # <<>> => Len(o) = 1
  <2> HIDE DEF o
  <2>1. Len(o) \in Nat /\ (o = <<>> <=> Len(o) = 0)
    BY <1>2, EmptySeq
  <2>2. \A n \in Nat : n <= 1 => n = 0 \/ n = 1
    OBVIOUS
  <2> QED
    BY <1>2, <2>1, <2>2, Zenon
<1>4. i >= referendum_count <=> ~ (i < referendum_count)
  BY CountedReferenda
<1>5. OnAgenda(ChainNow, i) <=> \E k \in DOMAIN agenda : agenda[k].index = i
  BY <1>1 DEF OnAgenda
<1>6. <<"executed">> # <<>>
  OBVIOUS
<1>7. CASE i >= referendum_count
  BY <1>1, <1>4, <1>7 DEF StageOf, StageIn
<1>8. CASE ~ (i >= referendum_count) /\ o # <<>>
  BY <1>1, <1>3, <1>4, <1>8 DEF StageOf, StageIn
<1>9. CASE ~ (i >= referendum_count) /\ o = <<>>
  BY <1>1, <1>4, <1>5, <1>6, <1>9 DEF StageOf, StageIn, Ongoing
<1> QED
  BY <1>7, <1>8, <1>9

StagesIn(c) == [i \in RefIds |-> StageIn(c, i)]

LEMMA StageFacts ==
    ASSUME NEW c, c.count \in 0..MaxReferenda, NEW i \in RefIds
    PROVE  /\ StageIn(c, i) \in Abstract!Stages
           /\ StageIn(c, i) = "unopened" <=> i >= c.count
BY DEF StageIn, Abstract!Stages

(* From c to d each referendum stays or makes one move.                    *)
MayMove(c, d, i) ==
    StageIn(d, i) = StageIn(c, i) \/ <<StageIn(c, i), StageIn(d, i)>> \in Abstract!Moves

LEMMA StagesAlike ==
    ASSUME NEW c, NEW d, NEW i, d.count = c.count, d.outcomes[i] = c.outcomes[i],
           OnAgenda(d, i) <=> OnAgenda(c, i),
           d.info[i].kind = "ongoing" <=> c.info[i].kind = "ongoing"
    PROVE  StageIn(d, i) = StageIn(c, i)
BY DEF StageIn

(* Changes that leave the scheduler alone and may end votes.               *)
LEMMA EndsMove ==
    ASSUME NEW c, NEW d, Coherent(c), c.count \in 0..MaxReferenda, d.count = c.count,
           d.outcomes = c.outcomes, d.agenda = c.agenda,
           \A i \in RefIds : d.info[i].kind = "ongoing" => c.info[i].kind = "ongoing"
    PROVE  Coherent(d) /\ \A i \in RefIds : MayMove(c, d, i)
<1>1. \A i : OnAgenda(d, i) <=> OnAgenda(c, i)
  BY DEF OnAgenda
<1>2. Coherent(d)
  BY <1>1 DEF Coherent
<1>3. ASSUME NEW i \in RefIds PROVE MayMove(c, d, i)
  <2>1. CASE d.info[i].kind = "ongoing" <=> c.info[i].kind = "ongoing"
    BY <1>1, <2>1, StagesAlike DEF MayMove
  <2>2. CASE d.info[i].kind # "ongoing" /\ c.info[i].kind = "ongoing"
    <3>1. ~ OnAgenda(c, i) /\ c.outcomes[i] = <<>> /\ i < c.count
      BY <2>2 DEF Coherent
    <3>2. ~ (i >= c.count)
      BY <3>1, CountedReferenda
    <3>3. <<"executed">> # <<>>
      OBVIOUS
    <3>4. StageIn(c, i) = "open" /\ StageIn(d, i) = "closed"
      BY <1>1, <2>2, <3>1, <3>2, <3>3 DEF StageIn
    <3> QED
      BY <3>4 DEF MayMove, Abstract!Moves
  <2> QED
    BY <2>1, <2>2
<1> QED
  BY <1>2, <1>3

(* The next referendum is opened.                                          *)
LEMMA OpensMove ==
    ASSUME NEW c, NEW d, Coherent(c), c.count \in RefIds, c.count \in 0..MaxReferenda,
           d.count = c.count + 1, d.outcomes = c.outcomes, d.agenda = c.agenda,
           \A i \in RefIds : i # c.count => d.info[i] = c.info[i],
           d.info[c.count].kind = "ongoing"
    PROVE  /\ Coherent(d)
           /\ \A i \in RefIds : i # c.count => StageIn(d, i) = StageIn(c, i)
           /\ StageIn(c, c.count) = "unopened" /\ StageIn(d, c.count) = "open"
<1>1. \A i : OnAgenda(d, i) <=> OnAgenda(c, i)
  BY DEF OnAgenda
<1>2. \A i \in RefIds : (i < d.count <=> i < c.count \/ i = c.count)
                        /\ (i >= c.count <=> ~ (i < c.count))
                        /\ (i >= d.count <=> ~ (i < d.count)) /\ (i < c.count => i # c.count)
  <2>1. c.count + 1 \in 0..MaxReferenda
    BY DemocracyTypes DEF RefIds
  <2> QED
    BY <2>1, CountedReferenda
<1>3. c.outcomes[c.count] = <<>> /\ ~ OnAgenda(c, c.count)
  BY <1>2 DEF Coherent
<1>4. Coherent(d)
  BY <1>1, <1>2, <1>3 DEF Coherent
<1>5. \A i \in RefIds : i # c.count => StageIn(d, i) = StageIn(c, i)
  BY <1>1, <1>2 DEF StageIn
<1>6. StageIn(c, c.count) = "unopened"
  BY <1>2 DEF StageIn
<1>7. StageIn(d, c.count) = "open"
  <2>1. <<"executed">> # <<>> /\ ~ (c.count >= d.count)
    BY <1>2
  <2> QED
    BY <1>1, <1>3, <2>1 DEF StageIn
<1> QED
  BY <1>4, <1>5, <1>6, <1>7

-----------------------------------------------------------------------------
(* The scheduler runs what is due.                                         *)

LEMMA OutcomeKinds ==
    ASSUME NEW p, NEW id
    PROVE  Outcome(p, id) \in Outcomes
BY DEF Outcome, Outcomes

IsEnacted(c, p, o, l, d) == d = [c EXCEPT !.pre = p, !.outcomes = o, !.ledger = l]

(* From c to d the proposal id of referendum i was enacted.                *)
Enacted(c, id, i, d) ==
    /\ IsChain(d) /\ d.props = c.props /\ d.deposits = c.deposits
    /\ d.external = c.external /\ d.count = c.count /\ d.info = c.info
    /\ d.agenda = c.agenda
    /\ d.pre = [c.pre EXCEPT ![id] = NoPreimage]
    /\ d.outcomes = [c.outcomes EXCEPT ![i] = Append(c.outcomes[i], Outcome(c.pre[id], id))]
    /\ d.ledger = Refunded(c.ledger, c.pre[id], Outcome(c.pre[id], id))

LEMMA EnactWrites ==
    ASSUME NEW c, IsChain(c), NEW id, NEW i
    PROVE  Enacted(c, id, i, Enact(c, id, i))
<1> DEFINE d == Enact(c, id, i)
           p == [c.pre EXCEPT ![id] = NoPreimage]
           o == [c.outcomes EXCEPT ![i] = Append(c.outcomes[i], Outcome(c.pre[id], id))]
           l == Refunded(c.ledger, c.pre[id], Outcome(c.pre[id], id))
<1>1. IsEnacted(c, p, o, l, d)
  BY DEF Enact, IsEnacted
<1> HIDE DEF p, o, l, d
<1>2. /\ IsChain(d) /\ d.props = c.props /\ d.deposits = c.deposits
      /\ d.external = c.external /\ d.count = c.count /\ d.info = c.info
      /\ d.agenda = c.agenda /\ d.pre = p /\ d.outcomes = o /\ d.ledger = l
  BY <1>1 DEF IsEnacted, IsChain
<1> QED
  BY <1>2 DEF p, o, l, d, Enacted

(* After the first k entries: those of them that are due have an outcome.  *)
DueUpTo(entries, due, k, i) == \E m \in due : m <= k /\ entries[m].index = i

EnactedUpTo(c, d, entries, due, k) ==
    /\ IsChain(d)
    /\ d.count = c.count /\ d.info = c.info /\ d.agenda = c.agenda
    /\ d.outcomes \in [RefIds -> Seq(Outcomes)]
    /\ \A i \in RefIds :
          IF DueUpTo(entries, due, k, i) THEN \E o \in Outcomes : d.outcomes[i] = <<o>>
          ELSE d.outcomes[i] = c.outcomes[i]

LEMMA EnactAllOutcomes ==
    ASSUME NEW c, IsChain(c), NEW entries \in Seq(AgendaType), Once(entries),
           c.outcomes \in [RefIds -> Seq(Outcomes)],
           \A k \in DOMAIN entries : c.outcomes[entries[k].index] = <<>>,
           NEW due, due \subseteq DOMAIN entries
    PROVE  EnactedUpTo(c, EnactAll(c, entries, due), entries, due, Len(entries))
<1> DEFINE N == Len(entries)
           g == CHOOSE f : Enacts(f, c, entries, due, N)
           good == {k \in 0..N : EnactedUpTo(c, g[k], entries, due, k)}
<1>1. EnactAll(c, entries, due) = g[N]
  BY DEF EnactAll, Enacts
<1>2. N \in Nat /\ DOMAIN entries = 1..N
  OBVIOUS
<1>3. Enacts(g, c, entries, due, N)
  <2> HIDE DEF N
  <2> QED
    BY <1>2, EnactsExists
<1> HIDE DEF g
<1>4. ASSUME NEW k \in 1..N, EnactedUpTo(c, g[k - 1], entries, due, k - 1)
      PROVE  EnactedUpTo(c, g[k], entries, due, k)
  <2> DEFINE d == g[k - 1]
             e == entries[k]
  <2>1. g[k] = IF k \in due THEN Enact(d, e.id, e.index) ELSE d
    <3>1. k \in 0..N /\ k # 0
      BY <1>2
    <3> HIDE DEF N
    <3> QED
      BY <1>3, <3>1 DEF Enacts
  <2>2. e \in AgendaType /\ e.index \in RefIds
    <3>1. e \in AgendaType
      OBVIOUS
    <3> HIDE DEF e
    <3> QED
      BY <3>1 DEF AgendaType
  <2>3. EnactedUpTo(c, d, entries, due, k - 1)
    BY <1>4
  <2>4. \A m \in due : (m <= k <=> m <= k - 1 \/ m = k) /\ (m <= k - 1 => m # k)
    BY <1>2
  <2> HIDE DEF N, d
  <2>5. CASE k \notin due
    <3>1. g[k] = d
      BY <2>1, <2>5
    <3>2. \A i : DueUpTo(entries, due, k, i) <=> DueUpTo(entries, due, k - 1, i)
      BY <2>4, <2>5 DEF DueUpTo
    <3> QED
      BY <2>3, <3>1, <3>2 DEF EnactedUpTo
  <2>6. CASE k \in due
    <3> DEFINE o == Outcome(d.pre[e.id], e.id)
               f == Enact(d, e.id, e.index)
    <3>1. /\ IsChain(f) /\ f.count = d.count /\ f.info = d.info /\ f.agenda = d.agenda
          /\ f.outcomes = [d.outcomes EXCEPT ![e.index] = Append(d.outcomes[e.index], o)]
      <4>1. IsChain(d)
        BY <2>3 DEF EnactedUpTo
      <4>2. Enacted(d, e.id, e.index, f)
        BY <4>1, EnactWrites
      <4> HIDE DEF f, e
      <4> QED
        BY <4>2 DEF Enacted
    <3>2. o \in Outcomes /\ g[k] = f
      BY <2>1, <2>6, OutcomeKinds
    <3> HIDE DEF o, f
    <3>3. ~ DueUpTo(entries, due, k - 1, e.index)
      <4> SUFFICES ASSUME NEW m \in due, m <= k - 1, entries[m].index = e.index PROVE FALSE
        BY DEF DueUpTo
      <4>1. m \in DOMAIN entries /\ k \in DOMAIN entries /\ m # k
        BY <2>4, <1>2
      <4> QED
        BY <4>1 DEF Once
    <3>4. d.outcomes[e.index] = <<>>
      <4>1. k \in DOMAIN entries
        BY <1>2
      <4> QED
        BY <2>2, <2>3, <3>3, <4>1 DEF EnactedUpTo
    <3>5. d.outcomes \in [RefIds -> Seq(Outcomes)] /\ Append(<<>>, o) = <<o>>
          /\ <<o>> \in Seq(Outcomes)
      BY <2>3, <3>2 DEF EnactedUpTo
    <3>6. f.outcomes \in [RefIds -> Seq(Outcomes)] /\ f.outcomes[e.index] = <<o>>
          /\ \A i \in RefIds \ {e.index} : f.outcomes[i] = d.outcomes[i]
      BY <2>2, <3>1, <3>4, <3>5
    <3>7. DueUpTo(entries, due, k, e.index)
      BY <2>4, <2>6 DEF DueUpTo
    <3>8. \A i \in RefIds \ {e.index} :
             DueUpTo(entries, due, k, i) <=> DueUpTo(entries, due, k - 1, i)
      BY <2>4 DEF DueUpTo
    <3>9. ASSUME NEW i \in RefIds
          PROVE  IF DueUpTo(entries, due, k, i) THEN \E x \in Outcomes : f.outcomes[i] = <<x>>
                 ELSE f.outcomes[i] = c.outcomes[i]
      <4>1. CASE i = e.index
        BY <3>2, <3>6, <3>7, <4>1
      <4>2. CASE i # e.index
        BY <2>3, <3>6, <3>8, <4>2 DEF EnactedUpTo
      <4> QED
        BY <4>1, <4>2
    <3> QED
      BY <2>3, <3>1, <3>2, <3>6, <3>9 DEF EnactedUpTo
  <2> QED
    BY <2>5, <2>6
<1>5. EnactedUpTo(c, g[0], entries, due, 0)
  <2>1. g[0] = c
    BY <1>2, <1>3 DEF Enacts
  <2>2. \A i : ~ DueUpTo(entries, due, 0, i)
    BY <1>2 DEF DueUpTo
  <2> QED
    BY <2>1, <2>2 DEF EnactedUpTo
<1> HIDE DEF N
<1>6. \A k \in 0..N : k \in good
  <2>1. 0 \in good
    BY <1>2, <1>5
  <2>2. \A k \in 1..N : k - 1 \in good => k \in good
    <3> SUFFICES ASSUME NEW k \in 1..N, k - 1 \in good PROVE k \in good
      OBVIOUS
    <3> QED
      BY <1>2, <1>4
  <2> HIDE DEF good
  <2> QED
    BY <1>2, <2>1, <2>2, Upwards
<1>7. N \in good
  BY <1>2, <1>6
<1> QED
  BY <1>1, <1>7 DEF N

IsTrimmed(c, a, d) == d = [c EXCEPT !.agenda = a]

(* Between the blocks nothing is overdue, and what is due leaves the       *)
(* agenda with an outcome.                                                 *)
EnactMoves(c, d) ==
    /\ Coherent(d)
    /\ d.count = c.count /\ d.info = c.info
    /\ \A i \in RefIds : MayMove(c, d, i)
    /\ \A i \in RefIds : c.info[i].kind = "ongoing" => StageIn(d, i) = StageIn(c, i)
    /\ \A i \in RefIds : i >= c.count => StageIn(d, i) = StageIn(c, i)

LEMMA EnactDueMoves ==
    ASSUME NEW c, IsChain(c), Coherent(c), c.count \in 0..MaxReferenda, NEW n
    PROVE  EnactMoves(c, EnactDue(c, n))
<1> DEFINE due == Due(c, n)
           keep == DOMAIN c.agenda \ due
           r == Retain(c.agenda, keep)
           b == [c EXCEPT !.agenda = r]
           d == EnactDue(c, n)
<1>1. d = EnactAll(b, c.agenda, due)
  BY DEF EnactDue
<1>2. c.agenda \in Seq(AgendaType) /\ Once(c.agenda) /\ due \subseteq DOMAIN c.agenda
  BY DEF Coherent, Due
<1>3. /\ r \in Seq(AgendaType) /\ Once(r)
      /\ \A j \in DOMAIN r : \E k \in DOMAIN c.agenda \cap keep : r[j] = c.agenda[k]
      /\ \A k \in DOMAIN c.agenda \cap keep : \E j \in DOMAIN r : r[j] = c.agenda[k]
  <2> HIDE DEF keep
  <2>1. r \in Seq(AgendaType) /\ PickedFrom(r, c.agenda, keep, Len(c.agenda))
    BY <1>2, RetainPicks
  <2>2. \A k \in DOMAIN c.agenda : k <= Len(c.agenda)
    BY <1>2
  <2> QED
    BY <1>2, <2>1, <2>2 DEF PickedFrom
<1>4. \A k \in DOMAIN c.agenda : k \in keep <=> k \notin due
  OBVIOUS
<1> HIDE DEF keep, r
<1>5. /\ IsChain(b) /\ b.count = c.count /\ b.info = c.info /\ b.agenda = r
      /\ b.outcomes = c.outcomes
  <2>1. IsTrimmed(c, r, b)
    BY DEF IsTrimmed
  <2> HIDE DEF b
  <2> QED
    BY <2>1 DEF IsTrimmed, IsChain
<1> HIDE DEF b, d, due
<1>6. c.outcomes \in [RefIds -> Seq(Outcomes)]
      /\ \A k \in DOMAIN c.agenda : c.outcomes[c.agenda[k].index] = <<>>
  <2>1. \A k \in DOMAIN c.agenda : c.agenda[k].index \in RefIds /\ OnAgenda(c, c.agenda[k].index)
    <3>1. \A k \in DOMAIN c.agenda : c.agenda[k] \in AgendaType
      BY <1>2
    <3> QED
      BY <3>1 DEF AgendaType, OnAgenda
  <2> QED
    BY <2>1 DEF Coherent
<1>7. EnactedUpTo(b, d, c.agenda, due, Len(c.agenda))
  BY <1>1, <1>2, <1>5, <1>6, EnactAllOutcomes
<1>8. \A m \in due : m <= Len(c.agenda)
  BY <1>2
<1>9. d.count = c.count /\ d.info = c.info /\ d.agenda = r
      /\ d.outcomes \in [RefIds -> Seq(Outcomes)]
  BY <1>5, <1>7 DEF EnactedUpTo
<1>10. ASSUME NEW i \in RefIds
       PROVE  \/ /\ OnAgenda(c, i) /\ ~ OnAgenda(d, i)
                 /\ \E o \in Outcomes : d.outcomes[i] = <<o>>
              \/ (OnAgenda(d, i) <=> OnAgenda(c, i)) /\ d.outcomes[i] = c.outcomes[i]
  <2>1. CASE DueUpTo(c.agenda, due, Len(c.agenda), i)
    <3>1. PICK m \in due : c.agenda[m].index = i
      BY <2>1 DEF DueUpTo
    <3>2. OnAgenda(c, i)
      BY <1>2, <3>1 DEF OnAgenda
    <3>3. ~ OnAgenda(d, i)
      <4> SUFFICES ASSUME NEW j \in DOMAIN r, r[j].index = i PROVE FALSE
        BY <1>9 DEF OnAgenda
      <4>1. PICK k \in DOMAIN c.agenda \cap keep : r[j] = c.agenda[k]
        BY <1>3
      <4>2. k = m
        BY <1>2, <3>1, <4>1 DEF Once
      <4> QED
        BY <1>4, <3>1, <4>1, <4>2
    <3>4. \E o \in Outcomes : d.outcomes[i] = <<o>>
      BY <1>7, <2>1 DEF EnactedUpTo
    <3> QED
      BY <3>2, <3>3, <3>4
  <2>2. CASE ~ DueUpTo(c.agenda, due, Len(c.agenda), i)
    <3>1. \A m \in due : c.agenda[m].index # i
      BY <1>8, <2>2 DEF DueUpTo
    <3>2. d.outcomes[i] = c.outcomes[i]
      BY <1>5, <1>7, <2>2 DEF EnactedUpTo
    <3>3. ASSUME OnAgenda(c, i) PROVE OnAgenda(d, i)
      <4>1. PICK k \in DOMAIN c.agenda : c.agenda[k].index = i
        BY <3>3 DEF OnAgenda
      <4>2. k \in keep
        BY <1>4, <3>1, <4>1
      <4>3. PICK j \in DOMAIN r : r[j] = c.agenda[k]
        BY <1>3, <4>2
      <4> QED
        BY <1>9, <4>1, <4>3 DEF OnAgenda
    <3>4. ASSUME OnAgenda(d, i) PROVE OnAgenda(c, i)
      BY <1>3, <1>9, <3>4 DEF OnAgenda
    <3> QED
      BY <3>2, <3>3, <3>4
  <2> QED
    BY <2>1, <2>2
<1>11. \A o : Len(<<o>>) <= 1 /\ <<o>> # <<>>
  OBVIOUS
<1>12. Coherent(d)
  <2>1. ASSUME NEW i \in RefIds
        PROVE  /\ OnAgenda(d, i) \/ d.outcomes[i] # <<>> =>
                     i < d.count /\ d.info[i].kind # "ongoing"
               /\ OnAgenda(d, i) => d.outcomes[i] = <<>>
               /\ Len(d.outcomes[i]) <= 1
               /\ d.info[i].kind = "ongoing" => i < d.count
    BY <1>9, <1>10, <1>11 DEF Coherent
  <2> QED
    BY <1>3, <1>9, <2>1 DEF Coherent
<1>13. ASSUME NEW i \in RefIds, ~ (OnAgenda(c, i) /\ ~ OnAgenda(d, i))
       PROVE  StageIn(d, i) = StageIn(c, i)
  BY <1>9, <1>10, <1>13 DEF StageIn
<1>14. ASSUME NEW i \in RefIds, OnAgenda(c, i), ~ OnAgenda(d, i)
       PROVE  /\ MayMove(c, d, i) /\ c.info[i].kind # "ongoing" /\ ~ (i >= c.count)
  <2>1. PICK o \in Outcomes : d.outcomes[i] = <<o>>
    BY <1>10, <1>14
  <2>2. c.outcomes[i] = <<>> /\ i < c.count /\ c.info[i].kind # "ongoing"
    BY <1>14 DEF Coherent
  <2>3. ~ (i >= c.count)
    BY <2>2, CountedReferenda
  <2>4. StageIn(c, i) = "queued"
    BY <1>11, <1>14, <2>2, <2>3 DEF StageIn
  <2>5. StageIn(d, i) \in {"closed", "executed"}
    BY <1>9, <1>11, <2>1, <2>3 DEF StageIn
  <2> QED
    BY <2>2, <2>3, <2>4, <2>5 DEF MayMove, Abstract!Moves
<1>15. EnactMoves(c, d)
  BY <1>9, <1>12, <1>13, <1>14 DEF EnactMoves, MayMove
<1> QED
  BY <1>15 DEF d

(* A launch writes neither the agenda nor outcomes.                        *)
LEMMA LaunchLeaves ==
    ASSUME NEW c, IsChain(c), NEW n
    PROVE  LaunchNext(c, n).agenda = c.agenda /\ LaunchNext(c, n).outcomes = c.outcomes
<1>1. ASSUME NEW b, IsChain(b), NEW id, NEW t
      PROVE  /\ Injected(b, n, id, t).agenda = b.agenda
             /\ Injected(b, n, id, t).outcomes = b.outcomes
  <2> DEFINE x == b.count + 1
             info == [b.info EXCEPT ![b.count] = OngoingStatus(n + VotingPeriod, id, t, EnactmentPeriod)]
             d == Injected(b, n, id, t)
  <2>1. IsInjected(b, x, info, d)
    BY DEF IsInjected, Injected
  <2> HIDE DEF x, info, d
  <2>2. d.agenda = b.agenda /\ d.outcomes = b.outcomes
    BY <1>1, <2>1 DEF IsInjected, IsChain
  <2> QED
    BY <2>2 DEF d
<1>2. LaunchExternal(c, n).agenda = c.agenda /\ LaunchExternal(c, n).outcomes = c.outcomes
  <2> DEFINE w == TRUE
             none == <<>>
             b == [c EXCEPT !.external = none, !.wasExternal = w]
  <2>1. IsTabled(c, none, w, b)
    BY DEF IsTabled
  <2>2. LaunchExternal(c, n) = Injected(b, n, c.external[1].id, c.external[1].threshold)
    BY DEF LaunchExternal
  <2> HIDE DEF w, none, b
  <2>3. IsChain(b) /\ b.agenda = c.agenda /\ b.outcomes = c.outcomes
    BY <2>1 DEF IsTabled, IsChain
  <2> QED
    BY <1>1, <2>2, <2>3
<1>3. LaunchPublic(c, n).agenda = c.agenda /\ LaunchPublic(c, n).outcomes = c.outcomes
  <2> DEFINE p == c.props[BestBacked(c)]
             props == SwapRemoved(c.props, BestBacked(c))
             w == FALSE
             t == "SuperMajorityApprove"
             deposits == [c.deposits EXCEPT ![p.index] = NoDeposit]
             l == ReleasedAll(c.ledger, c.deposits[p.index])
             b == [c EXCEPT !.props = props, !.wasExternal = w, !.deposits = deposits, !.ledger = l]
  <2>1. IsTaken(c, props, w, deposits, l, b)
    BY DEF IsTaken
  <2>2. LaunchPublic(c, n) = Injected(b, n, p.id, t)
    BY DEF LaunchPublic
  <2> HIDE DEF p, props, w, t, deposits, l, b
  <2>3. IsChain(b) /\ b.agenda = c.agenda /\ b.outcomes = c.outcomes
    BY <2>1 DEF IsTaken, IsChain
  <2> QED
    BY <1>1, <2>2, <2>3
<1>4. [c EXCEPT !.wasExternal = FALSE].agenda = c.agenda
      /\ [c EXCEPT !.wasExternal = FALSE].outcomes = c.outcomes
  BY DEF IsChain
<1>5. LaunchNext(c, n) \in {LaunchExternal(c, n), LaunchPublic(c, n), [c EXCEPT !.wasExternal = FALSE]}
  BY DEF LaunchNext
<1> QED
  BY <1>2, <1>3, <1>4, <1>5

(* A referendum that ends is closed, executed or queued.                   *)
BakeMoves(c, d, i) ==
    /\ Coherent(d)
    /\ d.count = c.count
    /\ \A j \in RefIds \ {i} : d.info[j] = c.info[j] /\ StageIn(d, j) = StageIn(c, j)
    /\ StageIn(c, i) = "open" /\ StageIn(d, i) \in {"closed", "executed", "queued"}

(* What baking does apart from the decision, in the scheduler.             *)
Arranges(c, b, i) ==
    /\ IsChain(b) /\ b.count = c.count /\ b.info = c.info
    /\ b.agenda \in Seq(AgendaType) /\ Once(b.agenda)
    /\ b.outcomes \in [RefIds -> Seq(Outcomes)]
    /\ \A j \in RefIds \ {i} : /\ OnAgenda(b, j) <=> OnAgenda(c, j)
                               /\ b.outcomes[j] = c.outcomes[j]
    /\ Len(b.outcomes[i]) <= 1
    /\ OnAgenda(b, i) => b.outcomes[i] = <<>>

LEMMA DecidedWrites ==
    ASSUME NEW c, IsChain(c), NEW i \in RefIds, NEW n, NEW passed, DOMAIN c.info = RefIds
    PROVE  LET d == Decided(c, i, n, passed) IN
           /\ IsChain(d) /\ d.count = c.count /\ d.agenda = c.agenda /\ d.outcomes = c.outcomes
           /\ d.info[i].kind = "finished" /\ \A j \in RefIds \ {i} : d.info[j] = c.info[j]
           /\ d.pre = c.pre /\ d.ledger = c.ledger /\ d.deposits = c.deposits
<1> DEFINE s == [kind |-> "finished", approved |-> passed, end |-> n]
           info == [c.info EXCEPT ![i] = s]
           d == Decided(c, i, n, passed)
<1>1. s.kind = "finished"
  OBVIOUS
<1>2. IsDecided(c, info, d)
  BY DEF Decided, IsDecided
<1> HIDE DEF s, d
<1>3. info[i] = s /\ \A j \in RefIds \ {i} : info[j] = c.info[j]
  OBVIOUS
<1> HIDE DEF info
<1>4. /\ IsChain(d) /\ d.count = c.count /\ d.agenda = c.agenda /\ d.outcomes = c.outcomes
      /\ d.info = info /\ d.pre = c.pre /\ d.ledger = c.ledger /\ d.deposits = c.deposits
  BY <1>2 DEF IsDecided, IsChain
<1> QED
  BY <1>1, <1>3, <1>4 DEF d

LEMMA EnactArranges ==
    ASSUME NEW c, IsChain(c), Coherent(c), NEW i \in RefIds, NEW id,
           c.outcomes[i] = <<>>, ~ OnAgenda(c, i)
    PROVE  Arranges(c, Enact(c, id, i), i)
<1> DEFINE b == Enact(c, id, i)
           o == Outcome(c.pre[id], id)
<1>1. /\ IsChain(b) /\ b.count = c.count /\ b.info = c.info /\ b.agenda = c.agenda
      /\ b.outcomes = [c.outcomes EXCEPT ![i] = Append(c.outcomes[i], o)]
  <2>1. Enacted(c, id, i, b)
    BY EnactWrites
  <2> HIDE DEF b
  <2> QED
    BY <2>1 DEF Enacted
<1>2. o \in Outcomes
  BY OutcomeKinds
<1> HIDE DEF b, o
<1>3. c.outcomes \in [RefIds -> Seq(Outcomes)] /\ Append(<<>>, o) = <<o>>
      /\ <<o>> \in Seq(Outcomes) /\ Len(<<o>>) <= 1
  BY <1>2 DEF Coherent
<1>4. /\ b.outcomes \in [RefIds -> Seq(Outcomes)] /\ b.outcomes[i] = <<o>>
      /\ \A j \in RefIds \ {i} : b.outcomes[j] = c.outcomes[j]
  BY <1>1, <1>3
<1>5. \A j : OnAgenda(b, j) <=> OnAgenda(c, j)
  BY <1>1 DEF OnAgenda
<1>6. Arranges(c, b, i)
  BY <1>1, <1>3, <1>4, <1>5 DEF Arranges, Coherent
<1> QED
  BY <1>6 DEF b

ScheduledAs(c, i, id, when, d) ==
    /\ IsChain(d) /\ d.count = c.count /\ d.info = c.info /\ d.outcomes = c.outcomes
    /\ d.deposits = c.deposits /\ d.ledger = c.ledger
    /\ d.pre = [c.pre EXCEPT ![id] = KeptUntil(c.pre[id], when)]
    /\ d.agenda = Append(c.agenda, [index |-> i, when |-> when, id |-> id])

LEMMA ScheduledWrites ==
    ASSUME NEW c, IsChain(c), NEW i, NEW id, NEW when
    PROVE  ScheduledAs(c, i, id, when, Scheduled(c, i, id, when))
<1> DEFINE d == Scheduled(c, i, id, when)
           p == [c.pre EXCEPT ![id] = KeptUntil(c.pre[id], when)]
           a == Append(c.agenda, [index |-> i, when |-> when, id |-> id])
<1>1. IsScheduled(c, p, a, d)
  BY DEF Scheduled, IsScheduled
<1> HIDE DEF p, a, d
<1>2. /\ IsChain(d) /\ d.count = c.count /\ d.info = c.info /\ d.outcomes = c.outcomes
      /\ d.deposits = c.deposits /\ d.ledger = c.ledger /\ d.pre = p /\ d.agenda = a
  BY <1>1 DEF IsScheduled, IsChain
<1> QED
  BY <1>2 DEF p, a, d, ScheduledAs

LEMMA ScheduledArranges ==
    ASSUME NEW c, IsChain(c), Coherent(c), NEW i \in RefIds, NEW id \in ProposalIds,
           NEW when \in Nat, c.outcomes[i] = <<>>, ~ OnAgenda(c, i)
    PROVE  Arranges(c, Scheduled(c, i, id, when), i)
<1> DEFINE b == Scheduled(c, i, id, when)
           e == [index |-> i, when |-> when, id |-> id]
           s == c.agenda
           q == Append(s, e)
<1>1. /\ IsChain(b) /\ b.count = c.count /\ b.info = c.info /\ b.outcomes = c.outcomes
      /\ b.agenda = q
  <2>1. ScheduledAs(c, i, id, when, b)
    BY ScheduledWrites
  <2> HIDE DEF b
  <2> QED
    BY <2>1 DEF ScheduledAs
<1>2. e \in AgendaType /\ e.index = i
  BY DEF AgendaType
<1>3. s \in Seq(AgendaType) /\ Once(s)
  BY DEF Coherent
<1> HIDE DEF b, e, s
<1>4. /\ q \in Seq(AgendaType) /\ Len(s) \in Nat /\ DOMAIN q = 1..(Len(s) + 1)
      /\ DOMAIN s = 1..Len(s) /\ q[Len(s) + 1] = e
      /\ \A j \in DOMAIN s : q[j] = s[j]
  BY <1>2, <1>3
<1> HIDE DEF q
<1>5. /\ \A j \in DOMAIN q : j \in DOMAIN s \/ j = Len(s) + 1
      /\ \A j \in DOMAIN s : j \in DOMAIN q
      /\ Len(s) + 1 \in DOMAIN q
  BY <1>4
<1>6. \A j : OnAgenda(b, j) <=> OnAgenda(c, j) \/ j = i
  <2>1. \A j : OnAgenda(b, j) <=> \E k \in DOMAIN q : q[k].index = j
    BY <1>1 DEF OnAgenda
  <2>2. \A j : OnAgenda(c, j) <=> \E k \in DOMAIN s : s[k].index = j
    BY DEF OnAgenda, s
  <2> QED
    BY <1>2, <1>4, <1>5, <2>1, <2>2
<1>7. Once(q)
  <2>1. \A k \in DOMAIN s : s[k].index # i
    BY DEF OnAgenda, s
  <2> SUFFICES ASSUME NEW j \in DOMAIN q, NEW k \in DOMAIN q, q[j].index = q[k].index
               PROVE  j = k
    BY DEF Once
  <2>2. CASE j \in DOMAIN s /\ k \in DOMAIN s
    BY <1>3, <1>4, <2>2 DEF Once
  <2> QED
    BY <1>2, <1>4, <1>5, <2>1, <2>2
<1>8. Arranges(c, b, i)
  BY <1>1, <1>4, <1>6, <1>7 DEF Arranges, Coherent
<1> QED
  BY <1>8 DEF b

LEMMA BakeMakesMove ==
    ASSUME NEW c, ChainTypeOK(c), Coherent(c), NEW i \in RefIds, NEW n \in Nat,
           c.info[i].kind = "ongoing"
    PROVE  BakeMoves(c, Bake(c, i, n), i)
<1> DEFINE s == c.info[i]
           passed == Approved(s.threshold, s.tally, Electorate(s.id[2]))
           after == CASE ~ passed -> c
                      [] passed /\ s.delay = 0 -> Enact(c, s.id, i)
                      [] passed /\ s.delay # 0 -> Scheduled(c, i, s.id, n + s.delay)
           d == Bake(c, i, n)
<1>1. d = Decided(after, i, n, passed)
  BY DEF Bake
<1>2. passed \in BOOLEAN
  BY DEF Approved
<1> HIDE DEF passed
<1>3. IsChain(c) /\ c.info \in StatusesType /\ c.count \in 0..MaxReferenda
  BY DEF ChainTypeOK
<1>4. c.outcomes[i] = <<>> /\ ~ OnAgenda(c, i) /\ i < c.count
  BY DEF Coherent
<1>5. s.id \in ProposalIds /\ s.delay \in Nat
  <2>1. s \in StatusType /\ s.kind = "ongoing"
    BY <1>3 DEF StatusesType
  <2> HIDE DEF s
  <2> QED
    BY <2>1 DEF StatusType, NoInfo
<1> HIDE DEF s
<1>6. Arranges(c, after, i)
  <2>1. Arranges(c, c, i)
    BY <1>3, <1>4 DEF Arranges, Coherent
  <2>2. Arranges(c, Enact(c, s.id, i), i)
    BY <1>3, <1>4, EnactArranges
  <2>3. Arranges(c, Scheduled(c, i, s.id, n + s.delay), i)
    BY <1>3, <1>4, <1>5, ScheduledArranges
  <2>4. CASE ~ passed
    BY <2>1, <2>4
  <2>5. CASE passed /\ s.delay = 0
    BY <2>2, <2>5
  <2>6. CASE passed /\ s.delay # 0
    BY <2>3, <2>6
  <2> QED
    BY <1>2, <2>4, <2>5, <2>6
<1> HIDE DEF after, d
<1>7. /\ d.count = c.count /\ d.agenda = after.agenda /\ d.outcomes = after.outcomes
      /\ d.info[i].kind = "finished" /\ \A j \in RefIds \ {i} : d.info[j] = c.info[j]
  <2>1. IsChain(after) /\ after.info = c.info /\ DOMAIN after.info = RefIds /\ after.count = c.count
    BY <1>3, <1>6 DEF Arranges, StatusesType
  <2> QED
    BY <1>1, <2>1, DecidedWrites
<1>8. \A j \in RefIds : OnAgenda(d, j) <=> OnAgenda(after, j)
  BY <1>7 DEF OnAgenda
<1>9. Coherent(d)
  <2>1. ASSUME NEW j \in RefIds
        PROVE  /\ OnAgenda(d, j) \/ d.outcomes[j] # <<>> =>
                     j < d.count /\ d.info[j].kind # "ongoing"
               /\ OnAgenda(d, j) => d.outcomes[j] = <<>>
               /\ Len(d.outcomes[j]) <= 1
               /\ d.info[j].kind = "ongoing" => j < d.count
    <3>1. CASE j = i
      BY <1>4, <1>6, <1>7, <1>8, <3>1 DEF Arranges
    <3>2. CASE j # i
      BY <1>6, <1>7, <1>8, <3>2 DEF Arranges, Coherent
    <3> QED
      BY <3>1, <3>2
  <2> QED
    BY <1>6, <1>7, <2>1 DEF Arranges, Coherent
<1>10. \A j \in RefIds \ {i} : d.info[j] = c.info[j] /\ StageIn(d, j) = StageIn(c, j)
  BY <1>6, <1>7, <1>8, StagesAlike DEF Arranges
<1>11. ~ (i >= c.count) /\ <<"executed">> # <<>>
  BY <1>3, <1>4, CountedReferenda
<1>12. StageIn(c, i) = "open"
  BY <1>4, <1>11 DEF StageIn
<1>13. StageIn(d, i) \in {"closed", "executed", "queued"}
  BY <1>7, <1>11 DEF StageIn
<1>14. BakeMoves(c, d, i)
  BY <1>7, <1>9, <1>10, <1>12, <1>13 DEF BakeMoves
<1> QED
  BY <1>14 DEF d

(* Up to k, those that end have made their move.                           *)
BakedUpTo(c, d, ending, k) ==
    /\ ChainTypeOK(d) /\ Coherent(d)
    /\ d.count = c.count
    /\ \A j \in RefIds :
          IF j < k /\ j \in ending
          THEN StageIn(c, j) = "open" /\ StageIn(d, j) \in {"closed", "executed", "queued"}
          ELSE d.info[j] = c.info[j] /\ StageIn(d, j) = StageIn(c, j)

LEMMA BakeAllMoves ==
    ASSUME NEW c, ChainTypeOK(c), Coherent(c), NEW n \in Nat, NEW last \in 0..MaxReferenda,
           lowest_unbaked \in Nat
    PROVE  BakedUpTo(c, BakeAll(c, n, last), Maturing(c, n, last), last)
<1> DEFINE ending == Maturing(c, n, last)
           g == CHOOSE f : Bakes(f, c, ending, n, last)
           good == {k \in 0..last : BakedUpTo(c, g[k], ending, k)}
<1>1. BakeAll(c, n, last) = g[last]
  BY DEF BakeAll, Bakes
<1>2. MaxReferenda \in Nat /\ last \in Nat /\ last <= MaxReferenda
  BY DemocracyTypes
<1>3. ending \subseteq RefIds /\ \A j \in ending : c.info[j].kind = "ongoing"
  BY <1>2 DEF Maturing, RefIds
<1> HIDE DEF ending
<1>4. Bakes(g, c, ending, n, last)
  BY <1>2, BakesExists
<1> HIDE DEF g
<1>5. ASSUME NEW k \in 1..last, BakedUpTo(c, g[k - 1], ending, k - 1)
      PROVE  BakedUpTo(c, g[k], ending, k)
  <2> DEFINE b == g[k - 1]
             i == k - 1
             d == g[k]
  <2>1. d = IF i \in ending THEN Bake(b, i, n) ELSE b
    <3>1. k \in 0..last /\ k # 0
      BY <1>2
    <3> QED
      BY <1>4, <3>1 DEF Bakes
  <2>2. \A j \in RefIds : (j < k <=> j < i \/ j = i) /\ (j < i => j # i)
    BY DemocracyTypes, <1>2 DEF RefIds
  <2>3. BakedUpTo(c, b, ending, i)
    BY <1>5
  <2> SUFFICES BakedUpTo(c, d, ending, k)
    OBVIOUS
  <2> HIDE DEF b, i, d
  <2>4. CASE i \notin ending
    BY <2>1, <2>2, <2>3, <2>4 DEF BakedUpTo
  <2>5. CASE i \in ending
    <3>1. i \in RefIds /\ c.info[i].kind = "ongoing"
      BY <1>3, <2>5
    <3>2. ChainTypeOK(b) /\ Coherent(b) /\ b.info[i] = c.info[i] /\ StageIn(b, i) = StageIn(c, i)
      BY <2>2, <2>3, <3>1 DEF BakedUpTo
    <3>3. BakeMoves(b, d, i) /\ ChainTypeOK(d)
      BY <2>1, <2>5, <3>1, <3>2, BakeMakesMove, BakeCloses DEF Closes
    <3>4. ASSUME NEW j \in RefIds
          PROVE  IF j < k /\ j \in ending
                 THEN StageIn(c, j) = "open" /\ StageIn(d, j) \in {"closed", "executed", "queued"}
                 ELSE d.info[j] = c.info[j] /\ StageIn(d, j) = StageIn(c, j)
      <4>1. CASE j = i
        BY <2>2, <2>5, <3>2, <3>3, <4>1 DEF BakeMoves
      <4>2. CASE j # i
        BY <2>2, <2>3, <3>3, <4>2 DEF BakeMoves, BakedUpTo
      <4> QED
        BY <4>1, <4>2
    <3> QED
      BY <2>3, <3>3, <3>4 DEF BakeMoves, BakedUpTo
  <2> QED
    BY <2>4, <2>5
<1>6. BakedUpTo(c, g[0], ending, 0)
  <2>1. g[0] = c
    BY <1>2, <1>4 DEF Bakes
  <2>2. \A j \in RefIds : ~ (j < 0)
    BY DemocracyTypes DEF RefIds
  <2> QED
    BY <2>1, <2>2 DEF BakedUpTo
<1>7. \A k \in 0..last : k \in good
  <2>1. 0 \in good
    BY <1>2, <1>6
  <2>2. \A k \in 1..last : k - 1 \in good => k \in good
    <3> SUFFICES ASSUME NEW k \in 1..last, k - 1 \in good PROVE k \in good
      OBVIOUS
    <3> QED
      BY <1>2, <1>5
  <2> HIDE DEF good
  <2> QED
    BY <1>2, <2>1, <2>2, Upwards
<1>8. last \in good
  BY <1>2, <1>7
<1> QED
  BY <1>1, <1>8 DEF ending

-----------------------------------------------------------------------------
(* The steps of the pallet as steps of Referendum.                         *)

StagesInv == DemocracyInv /\ Coherent(ChainNow)

(* What a step has to show.                                                *)
StagesMove == Coherent(ChainNow)' /\ \A i \in RefIds : MayMove(ChainNow, ChainNow', i)

LEMMA BeginBlockMoves ==
    ASSUME StagesInv, BeginBlock
    PROVE  StagesMove
<1> USE DEF StagesInv, DemocracyInv
<1> DEFINE n == now + 1
           last == referendum_count
           c == ChainNow
           enacted == EnactDue(c, n)
           launched == IF n % LaunchPeriod = 0 THEN LaunchNext(enacted, n) ELSE enacted
           baked == BakeAll(launched, n, last)
           d == ChainNow'
<1>1. /\ d.count = baked.count /\ d.info = baked.info /\ d.agenda = baked.agenda
      /\ d.outcomes = baked.outcomes
  BY DEF BeginBlock, ChainNow
<1>2. n % LaunchPeriod = 0 /\ last = MaxReferenda => next_external = <<>> /\ public_props = <<>>
  BY DEF BeginBlock
<1>3. ChainTypeOK(c) /\ c.count = last /\ c.external = next_external
      /\ c.props = public_props /\ IsChain(c)
  BY DEF ChainTypeOK, ChainNow, IsChain, QueuesTyped, LocksTyped, CountsTyped
<1>4. n \in Nat /\ last \in 0..MaxReferenda /\ lowest_unbaked \in Nat /\ last \in Nat
  BY DemocracyTypes DEF CountsTyped
<1>5. OnlyPays(c, enacted) /\ ChainTypeOK(enacted)
  BY <1>3, EnactDuePays, OnlyPaysKeepsType DEF ChainTypeOK
<1>6. EnactMoves(c, enacted)
  BY <1>3, <1>4, EnactDueMoves
<1> HIDE DEF enacted, n, c
<1>7. Launches(enacted, launched)
      /\ launched.agenda = enacted.agenda /\ launched.outcomes = enacted.outcomes
  <2>1. CASE n % LaunchPeriod = 0
    <3>1. enacted.count = MaxReferenda => enacted.external = <<>> /\ enacted.props = <<>>
      BY <1>2, <1>3, <1>5, <2>1 DEF OnlyPays
    <3>2. IsChain(enacted)
      BY <1>5 DEF ChainTypeOK
    <3> QED
      BY <1>4, <1>5, <2>1, <3>1, <3>2, LaunchNextOpens, LaunchLeaves
  <2>2. CASE n % LaunchPeriod # 0
    BY <1>5, <2>2 DEF Launches, SameLocks, ChainTypeOK
  <2> QED
    BY <2>1, <2>2
<1> HIDE DEF launched
<1>8. enacted.count = last /\ Coherent(enacted) /\ enacted.info \in StatusesType
  BY <1>3, <1>5, <1>6 DEF EnactMoves, ChainTypeOK
<1> HIDE DEF last
<1>9. /\ Coherent(launched)
      /\ \/ \A i \in RefIds : StageIn(launched, i) = StageIn(enacted, i)
         \/ /\ \A i \in RefIds : i # last => StageIn(launched, i) = StageIn(enacted, i)
            /\ StageIn(enacted, last) = "unopened" /\ StageIn(launched, last) = "open"
      /\ \A i \in RefIds : i # last => launched.info[i] = enacted.info[i]
  <2>1. CASE Opens(enacted, launched)
    <3>1. PICK s \in StatusType : s.kind = "ongoing"
                /\ launched.info = [enacted.info EXCEPT ![enacted.count] = s]
      BY <2>1 DEF Opens
    <3>2. launched.count = last + 1 /\ last \in RefIds
      BY <1>8, <2>1 DEF Opens
    <3>3. launched.info[last].kind = "ongoing"
          /\ \A i \in RefIds : i # last => launched.info[i] = enacted.info[i]
      BY <1>8, <3>1, <3>2 DEF StatusesType
    <3> QED
      BY <1>4, <1>7, <1>8, <3>2, <3>3, OpensMove
  <2>2. CASE launched.count = enacted.count /\ launched.info = enacted.info
    <3>1. \A i : OnAgenda(launched, i) <=> OnAgenda(enacted, i)
      BY <1>7 DEF OnAgenda
    <3>2. Coherent(launched)
      BY <1>7, <1>8, <2>2, <3>1 DEF Coherent
    <3>3. \A i \in RefIds : StageIn(launched, i) = StageIn(enacted, i)
      BY <1>7, <2>2, <3>1, StagesAlike
    <3> QED
      BY <2>2, <3>2, <3>3
  <2> QED
    BY <1>7, <2>1, <2>2 DEF Launches
<1>10. BakedUpTo(launched, baked, Maturing(launched, n, last), last)
  BY <1>4, <1>7, <1>9, BakeAllMoves DEF Launches
<1>11. \A i \in Maturing(launched, n, last) : i # last /\ launched.info[i].kind = "ongoing"
  BY <1>4 DEF Maturing
<1> HIDE DEF baked, d
<1>12. Coherent(d) /\ \A i \in RefIds : StageIn(d, i) = StageIn(baked, i)
  <2>1. \A i : OnAgenda(d, i) <=> OnAgenda(baked, i)
    BY <1>1 DEF OnAgenda
  <2>2. Coherent(baked)
    BY <1>10 DEF BakedUpTo
  <2>3. Coherent(d)
    BY <1>1, <2>1, <2>2 DEF Coherent
  <2>4. \A i \in RefIds : StageIn(d, i) = StageIn(baked, i)
    BY <1>1, <2>1, StagesAlike
  <2> QED
    BY <2>3, <2>4
<1>13. ASSUME NEW i \in RefIds PROVE MayMove(c, d, i)
  <2> DEFINE ended == i < last /\ i \in Maturing(launched, n, last)
  <2>1. CASE ended
    <3>1. enacted.info[i].kind = "ongoing" /\ i # last
      BY <1>9, <1>11, <2>1
    <3>2. StageIn(enacted, i) = StageIn(c, i) /\ StageIn(launched, i) = StageIn(enacted, i)
      BY <1>6, <1>9, <3>1 DEF EnactMoves
    <3>3. StageIn(launched, i) = "open" /\ StageIn(baked, i) \in {"closed", "executed", "queued"}
      BY <1>10, <2>1 DEF BakedUpTo
    <3> QED
      BY <1>12, <3>2, <3>3 DEF MayMove, Abstract!Moves
  <2>2. CASE ~ ended
    <3>1. StageIn(baked, i) = StageIn(launched, i)
      BY <1>10, <2>2 DEF BakedUpTo
    <3>2. CASE StageIn(launched, i) = StageIn(enacted, i)
      BY <1>6, <1>12, <3>1, <3>2 DEF EnactMoves, MayMove
    <3>3. CASE i = last /\ StageIn(enacted, last) = "unopened" /\ StageIn(launched, last) = "open"
      <4>1. i >= c.count
        BY <1>3, <1>4, <3>3
      <4>2. StageIn(c, i) = "unopened"
        BY <1>6, <3>3, <4>1 DEF EnactMoves
      <4> QED
        BY <1>12, <3>1, <3>3, <4>2 DEF MayMove, Abstract!Moves
    <3> QED
      BY <1>9, <3>2, <3>3
  <2> QED
    BY <2>1, <2>2
<1> QED
  BY <1>12, <1>13 DEF StagesMove, c, d

(* Calls that write neither the scheduler nor the count, and end votes at  *)
(* most.                                                                   *)
LEMMA CallsMove ==
    ASSUME StagesInv, UNCHANGED <<referendum_count, agenda, enactments>>,
           \A i \in RefIds : Ongoing(i)' => Ongoing(i)
    PROVE  StagesMove
<1> DEFINE c == ChainNow
           d == ChainNow'
<1>1. /\ d.count = c.count /\ d.outcomes = c.outcomes /\ d.agenda = c.agenda
      /\ c.info = referendum_info /\ d.info = referendum_info'
  BY DEF ChainNow
<1>2. \A i \in RefIds : d.info[i].kind = "ongoing" => c.info[i].kind = "ongoing"
  BY <1>1 DEF Ongoing
<1>3. Coherent(c) /\ c.count \in 0..MaxReferenda
  BY DEF StagesInv, DemocracyInv, CountsTyped, ChainNow
<1> HIDE DEF c, d
<1>4. Coherent(d) /\ \A i \in RefIds : MayMove(c, d, i)
  BY <1>1, <1>2, <1>3, EndsMove
<1> QED
  BY <1>4 DEF StagesMove, c, d

LEMMA FastTrackMoves ==
    ASSUME StagesInv, NEW id, NEW period, NEW delay, FastTrack(id, period, delay)
    PROVE  StagesMove
<1> DEFINE c == ChainNow
           d == ChainNow'
           s == OngoingStatus(now + period, id, next_external[1].threshold, delay)
<1>1. /\ d.count = c.count + 1 /\ d.outcomes = c.outcomes /\ d.agenda = c.agenda
      /\ d.info = [c.info EXCEPT ![c.count] = s]
  BY DEF ChainNow, FastTrack, enactVars
<1>2. s.kind = "ongoing"
  BY DEF OngoingStatus
<1>3. Coherent(c) /\ c.count \in 0..MaxReferenda /\ c.info \in StatusesType
  BY DEF StagesInv, DemocracyInv, CountsTyped, ChainNow
<1>4. c.count \in RefIds
  <2>1. c.count = referendum_count /\ referendum_count < MaxReferenda
    BY DEF ChainNow, FastTrack
  <2> HIDE DEF c
  <2> QED
    BY <1>3, <2>1, DemocracyTypes DEF RefIds
<1> HIDE DEF c, d, s
<1>5. d.info[c.count].kind = "ongoing" /\ \A i \in RefIds : i # c.count => d.info[i] = c.info[i]
  BY <1>1, <1>2, <1>3, <1>4 DEF StatusesType
<1>6. /\ Coherent(d)
      /\ \A i \in RefIds : i # c.count => StageIn(d, i) = StageIn(c, i)
      /\ StageIn(c, c.count) = "unopened" /\ StageIn(d, c.count) = "open"
  BY <1>1, <1>3, <1>4, <1>5, OpensMove
<1> QED
  BY <1>6 DEF StagesMove, MayMove, Abstract!Moves, c, d

LEMMA CancelQueuedMoves ==
    ASSUME StagesInv, NEW i, CancelQueued(i)
    PROVE  StagesMove
<1> DEFINE c == ChainNow
           d == ChainNow'
           keep == {k \in DOMAIN agenda : agenda[k].index # i}
           r == Retain(agenda, keep)
<1>1. /\ d.count = c.count /\ d.outcomes = c.outcomes /\ d.info = c.info
      /\ d.agenda = r /\ c.agenda = agenda
  BY DEF ChainNow, CancelQueued, votingVars, countVars
<1>2. Coherent(c) /\ c.count \in 0..MaxReferenda
  BY DEF StagesInv, DemocracyInv, CountsTyped, ChainNow
<1>3. agenda \in Seq(AgendaType) /\ Once(agenda)
  BY <1>1, <1>2 DEF Coherent
<1>4. /\ r \in Seq(AgendaType) /\ Once(r)
      /\ \A j \in DOMAIN r : \E k \in DOMAIN agenda \cap keep : r[j] = agenda[k]
      /\ \A k \in DOMAIN agenda \cap keep : \E j \in DOMAIN r : r[j] = agenda[k]
  <2> HIDE DEF keep
  <2>1. r \in Seq(AgendaType) /\ PickedFrom(r, agenda, keep, Len(agenda))
    BY <1>3, RetainPicks
  <2>2. \A k \in DOMAIN agenda : k <= Len(agenda)
    BY <1>3
  <2> QED
    BY <1>3, <2>1, <2>2 DEF PickedFrom
<1>5. \A k \in DOMAIN agenda : k \in keep <=> agenda[k].index # i
  OBVIOUS
<1> HIDE DEF c, d, keep, r
<1>6. \A j : OnAgenda(d, j) <=> OnAgenda(c, j) /\ j # i
  <2>1. \A j : OnAgenda(d, j) <=> \E k \in DOMAIN r : r[k].index = j
    BY <1>1 DEF OnAgenda
  <2>2. \A j : OnAgenda(c, j) <=> \E k \in DOMAIN agenda : agenda[k].index = j
    BY <1>1 DEF OnAgenda
  <2> QED
    BY <1>4, <1>5, <2>1, <2>2
<1>7. Coherent(d)
  BY <1>1, <1>2, <1>4, <1>6 DEF Coherent
<1>8. ASSUME NEW j \in RefIds PROVE MayMove(c, d, j)
  <2>1. CASE OnAgenda(d, j) <=> OnAgenda(c, j)
    BY <1>1, <2>1, StagesAlike DEF MayMove
  <2>2. CASE OnAgenda(c, j) /\ ~ OnAgenda(d, j)
    <3>1. c.outcomes[j] = <<>> /\ j < c.count /\ c.info[j].kind # "ongoing"
      BY <1>2, <2>2 DEF Coherent
    <3>2. ~ (j >= c.count) /\ <<"executed">> # <<>>
      BY <1>2, <3>1, CountedReferenda
    <3>3. StageIn(c, j) = "queued" /\ StageIn(d, j) = "closed"
      BY <1>1, <2>2, <3>1, <3>2 DEF StageIn
    <3> QED
      BY <3>3 DEF MayMove, Abstract!Moves
  <2> QED
    BY <1>6, <2>1, <2>2
<1> QED
  BY <1>7, <1>8 DEF StagesMove, c, d

(* Votes and delegations write tallies and nothing else of a referendum.   *)
Kinded(info) == \A j \in RefIds : "kind" \in DOMAIN info[j]
SameKinds(info, new) == Kinded(new) /\ \A j \in RefIds : new[j].kind = info[j].kind

LEMMA StatusKinded ==
    ASSUME DemocracyInv
    PROVE  Kinded(referendum_info)
<1> SUFFICES ASSUME NEW j \in RefIds PROVE "kind" \in DOMAIN referendum_info[j]
  BY DEF Kinded
<1>1. referendum_info[j] \in StatusType
  BY DEF DemocracyInv, StatusesType
<1> QED
  BY <1>1 DEF StatusType, NoInfo

LEMMA TallyLeavesKind ==
    ASSUME NEW s, "kind" \in DOMAIN s, NEW t
    PROVE  [s EXCEPT !.tally = t].kind = s.kind /\ "kind" \in DOMAIN [s EXCEPT !.tally = t]
OBVIOUS

LEMMA BookKinds ==
    ASSUME NEW B, Kinded(B.info), NEW to, NEW a, NEW g
    PROVE  /\ SameKinds(B.info, Increased(B, to, a, g).info)
           /\ SameKinds(B.info, Reduced(B, to, a, g).info)
<1> DEFINE info == B.info
           more == Increased(B, to, a, g).info
           less == Reduced(B, to, a, g).info
<1>1. ASSUME NEW j \in RefIds
      PROVE  /\ \/ more[j] = info[j]
                \/ more[j] = [info[j] EXCEPT !.tally =
                                 TallyPlus(info[j].tally, Behind(B, to, a, j, g))]
             /\ \/ less[j] = info[j]
                \/ less[j] = [info[j] EXCEPT !.tally =
                                 TallyMinus(info[j].tally, Behind(B, to, a, j, g))]
  BY DEF Increased, Reduced
<1> HIDE DEF info, more, less
<1>2. Kinded(info)
  BY DEF info
<1>3. ASSUME NEW j \in RefIds
      PROVE  /\ more[j].kind = info[j].kind /\ "kind" \in DOMAIN more[j]
             /\ less[j].kind = info[j].kind /\ "kind" \in DOMAIN less[j]
  BY <1>1, <1>2, TallyLeavesKind DEF Kinded
<1> QED
  BY <1>3 DEF SameKinds, Kinded, info, more, less

LEMMA KindsMove ==
    ASSUME StagesInv, SameKinds(referendum_info, referendum_info'),
           UNCHANGED <<referendum_count, agenda, enactments>>
    PROVE  StagesMove
BY CallsMove DEF SameKinds, Ongoing

LEMMA VotingMoves ==
    ASSUME StagesInv, VotingNext
    PROVE  StagesMove
<1> USE DEF StagesInv
<1>1. Kinded(referendum_info) /\ referendum_info \in StatusesType
  BY StatusKinded DEF DemocracyInv
<1>2. SameKinds(referendum_info, referendum_info)
  BY <1>1 DEF SameKinds
<1>3. ASSUME NEW i \in RefIds, NEW t, referendum_info' = [referendum_info EXCEPT ![i].tally = t]
      PROVE  SameKinds(referendum_info, referendum_info')
  <2>1. ASSUME NEW j \in RefIds
        PROVE  \/ referendum_info'[j] = referendum_info[j]
               \/ referendum_info'[j] = [referendum_info[j] EXCEPT !.tally = t]
    BY <1>1, <1>3 DEF StatusesType
  <2> QED
    BY <1>1, <2>1, TallyLeavesKind DEF SameKinds, Kinded
<1>4. ASSUME NEW u, NEW i \in RefIds, NEW v, Vote(u, i, v) PROVE StagesMove
  <2>1. UNCHANGED <<referendum_count, agenda, enactments>>
    BY <1>4 DEF Vote, countVars, enactVars
  <2>2. \E t : referendum_info' = [referendum_info EXCEPT ![i].tally = t]
    BY <1>4 DEF Vote
  <2> QED
    BY <1>3, <2>1, <2>2, KindsMove
<1>5. ASSUME NEW u, NEW a, NEW i \in RefIds, NEW byOther, RemoveVote(u, a, i, byOther)
      PROVE  StagesMove
  <2>1. UNCHANGED <<referendum_count, agenda, enactments>>
    BY <1>5 DEF RemoveVote, countVars, enactVars
  <2>2. \/ referendum_info' = referendum_info
        \/ \E t : referendum_info' = [referendum_info EXCEPT ![i].tally = t]
    BY <1>5 DEF RemoveVote
  <2> QED
    BY <1>2, <1>3, <2>1, <2>2, KindsMove
<1>6. Kinded(VotingBook.info) /\ VotingBook.info = referendum_info
  BY <1>1 DEF VotingBook
<1>7. ASSUME NEW u, NEW to, NEW a, NEW conviction, NEW n, Delegate(u, to, a, conviction, n)
      PROVE  StagesMove
  <2> DEFINE old == voting_of[u][a]
             left == IF old.kind = "delegating"
                     THEN Reduced(VotingBook, old.target, a, Power(old.conviction, old.balance))
                     ELSE VotingBook
             after == Increased(left, to, a, Power(conviction, n))
  <2>1. UNCHANGED <<referendum_count, agenda, enactments>> /\ referendum_info' = after.info
    BY <1>7 DEF Delegate, countVars, enactVars
  <2>2. SameKinds(referendum_info, left.info)
    BY <1>2, <1>6, BookKinds
  <2> HIDE DEF left
  <2>3. SameKinds(left.info, after.info)
    BY <2>2, BookKinds DEF SameKinds
  <2> HIDE DEF after
  <2> QED
    BY <2>1, <2>2, <2>3, KindsMove DEF SameKinds
<1>8. ASSUME NEW u, NEW a, Undelegate(u, a) PROVE StagesMove
  <2> DEFINE old == voting_of[u][a]
             left == Reduced(VotingBook, old.target, a, Power(old.conviction, old.balance))
  <2>1. UNCHANGED <<referendum_count, agenda, enactments>> /\ referendum_info' = left.info
    BY <1>8 DEF Undelegate, countVars, enactVars
  <2>2. SameKinds(referendum_info, left.info)
    BY <1>6, BookKinds
  <2> QED
    BY <2>1, <2>2, KindsMove
<1>9. ASSUME NEW u, NEW a, Unlock(u, a) PROVE StagesMove
  BY <1>2, <1>9, KindsMove DEF Unlock, countVars, enactVars
<1> QED
  BY <1>4, <1>5, <1>7, <1>8, <1>9 DEF VotingNext

LEMMA QueueMoves ==
    ASSUME StagesInv, QueueNext(Voters)
    PROVE  StagesMove
<1> USE DEF StagesInv
<1>1. UNCHANGED <<referendum_count, referendum_info, agenda, enactments>> => StagesMove
  BY CallsMove DEF Ongoing
<1>2. NoInfo.kind # "ongoing" /\ referendum_info \in StatusesType
  BY DEF NoInfo, DemocracyInv
<1>3. ASSUME NEW i, UNCHANGED <<referendum_count, agenda, enactments>>,
             referendum_info' = [referendum_info EXCEPT ![i] = NoInfo]
      PROVE  StagesMove
  <2>1. \A j \in RefIds : Ongoing(j)' => Ongoing(j)
    BY <1>2, <1>3 DEF Ongoing, StatusesType
  <2> QED
    BY <1>3, <2>1, CallsMove
<1>4. ASSUME NEW u, NEW id, NEW p, NEW t,
             \/ Propose(u, id, MinimumDeposit_) \/ Second(u, p, MaxPublicProps)
             \/ ClearPublicProposals \/ CancelProposal(p) \/ ExternalPropose(id)
             \/ ExternalProposeReplacing(id, t) \/ VetoExternal(u, id)
      PROVE  StagesMove
  <2>1. UNCHANGED queueFrame
    BY <1>4 DEF Propose, Second, ClearPublicProposals, CancelProposal, ExternalPropose,
       ExternalProposeReplacing, VetoExternal
  <2> QED
    BY <1>1, <2>1 DEF queueFrame, votingVars, countVars, enactVars
<1>5. ASSUME NEW i, CancelReferendum(i) \/ EmergencyCancel(i) PROVE StagesMove
  BY <1>3, <1>5 DEF CancelReferendum, EmergencyCancel, countVars, enactVars
<1>6. ASSUME NEW id, NEW refs, BlacklistProposal(id, refs) PROVE StagesMove
  <2>1. UNCHANGED <<referendum_count, agenda, enactments>>
    BY <1>6 DEF BlacklistProposal, countVars, enactVars
  <2>2. \A j \in RefIds : referendum_info'[j] = NoInfo \/ referendum_info'[j] = referendum_info[j]
    BY <1>6 DEF BlacklistProposal
  <2>3. \A j \in RefIds : Ongoing(j)' => Ongoing(j)
    BY <1>2, <2>2 DEF Ongoing
  <2> QED
    BY <2>1, <2>3, CallsMove
<1> QED
  BY <1>4, <1>5, <1>6, FastTrackMoves DEF QueueNext

LEMMA EnactCallsMove ==
    ASSUME StagesInv, EnactNext(Voters)
    PROVE  StagesMove
<1>1. ASSUME NEW u, NEW id,
             NotePreimage(u, id) \/ NoteImminentPreimage(u, id) \/ ReapPreimage(u, id)
      PROVE  StagesMove
  <2>1. UNCHANGED preimageFrame
    BY <1>1 DEF NotePreimage, NoteImminentPreimage, ReapPreimage
  <2> QED
    BY <2>1, CallsMove DEF preimageFrame, votingVars, countVars, Ongoing
<1> QED
  BY <1>1, CancelQueuedMoves DEF EnactNext

LEMMA EveryStepMoves ==
    ASSUME StagesInv, [DemocracyNext]_<<now, ledger, democracyVars, origins_by_asset_id>>
    PROVE  StagesMove
<1>1. CASE RegistryNext \/ UNCHANGED <<now, ledger, democracyVars, origins_by_asset_id>>
  <2>1. UNCHANGED democracyVars
    BY <1>1 DEF RegistryNext
  <2> QED
    BY <2>1, CallsMove DEF democracyVars, votingVars, countVars, enactVars, Ongoing
<1> QED
  BY <1>1, VotingMoves, QueueMoves, EnactCallsMove, BeginBlockMoves DEF DemocracyNext

LEMMA StagesStart ==
    ASSUME ChainInit, RegistryInit, DemocracyInit
    PROVE  StagesInv
<1>1. DemocracyInv
  BY DemocracyStarts
<1>2. /\ ChainNow.agenda = <<>> /\ ChainNow.outcomes = [i \in RefIds |-> <<>>]
      /\ ChainNow.info = [i \in RefIds |-> NoInfo]
  BY DEF ChainNow, DemocracyInit
<1>3. Once(<<>>) /\ <<>> \in Seq(AgendaType) /\ <<>> \in Seq(Outcomes) /\ DOMAIN <<>> = {}
  BY DEF Once
<1>4. \A i \in RefIds : ~ OnAgenda(ChainNow, i)
  BY <1>2, <1>3 DEF OnAgenda
<1>5. NoInfo.kind # "ongoing" /\ Len(<<>>) <= 1
  BY DEF NoInfo
<1>6. Coherent(ChainNow)
  BY <1>2, <1>3, <1>4, <1>5 DEF Coherent
<1> QED
  BY <1>1, <1>6 DEF StagesInv

LEMMA StagesSteps ==
    ASSUME StagesInv, [DemocracyNext]_<<now, ledger, democracyVars, origins_by_asset_id>>
    PROVE  StagesInv' /\ StagesMove
<1>1. DemocracyInv'
  BY DemocracySteps DEF StagesInv
<1>2. StagesMove
  BY EveryStepMoves
<1> QED
  BY <1>1, <1>2 DEF StagesInv, StagesMove

LEMMA StagesRead == StagesInv => \A i \in RefIds : StageOf(i) = StageIn(ChainNow, i)
BY StageOfIsStageIn DEF StagesInv, DemocracyInv, CountsTyped

LEMMA StagesMapped ==
    ASSUME StagesInv, StagesInv', StagesMove
    PROVE  [Abstract!ReferendumNext]_[i \in RefIds |-> StageOf(i)]
<1> DEFINE c == ChainNow
           d == ChainNow'
           stage == [i \in RefIds |-> StageOf(i)]
<1>1. c.count \in 0..MaxReferenda /\ d.count \in 0..MaxReferenda
  BY DEF StagesInv, DemocracyInv, CountsTyped, ChainNow
<1>2. \A i \in RefIds : StageOf(i) = StageIn(c, i) /\ StageOf(i)' = StageIn(d, i)
  <2>1. \A i \in RefIds : StageOf(i) = StageIn(c, i)
    BY StagesRead
  <2>2. (\A i \in RefIds : StageOf(i) = StageIn(ChainNow, i))'
    BY StagesRead, PTL
  <2> QED
    BY <2>1, <2>2
<1>3. \A i \in RefIds : MayMove(c, d, i)
  BY DEF StagesMove
<1> HIDE DEF c, d
<1>4. stage' \in [RefIds -> Abstract!Stages]
  <2>1. \A i \in RefIds : StageIn(d, i) \in Abstract!Stages
    BY <1>1, StageFacts
  <2> QED
    BY <1>2, <2>1
<1>5. \A r \in RefIds : stage'[r] = stage[r] \/ <<stage[r], stage'[r]>> \in Abstract!Moves
  BY <1>2, <1>3 DEF MayMove
<1>6. ASSUME NEW r \in RefIds, NEW q \in RefIds, q < r, stage'[r] # "unopened"
      PROVE  stage'[q] # "unopened"
  <2>1. ~ (r >= d.count)
    BY <1>1, <1>2, <1>6, StageFacts
  <2>2. ~ (q >= d.count)
    BY <1>1, <1>6, <2>1 DEF RefIds
  <2> QED
    BY <1>1, <1>2, <2>2, StageFacts
<1> QED
  BY <1>4, <1>5, <1>6 DEF Abstract!ReferendumNext

(* Every referendum of the pallet, with its scheduler, its queues and its  *)
(* cancellations, goes through the stages of Referendum: it is opened in   *)
(* the order of the indices, leaves the vote once, and do_enact_proposal   *)
(* executes it at most once, from the vote or from the agenda.             *)
THEOREM DemocracyImplementsReferendum == DemocracySpec => RefinesReferendum
<1>1. ChainInit /\ RegistryInit /\ DemocracyInit => StagesInv /\ Abstract!ReferendumInit
  <2> SUFFICES ASSUME ChainInit, RegistryInit, DemocracyInit
               PROVE  StagesInv /\ Abstract!ReferendumInit
    OBVIOUS
  <2>1. StagesInv
    BY StagesStart
  <2>2. referendum_count = 0
    BY DEF DemocracyInit
  <2>3. \A i \in RefIds : i >= referendum_count
    BY <2>2, DemocracyTypes DEF RefIds
  <2>4. ChainNow.count = referendum_count
    BY DEF ChainNow
  <2>5. \A i \in RefIds : StageOf(i) = "unopened"
    BY <2>1, <2>3, <2>4, StagesRead DEF StageIn
  <2> QED
    BY <2>1, <2>5 DEF Abstract!ReferendumInit
<1>2. StagesInv /\ [DemocracyNext]_<<now, ledger, democracyVars, origins_by_asset_id>>
         => StagesInv' /\ [Abstract!ReferendumNext]_[i \in RefIds |-> StageOf(i)]
  BY StagesSteps, StagesMapped
<1> QED
  BY <1>1, <1>2, PTL DEF DemocracySpec, RefinesReferendum, Abstract!ReferendumSpec

-----------------------------------------------------------------------------
(* compare_rationals: continued fractions in place of products.            *)

Pos == Nat \ {0}

Divides(n, d, q, r) == q \in Nat /\ r \in Nat /\ r < d /\ n = d * q + r

LEMMA Remainders ==
    ASSUME NEW n \in Nat, NEW d \in Pos
    PROVE  Divides(n, d, n \div d, n % d)
<1> DEFINE q == n \div d   r == n % d
<1>1. q \in Nat /\ r \in Nat /\ r < d
  BY DEF Pos
<1>2. r = n - d * q
  BY DEF Pos
<1> HIDE DEF q, r
<1>3. Divides(n, d, q, r)
  BY <1>1, <1>2 DEF Pos, Divides
<1> QED
  BY <1>3 DEF q, r

LEMMA Products ==
    ASSUME NEW d \in Nat, NEW e \in Nat
    PROVE  d * e \in Nat /\ d * e = e * d /\ (d # 0 /\ e # 0 => d * e # 0)
OBVIOUS

(* q1 + r1/d1 < q2 + r2/d2, without the fractions.                         *)
LEMMA Fractions ==
    ASSUME NEW q1 \in Nat, NEW q2 \in Nat, NEW d1 \in Pos, NEW d2 \in Pos,
           NEW r1 \in Nat, NEW r2 \in Nat, r1 < d1, r2 < d2
    PROVE  (d1 * q1 + r1) * d2 < (d2 * q2 + r2) * d1
              <=> q1 < q2 \/ (q1 = q2 /\ r1 * d2 < r2 * d1)
<1> DEFINE p == d1 * d2
           a == r1 * d2
           b == r2 * d1
<1>0. d1 \in Nat /\ d2 \in Nat
  BY DEF Pos
<1>1. (d1 * q1 + r1) * d2 = p * q1 + a /\ (d2 * q2 + r2) * d1 = p * q2 + b
  BY <1>0
<1>2. p \in Nat /\ a \in Nat /\ b \in Nat
  BY <1>0
<1>3. a < p
  <2>1. d1 - r1 \in Nat /\ d1 - r1 # 0 /\ d2 # 0
    BY <1>0 DEF Pos
  <2>2. (d1 - r1) * d2 # 0 /\ (d1 - r1) * d2 \in Nat
    BY <1>0, <2>1, Products
  <2>3. (d1 - r1) * d2 = p - a
    BY <1>0
  <2> HIDE DEF p, a
  <2> QED
    BY <1>2, <2>2, <2>3
<1>4. b < p
  <2>1. d2 - r2 \in Nat /\ d2 - r2 # 0 /\ d1 # 0
    BY <1>0 DEF Pos
  <2>2. (d2 - r2) * d1 # 0 /\ (d2 - r2) * d1 \in Nat
    BY <1>0, <2>1, Products
  <2>3. (d2 - r2) * d1 = p - b
    BY <1>0
  <2> HIDE DEF p, b
  <2> QED
    BY <1>2, <2>2, <2>3
<1> HIDE DEF p, a, b
<1>5. CASE q1 < q2
  <2>1. q1 + 1 <= q2 /\ q1 + 1 \in Nat
    BY <1>5
  <2>2. p * (q1 + 1) <= p * q2 /\ p * (q1 + 1) = p * q1 + p /\ p * q1 \in Nat /\ p * q2 \in Nat
    BY <1>2, <2>1, TimesMonotone
  <2>3. p * q1 + a < p * q2 + b
    BY <1>2, <1>3, <2>2
  <2> QED
    BY <1>1, <1>5, <2>3
<1>6. CASE q2 < q1
  <2>1. q2 + 1 <= q1 /\ q2 + 1 \in Nat
    BY <1>6
  <2>2. p * (q2 + 1) <= p * q1 /\ p * (q2 + 1) = p * q2 + p /\ p * q1 \in Nat /\ p * q2 \in Nat
    BY <1>2, <2>1, TimesMonotone
  <2>3. ~ (p * q1 + a < p * q2 + b)
    BY <1>2, <1>4, <2>2
  <2> QED
    BY <1>1, <1>6, <2>3
<1>7. CASE q1 = q2
  <2>1. p * q1 \in Nat
    BY <1>2
  <2>2. p * q1 + a < p * q2 + b <=> a < b
    BY <1>2, <1>7, <2>1
  <2> QED
    BY <1>1, <1>7, <2>2 DEF a, b
<1> QED
  BY <1>5, <1>6, <1>7

(* What a round of the loop leaves to do.                                  *)
Round(f, n1, d1, n2, d2) ==
    LET q1 == n1 \div d1   q2 == n2 \div d2
        r1 == n1 % d1      r2 == n2 % d2
    IN CASE q1 < q2 -> TRUE
         [] q2 < q1 -> FALSE
         [] q1 = q2 /\ r2 = 0 -> FALSE
         [] q1 = q2 /\ r2 # 0 /\ r1 = 0 -> TRUE
         [] OTHER -> f[<<d2, r2, d1, r1>>]

Ratios == Nat \X Pos \X Nat \X Pos
Compares(f) ==
    f = [args \in Ratios |-> Round(f, args[1], args[2], args[3], args[4])]

LEMMA RoundRight ==
    ASSUME NEW f, NEW n1 \in Nat, NEW d1 \in Pos, NEW n2 \in Nat, NEW d2 \in Pos,
           n1 % d1 # 0 /\ n2 % d2 # 0 =>
              f[<<d2, n2 % d2, d1, n1 % d1>>] = (d2 * (n1 % d1) < d1 * (n2 % d2))
    PROVE  Round(f, n1, d1, n2, d2) = (n1 * d2 < n2 * d1)
<1> DEFINE q1 == n1 \div d1   q2 == n2 \div d2
           r1 == n1 % d1      r2 == n2 % d2
           lt == r1 * d2 < r2 * d1
           next == f[<<d2, r2, d1, r1>>]
<1>1. /\ q1 \in Nat /\ r1 \in Nat /\ r1 < d1 /\ n1 = d1 * q1 + r1
      /\ q2 \in Nat /\ r2 \in Nat /\ r2 < d2 /\ n2 = d2 * q2 + r2
  <2>1. Divides(n1, d1, q1, r1) /\ Divides(n2, d2, q2, r2)
    BY Remainders
  <2> HIDE DEF q1, q2, r1, r2
  <2> QED
    BY <2>1 DEF Divides
<1>2. r1 # 0 /\ r2 # 0 => next = (d2 * r1 < d1 * r2)
  OBVIOUS
<1>3. Round(f, n1, d1, n2, d2) =
        CASE q1 < q2 -> TRUE
         [] q2 < q1 -> FALSE
         [] q1 = q2 /\ r2 = 0 -> FALSE
         [] q1 = q2 /\ r2 # 0 /\ r1 = 0 -> TRUE
         [] OTHER -> next
  BY DEF Round
<1> HIDE DEF q1, q2, r1, r2, next
<1>4. (n1 * d2 < n2 * d1) = (q1 < q2 \/ (q1 = q2 /\ lt))
  BY <1>1, Fractions
<1>5. d1 \in Nat /\ d2 \in Nat /\ d1 # 0 /\ d2 # 0
  BY DEF Pos
<1>6. r2 = 0 => ~ lt
  <2>1. r1 * d2 \in Nat /\ (r2 = 0 => r2 * d1 = 0)
    BY <1>1, <1>5
  <2> QED
    BY <2>1
<1>7. r2 # 0 /\ r1 = 0 => lt
  <2>1. r2 # 0 => r2 * d1 # 0 /\ r2 * d1 \in Nat
    BY <1>1, <1>5, Products
  <2>2. r1 = 0 => r1 * d2 = 0
    BY <1>5
  <2> QED
    BY <2>1, <2>2
<1>8. (d2 * r1 < d1 * r2) = lt
  <2>1. d2 * r1 = r1 * d2 /\ d1 * r2 = r2 * d1
    BY <1>1, <1>5, Products
  <2> QED
    BY <2>1
<1>0. lt \in BOOLEAN
  OBVIOUS
<1>9. (q1 < q2 => q1 # q2 /\ ~ (q2 < q1)) /\ (q2 < q1 => q1 # q2) /\ (q1 < q2 \/ q2 < q1 \/ q1 = q2)
  BY <1>1
<1> HIDE DEF lt
<1>10. CASE q1 < q2
  BY <1>3, <1>4, <1>9, <1>10
<1>11. CASE q2 < q1
  BY <1>3, <1>4, <1>9, <1>11
<1>12. CASE q1 = q2 /\ r2 = 0
  BY <1>3, <1>4, <1>6, <1>9, <1>12
<1>13. CASE q1 = q2 /\ r2 # 0 /\ r1 = 0
  BY <1>3, <1>4, <1>7, <1>9, <1>13
<1>14. CASE q1 = q2 /\ r2 # 0 /\ r1 # 0
  <2>1. Round(f, n1, d1, n2, d2) = next
    BY <1>3, <1>9, <1>14
  <2>2. next = lt
    BY <1>2, <1>8, <1>14
  <2>3. (n1 * d2 < n2 * d1) = lt
    BY <1>0, <1>4, <1>9, <1>14
  <2> QED
    BY <2>1, <2>2, <2>3
<1> QED
  BY <1>9, <1>10, <1>11, <1>12, <1>13, <1>14

LEMMA RemainderPos ==
    ASSUME NEW n \in Nat, NEW d \in Pos, n % d # 0
    PROVE  n % d \in Pos /\ n % d < d
BY Remainders DEF Pos, Divides

LEMMA ComparisonExists == \E f : Compares(f)
<1> DEFINE g == [args \in Ratios |-> args[1] * args[4] < args[3] * args[2]]
<1>0. Pos \subseteq Nat
  BY DEF Pos
<1>1. ASSUME NEW n1 \in Nat, NEW d1 \in Pos, NEW n2 \in Nat, NEW d2 \in Pos
      PROVE  g[<<n1, d1, n2, d2>>] = (n1 * d2 < n2 * d1)
  BY DEF Ratios
<1> HIDE DEF g
<1>2. ASSUME NEW n1 \in Nat, NEW d1 \in Pos, NEW n2 \in Nat, NEW d2 \in Pos
      PROVE  Round(g, n1, d1, n2, d2) = (n1 * d2 < n2 * d1)
  <2>1. ASSUME n1 % d1 # 0, n2 % d2 # 0
        PROVE  g[<<d2, n2 % d2, d1, n1 % d1>>] = (d2 * (n1 % d1) < d1 * (n2 % d2))
    <3>1. n1 % d1 \in Pos /\ n2 % d2 \in Pos /\ d1 \in Nat /\ d2 \in Nat
      BY <1>0, <2>1, RemainderPos
    <3> QED
      BY <1>1, <3>1
  <2> QED
    BY <2>1, RoundRight
<1>3. ASSUME NEW args \in Ratios
      PROVE  Round(g, args[1], args[2], args[3], args[4]) = (args[1] * args[4] < args[3] * args[2])
  BY <1>2 DEF Ratios
<1>4. Compares(g)
  BY <1>3 DEF Compares, g
<1> QED
  BY <1>4

LEMMA ComparesIs == Compares(CompareRationals)
<1>1. CompareRationals = CHOOSE f : Compares(f)
  BY DEF CompareRationals, Compares, Round, Pos, Ratios
<1> QED
  BY <1>1, ComparisonExists

(* compare_rationals tells the fractions apart as their products would:    *)
(* each round leaves the remainders, and so smaller denominators.          *)
THEOREM ComparisonExact ==
    ASSUME NEW n1 \in Nat, NEW d1 \in Pos, NEW n2 \in Nat, NEW d2 \in Pos
    PROVE  CompareRationals[<<n1, d1, n2, d2>>] = (n1 * d2 < n2 * d1)
<1> DEFINE C(a, b, c, d) == CompareRationals[<<a, b, c, d>>]
           wrong == {m \in Nat : \E a \in Nat, b \in Pos, c \in Nat, d \in Pos :
                        m = b + d /\ C(a, b, c, d) # (a * d < c * b)}
<1>1. ASSUME NEW a \in Nat, NEW b \in Pos, NEW c \in Nat, NEW d \in Pos
      PROVE  C(a, b, c, d) = Round(CompareRationals, a, b, c, d)
  <2>1. <<a, b, c, d>> \in Ratios
    BY DEF Ratios
  <2> QED
    BY <2>1, ComparesIs DEF Compares
<1>5. ASSUME NEW a \in Nat, NEW b \in Pos, NEW c \in Nat, NEW d \in Pos, b + d \notin wrong
      PROVE  C(a, b, c, d) = (a * d < c * b)
  <2>1. b + d \in Nat
    BY DEF Pos
  <2> HIDE DEF C
  <2> QED
    BY <1>5, <2>1
<1>2. ASSUME wrong # {} PROVE FALSE
  <2>1. PICK m \in wrong : \A k \in wrong : m <= k
    <3>1. wrong \subseteq Nat
      OBVIOUS
    <3> HIDE DEF wrong
    <3> QED
      BY <1>2, <3>1, SmallestSize
  <2>2. PICK a \in Nat, b \in Pos, c \in Nat, d \in Pos :
                m = b + d /\ C(a, b, c, d) # (a * d < c * b)
    BY <2>1
  <2>3. ASSUME a % b # 0, c % d # 0
        PROVE  C(d, c % d, b, a % b) = (d * (a % b) < b * (c % d))
    <3> DEFINE r == a % b   s == c % d
    <3>1. r \in Pos /\ r < b /\ s \in Pos /\ s < d
      BY <2>3, RemainderPos
    <3> HIDE DEF r, s, C
    <3>2. s + r \in Nat /\ s + r < m /\ b \in Nat /\ d \in Nat /\ m \in Nat
      BY <2>2, <3>1 DEF Pos
    <3> HIDE DEF wrong
    <3>3. s + r \notin wrong
      BY <2>1, <3>2
    <3>4. C(d, s, b, r) = (d * r < b * s)
      BY <1>5, <3>1, <3>2, <3>3
    <3> QED
      BY <3>4 DEF r, s
  <2>4. Round(CompareRationals, a, b, c, d) = (a * d < c * b)
    BY <2>3, RoundRight
  <2> QED
    BY <1>1, <2>2, <2>4
<1> HIDE DEF wrong
<1> QED
  BY <1>2, <1>5

-----------------------------------------------------------------------------
(* The currencies: what is reserved, and what never runs out.              *)

LEMMA AccountsOf == Voters \subseteq Accounts /\ Treasury \in Accounts /\ Treasury \notin Voters
                    /\ NativeAsset \in AssetIds /\ VotedAssets \subseteq AssetIds
BY DemocracyTypes, ChainTypes DEF Accounts

LEMMA EntryIn ==
    ASSUME NEW l \in Ledger, NEW a \in AssetIds, NEW w \in Accounts
    PROVE  /\ l[a][w] \in Entry /\ l[a][w].free \in Nat /\ l[a][w].reserved \in Nat
           /\ l[a][w].frozen \in Nat
           /\ TotalBalance(l, a, w) \in Nat
BY DEF Ledger, Entry, TotalBalance

LEMMA EntryPut ==
    ASSUME NEW l \in Ledger, NEW a \in AssetIds, NEW w \in Accounts, NEW e \in Entry,
           NEW m, SetsEntry(l, a, w, e, m)
    PROVE  /\ m \in Ledger /\ m[a][w] = e
           /\ \A b \in AssetIds, u \in Accounts : b # a \/ u # w => m[b][u] = l[b][u]
BY DEF Ledger, SetsEntry

LEMMA FreeSet ==
    ASSUME NEW l \in Ledger, NEW a \in AssetIds, NEW w \in Accounts, NEW n \in Nat,
           NEW m, SetsFree(l, a, w, n, m)
    PROVE  /\ m \in Ledger /\ m[a][w].free = n /\ m[a][w].reserved = l[a][w].reserved
           /\ \A b \in AssetIds, u \in Accounts : b # a \/ u # w => m[b][u] = l[b][u]
<1> DEFINE e == [l[a][w] EXCEPT !.free = n]
<1>1. e \in Entry /\ e.free = n /\ e.reserved = l[a][w].reserved
  BY DEF Ledger, Entry
<1>2. SetsEntry(l, a, w, e, m)
  BY DEF SetsFree, SetsEntry
<1> HIDE DEF e
<1> QED
  BY <1>1, <1>2, EntryPut

LEMMA ReservedSet ==
    ASSUME NEW l \in Ledger, NEW a \in AssetIds, NEW w \in Accounts, NEW n \in Nat,
           NEW m, SetsReserved(l, a, w, n, m)
    PROVE  /\ m \in Ledger /\ m[a][w].reserved = n /\ m[a][w].free = l[a][w].free
           /\ \A b \in AssetIds, u \in Accounts : b # a \/ u # w => m[b][u] = l[b][u]
<1> DEFINE e == [l[a][w] EXCEPT !.reserved = n]
<1>1. e \in Entry /\ e.reserved = n /\ e.free = l[a][w].free
  BY DEF Ledger, Entry
<1>2. SetsEntry(l, a, w, e, m)
  BY DEF SetsReserved, SetsEntry
<1> HIDE DEF e
<1> QED
  BY <1>1, <1>2, EntryPut

LEMMA FrozenSet ==
    ASSUME NEW l \in Ledger, NEW a \in AssetIds, NEW w \in Accounts, NEW n \in Nat
    PROVE  LET m == SetLock(l, a, w, n) IN
           /\ m \in Ledger
           /\ \A b \in AssetIds, u \in Accounts :
                 m[b][u].free = l[b][u].free /\ m[b][u].reserved = l[b][u].reserved
BY DEF Ledger, Entry, SetLock

(* Nobody has anything of the asset.                                       *)
Penniless(l, a) == \A u \in Accounts : l[a][u].free = 0 /\ l[a][u].reserved = 0

(* An asset that somebody has is not lost, and nor is the treasury.        *)
FundsStay(l, m) ==
    /\ m \in Ledger
    /\ \A a \in AssetIds : Penniless(m, a) => Penniless(l, a)
    /\ TotalBalance(m, NativeAsset, Treasury) >= TotalBalance(l, NativeAsset, Treasury)

LEMMA FundsStayTwice ==
    ASSUME NEW l \in Ledger, NEW k, NEW m, FundsStay(l, k), FundsStay(k, m)
    PROVE  FundsStay(l, m)
<1>1. k \in Ledger /\ m \in Ledger
  BY DEF FundsStay
<1>2. /\ TotalBalance(l, NativeAsset, Treasury) \in Nat
      /\ TotalBalance(k, NativeAsset, Treasury) \in Nat
      /\ TotalBalance(m, NativeAsset, Treasury) \in Nat
  BY <1>1, EntryIn, AccountsOf
<1> QED
  BY <1>1, <1>2 DEF FundsStay

LEMMA FundsStayAlike ==
    ASSUME NEW l \in Ledger, NEW m \in Ledger,
           \A b \in AssetIds, u \in Accounts :
              m[b][u].free = l[b][u].free /\ m[b][u].reserved = l[b][u].reserved
    PROVE  FundsStay(l, m)
<1>1. TotalBalance(m, NativeAsset, Treasury) = TotalBalance(l, NativeAsset, Treasury)
      /\ TotalBalance(l, NativeAsset, Treasury) \in Nat
  BY AccountsOf, EntryIn DEF TotalBalance
<1> QED
  BY <1>1 DEF FundsStay, Penniless

(* From l to m, n of what one account has on hold goes, and no other hold  *)
(* changes.                                                                *)
HoldFalls(l, m, from, n) ==
    /\ m[NativeAsset][from].reserved = l[NativeAsset][from].reserved - n
    /\ \A u \in Accounts : u # from => m[NativeAsset][u].reserved = l[NativeAsset][u].reserved

LEMMA ReserveHolds ==
    ASSUME NEW l \in Ledger, NEW who \in Accounts, who # Treasury, NEW n \in Nat,
           CanReserve(l, NativeAsset, who, n)
    PROVE  LET m == ReserveFunds(l, NativeAsset, who, n) IN
           FundsStay(l, m) /\ HoldFalls(l, m, who, 0 - n)
<1> DEFINE a == NativeAsset
           f == l[a][who].free
           r == l[a][who].reserved
           k == [l EXCEPT ![a][who].free = f - n]
           m == [k EXCEPT ![a][who].reserved = k[a][who].reserved + n]
<1>1. a \in AssetIds /\ f \in Nat /\ r \in Nat /\ l[a][who].frozen \in Nat
  BY EntryIn, AccountsOf
<1>2. f - n \in Nat /\ r + n \in Nat
  BY <1>1 DEF CanReserve
<1>3. /\ k \in Ledger /\ k[a][who].free = f - n /\ k[a][who].reserved = r
      /\ \A b \in AssetIds, u \in Accounts : b # a \/ u # who => k[b][u] = l[b][u]
  <2>1. SetsFree(l, a, who, f - n, k)
    BY DEF SetsFree
  <2> HIDE DEF k, f, a
  <2> QED
    BY <1>1, <1>2, <2>1, FreeSet
<1>4. SetsReserved(k, a, who, r + n, m)
  BY <1>3 DEF SetsReserved
<1>5. ReserveFunds(l, a, who, n) = m
  BY DEF ReserveFunds
<1>6. a = NativeAsset
  OBVIOUS
<1>7. l[a][who].free = f /\ l[a][who].reserved = r
  OBVIOUS
<1> HIDE DEF a, f, r, k, m
<1>8. /\ m \in Ledger /\ m[a][who].free = f - n /\ m[a][who].reserved = r + n
      /\ \A b \in AssetIds, u \in Accounts : b # a \/ u # who => m[b][u] = l[b][u]
  BY <1>1, <1>2, <1>3, <1>4, ReservedSet
<1>9. HoldFalls(l, m, who, 0 - n)
  BY <1>1, <1>6, <1>7, <1>8 DEF HoldFalls
<1>10. m[a][Treasury] = l[a][Treasury]
  BY <1>1, <1>8, AccountsOf
<1>11. TotalBalance(m, a, Treasury) >= TotalBalance(l, a, Treasury)
  <2>1. TotalBalance(l, a, Treasury) \in Nat
    BY <1>1, EntryIn, AccountsOf
  <2> QED
    BY <1>10, <2>1 DEF TotalBalance
<1>12. ASSUME NEW b \in AssetIds, Penniless(m, b) PROVE Penniless(l, b)
  <2>1. CASE b = a
    <3>1. f - n = 0 /\ r + n = 0
      BY <1>8, <1>12, <2>1 DEF Penniless
    <3>2. f = 0 /\ r = 0
      BY <1>1, <3>1
    <3> QED
      BY <1>1, <1>7, <1>8, <1>12, <2>1, <3>2 DEF Penniless
  <2>2. CASE b # a
    BY <1>8, <1>12, <2>2 DEF Penniless
  <2> QED
    BY <2>1, <2>2
<1>13. FundsStay(l, m)
  BY <1>6, <1>8, <1>11, <1>12 DEF FundsStay
<1> QED
  BY <1>5, <1>6, <1>9, <1>13

(* What goes of a hold goes to the free part of an account.                *)
HoldMoves(l, m, from, to, part) ==
    /\ m \in Ledger
    /\ m[NativeAsset][from].reserved = l[NativeAsset][from].reserved - part
    /\ m[NativeAsset][to].free = l[NativeAsset][to].free + part
    /\ from # to => m[NativeAsset][from].free = l[NativeAsset][from].free
                    /\ m[NativeAsset][to].reserved = l[NativeAsset][to].reserved
    /\ \A b \in AssetIds, u \in Accounts :
          b # NativeAsset \/ (u # from /\ u # to) => m[b][u] = l[b][u]

LEMMA MovesStay ==
    ASSUME NEW l \in Ledger, NEW m, NEW from \in Accounts, NEW to \in Accounts,
           NEW part \in Nat, from # Treasury, HoldMoves(l, m, from, to, part)
    PROVE  FundsStay(l, m) /\ HoldFalls(l, m, from, part)
<1> DEFINE a == NativeAsset
<1>1. a \in AssetIds /\ m \in Ledger
  BY AccountsOf DEF HoldMoves
<1>2. \A u \in Accounts : /\ l[a][u].free \in Nat /\ l[a][u].reserved \in Nat
                          /\ m[a][u].free \in Nat /\ m[a][u].reserved \in Nat
  BY <1>1, EntryIn
<1>3. HoldFalls(l, m, from, part)
  BY <1>1 DEF HoldMoves, HoldFalls
<1>4. TotalBalance(m, a, Treasury) >= TotalBalance(l, a, Treasury)
  <2>1. Treasury \in Accounts
    BY AccountsOf
  <2>2. m[a][Treasury].reserved = l[a][Treasury].reserved
    BY <1>3, <2>1 DEF HoldFalls
  <2>3. \/ m[a][Treasury].free = l[a][Treasury].free
        \/ m[a][Treasury].free = l[a][Treasury].free + part
    BY <1>1, <2>1 DEF HoldMoves
  <2> QED
    BY <1>2, <2>1, <2>2, <2>3 DEF TotalBalance
<1>5. ASSUME NEW b \in AssetIds, Penniless(m, b) PROVE Penniless(l, b)
  <2>1. CASE b # a
    BY <1>5, <2>1 DEF Penniless, HoldMoves
  <2>2. CASE b = a
    <3>1. \A u \in Accounts : m[a][u].free = 0 /\ m[a][u].reserved = 0
      BY <1>5, <2>2 DEF Penniless
    <3>2. part = 0
      <4>1. l[a][to].free + part = 0 /\ l[a][to].free \in Nat
        BY <1>2, <3>1 DEF HoldMoves
      <4> QED
        BY <4>1
    <3>3. l[a][from].reserved - part = 0 /\ l[a][to].free + part = 0
      BY <3>1 DEF HoldMoves
    <3>4. l[a][from].reserved = 0 /\ l[a][to].free = 0
      BY <1>2, <3>2, <3>3
    <3>5. ASSUME NEW u \in Accounts PROVE l[a][u].free = 0 /\ l[a][u].reserved = 0
      BY <1>1, <3>1, <3>4 DEF HoldMoves
    <3> QED
      BY <2>2, <3>5 DEF Penniless
  <2> QED
    BY <2>1, <2>2
<1> QED
  BY <1>1, <1>3, <1>4, <1>5 DEF FundsStay

LEMMA UnreserveMoves ==
    ASSUME NEW l \in Ledger, NEW who \in Accounts, NEW n \in Nat
    PROVE  HoldMoves(l, UnreserveFunds(l, NativeAsset, who, n), who, who,
                     LesserOf(n, l[NativeAsset][who].reserved))
<1> DEFINE a == NativeAsset
           f == l[a][who].free
           r == l[a][who].reserved
           part == LesserOf(n, r)
           k == [l EXCEPT ![a][who].free = f + part]
           m == [k EXCEPT ![a][who].reserved = k[a][who].reserved - part]
<1>1. a \in AssetIds /\ f \in Nat /\ r \in Nat
  BY EntryIn, AccountsOf
<1>2. f + part \in Nat /\ r - part \in Nat
  <2> HIDE DEF f, r
  <2> QED
    BY <1>1 DEF LesserOf
<1>3. /\ k \in Ledger /\ k[a][who].free = f + part /\ k[a][who].reserved = r
      /\ \A b \in AssetIds, u \in Accounts : b # a \/ u # who => k[b][u] = l[b][u]
  <2>1. SetsFree(l, a, who, f + part, k)
    BY DEF SetsFree
  <2> HIDE DEF k, f, a, part
  <2> QED
    BY <1>1, <1>2, <2>1, FreeSet DEF r
<1>4. SetsReserved(k, a, who, r - part, m)
  BY <1>3 DEF SetsReserved
<1>5. UnreserveFunds(l, a, who, n) = m
  BY DEF UnreserveFunds
<1>6. a = NativeAsset /\ l[a][who].free = f /\ l[a][who].reserved = r
  OBVIOUS
<1> HIDE DEF a, f, r, k, m, part
<1>7. /\ m \in Ledger /\ m[a][who].free = f + part /\ m[a][who].reserved = r - part
      /\ \A b \in AssetIds, u \in Accounts : b # a \/ u # who => m[b][u] = l[b][u]
  BY <1>1, <1>2, <1>3, <1>4, ReservedSet
<1>8. HoldMoves(l, m, who, who, part)
  BY <1>6, <1>7 DEF HoldMoves
<1> QED
  BY <1>5, <1>6, <1>8 DEF part

LEMMA PassOnMoves ==
    ASSUME NEW l \in Ledger, NEW from \in Accounts, NEW to \in Accounts, from # to,
           NEW n \in Nat, TotalBalance(l, NativeAsset, to) # 0
    PROVE  HoldMoves(l, TransferHeld(l, from, to, n), from, to,
                     LesserOf(n, l[NativeAsset][from].reserved))
<1> DEFINE a == NativeAsset
           r == l[a][from].reserved
           f == l[a][to].free
           part == LesserOf(n, r)
           k == [l EXCEPT ![a][from].reserved = r - part]
           m == [k EXCEPT ![a][to].free = k[a][to].free + part]
<1>1. a \in AssetIds /\ f \in Nat /\ r \in Nat
  BY EntryIn, AccountsOf
<1>2. f + part \in Nat /\ r - part \in Nat
  <2> HIDE DEF f, r
  <2> QED
    BY <1>1 DEF LesserOf
<1>3. /\ k \in Ledger /\ k[a][from].reserved = r - part /\ k[a][from].free = l[a][from].free
      /\ \A b \in AssetIds, u \in Accounts : b # a \/ u # from => k[b][u] = l[b][u]
  <2>1. SetsReserved(l, a, from, r - part, k)
    BY DEF SetsReserved
  <2> HIDE DEF k, r, a, part
  <2> QED
    BY <1>1, <1>2, <2>1, ReservedSet
<1>4. k[a][to] = l[a][to]
  <2> HIDE DEF k, a
  <2> QED
    BY <1>1, <1>3
<1>5. SetsFree(k, a, to, f + part, m)
  BY <1>4 DEF SetsFree
<1>6. TransferHeld(l, from, to, n) = m
  BY DEF TransferHeld
<1>7. a = NativeAsset /\ l[a][to].free = f /\ l[a][from].reserved = r
  OBVIOUS
<1> HIDE DEF a, f, r, k, m, part
<1>8. /\ m \in Ledger /\ m[a][to].free = f + part /\ m[a][to].reserved = k[a][to].reserved
      /\ \A b \in AssetIds, u \in Accounts : b # a \/ u # to => m[b][u] = k[b][u]
  BY <1>1, <1>2, <1>3, <1>5, FreeSet
<1>9. m[a][from] = k[a][from]
  BY <1>1, <1>8
<1>10. HoldMoves(l, m, from, to, part)
  BY <1>3, <1>4, <1>7, <1>8, <1>9 DEF HoldMoves
<1> QED
  BY <1>6, <1>7, <1>10 DEF part

(* A hold that is there is passed on, to an account that exists.           *)
LEMMA LesserIs ==
    ASSUME NEW n \in Nat, NEW r \in Nat
    PROVE  LesserOf(n, r) \in Nat /\ (n <= r => LesserOf(n, r) = n)
BY DEF LesserOf

LEMMA UnreserveStays ==
    ASSUME NEW l \in Ledger, NEW who \in Accounts, who # Treasury, NEW n \in Nat
    PROVE  LET m == UnreserveFunds(l, NativeAsset, who, n) IN
           /\ FundsStay(l, m)
           /\ n <= l[NativeAsset][who].reserved => HoldFalls(l, m, who, n)
<1> DEFINE m == UnreserveFunds(l, NativeAsset, who, n)
           r == l[NativeAsset][who].reserved
           part == LesserOf(n, r)
<1>1. HoldMoves(l, m, who, who, part)
  BY UnreserveMoves
<1>2. r \in Nat
  BY EntryIn, AccountsOf
<1>3. part \in Nat /\ (n <= r => part = n)
  <2> HIDE DEF r
  <2> QED
    BY <1>2, LesserIs
<1> HIDE DEF m, part
<1>4. FundsStay(l, m) /\ HoldFalls(l, m, who, part)
  BY <1>1, <1>3, MovesStay
<1> QED
  BY <1>3, <1>4 DEF m, r

LEMMA TransferHeldStays ==
    ASSUME NEW l \in Ledger, NEW from \in Accounts, NEW to \in Accounts, from # Treasury,
           NEW n \in Nat
    PROVE  LET m == TransferHeld(l, from, to, n) IN
           /\ FundsStay(l, m)
           /\ n <= l[NativeAsset][from].reserved
              /\ (from = to \/ TotalBalance(l, NativeAsset, to) > 0) => HoldFalls(l, m, from, n)
<1> DEFINE m == TransferHeld(l, from, to, n)
           r == l[NativeAsset][from].reserved
           part == LesserOf(n, r)
<1>1. CASE from = to
  <2>1. m = UnreserveFunds(l, NativeAsset, from, n)
    BY <1>1 DEF TransferHeld
  <2> HIDE DEF m
  <2> QED
    BY <2>1, UnreserveStays DEF m
<1>2. CASE from # to /\ TotalBalance(l, NativeAsset, to) = 0
  <2>1. m = l
    BY <1>2 DEF TransferHeld
  <2>2. FundsStay(l, l)
    BY FundsStayAlike
  <2>3. ~ (TotalBalance(l, NativeAsset, to) > 0)
    BY <1>2
  <2> HIDE DEF m
  <2> QED
    BY <1>2, <2>1, <2>2, <2>3 DEF m
<1>3. CASE from # to /\ TotalBalance(l, NativeAsset, to) # 0
  <2>1. HoldMoves(l, m, from, to, part)
    BY <1>3, PassOnMoves
  <2>2. r \in Nat
    BY EntryIn, AccountsOf
  <2>3. part \in Nat /\ (n <= r => part = n)
    <3> HIDE DEF r
    <3> QED
      BY <2>2, LesserIs
  <2> HIDE DEF m, part
  <2>4. FundsStay(l, m) /\ HoldFalls(l, m, from, part)
    BY <2>1, <2>3, MovesStay
  <2> QED
    BY <2>3, <2>4 DEF m, r
<1> QED
  BY <1>1, <1>2, <1>3

-----------------------------------------------------------------------------
(* The deposits of a proposal are paid out, one after the other.           *)

(* How often u is among the first k depositors.                            *)
Places(whos, k, u) == {j \in 1..k : whos[j] = u}
Times(whos, k, u) == Cardinality(Places(whos, k, u))

LEMMA TimesFacts ==
    ASSUME NEW whos, NEW N \in Nat, NEW u
    PROVE  /\ Times(whos, 0, u) = 0
           /\ \A k \in 0..N : Times(whos, k, u) \in Nat /\ Times(whos, k, u) <= Times(whos, N, u)
           /\ \A k \in 1..N : Times(whos, k, u) = Times(whos, k - 1, u)
                                 + (IF whos[k] = u THEN 1 ELSE 0)
<1>1. ASSUME NEW k \in 0..N
      PROVE  IsFiniteSet(Places(whos, k, u)) /\ Places(whos, k, u) \subseteq Places(whos, N, u)
  <2>1. IsFiniteSet(1..k)
    BY FS_Interval
  <2>2. Places(whos, k, u) \subseteq 1..k
    BY DEF Places
  <2>3. Places(whos, k, u) \subseteq Places(whos, N, u)
    BY DEF Places
  <2> QED
    BY <2>1, <2>2, <2>3, FS_Subset
<1>2. N \in 0..N /\ 0 \in 0..N
  OBVIOUS
<1>3. \A k \in 0..N : Times(whos, k, u) \in Nat /\ Times(whos, k, u) <= Times(whos, N, u)
  BY <1>1, <1>2, FS_Subset, FS_CardinalityType DEF Times
<1>4. Times(whos, 0, u) = 0
  <2>1. Places(whos, 0, u) = {}
    BY DEF Places
  <2> QED
    BY <2>1, FS_EmptySet DEF Times
<1>5. ASSUME NEW k \in 1..N
      PROVE  Times(whos, k, u) = Times(whos, k - 1, u) + (IF whos[k] = u THEN 1 ELSE 0)
  <2>1. k - 1 \in 0..N
    OBVIOUS
  <2>2. CASE whos[k] = u
    <3>1. Places(whos, k, u) = Places(whos, k - 1, u) \cup {k} /\ k \notin Places(whos, k - 1, u)
      BY <2>2 DEF Places
    <3>2. IsFiniteSet(Places(whos, k - 1, u))
      BY <1>1, <2>1
    <3> QED
      BY <2>2, <3>1, <3>2, FS_AddElement DEF Times
  <2>3. CASE whos[k] # u
    <3>1. Places(whos, k, u) = Places(whos, k - 1, u)
      BY <2>3 DEF Places
    <3>2. Times(whos, k - 1, u) \in Nat
      BY <1>3, <2>1
    <3> QED
      BY <2>3, <3>1, <3>2 DEF Times
  <2> QED
    BY <2>2, <2>3
<1> QED
  BY <1>3, <1>4, <1>5

LEMMA StakeIs ==
    ASSUME NEW d \in DepositType, NEW u
    PROVE  /\ StakeOf(d, u) = d.amount * Times(d.whos, Len(d.whos), u)
           /\ StakeOf(d, u) \in Nat /\ d.amount \in Nat /\ Len(d.whos) \in Nat
<1>1. d.amount \in Nat /\ d.whos \in Seq(Voters)
  BY DEF DepositType
<1>2. Len(d.whos) \in Nat /\ DOMAIN d.whos = 1..Len(d.whos)
  BY <1>1
<1>3. Times(d.whos, Len(d.whos), u) \in Nat
  BY <1>2, TimesFacts
<1>4. StakeOf(d, u) = d.amount * Times(d.whos, Len(d.whos), u)
  BY <1>2 DEF StakeOf, Times, Places
<1> QED
  BY <1>1, <1>2, <1>3, <1>4

(* The account holds what it has staked, or more.                          *)
Covers(l, d) ==
    /\ TotalBalance(l, NativeAsset, Treasury) > 0
    /\ \A u \in Voters : StakeOf(d, u) <= l[NativeAsset][u].reserved

(* After the first k, each hold is lower by what was paid for it.          *)
PaidUpTo(l, d, k, m) ==
    /\ FundsStay(l, m)
    /\ Covers(l, d) => \A u \in Voters :
          m[NativeAsset][u].reserved
             = l[NativeAsset][u].reserved - d.amount * Times(d.whos, k, u)

LEMMA PayOne ==
    ASSUME NEW l \in Ledger, NEW d \in DepositType, NEW k \in 1..Len(d.whos), NEW m,
           PaidUpTo(l, d, k - 1, m), NEW to, to = Treasury \/ to = d.whos[k]
    PROVE  PaidUpTo(l, d, k, TransferHeld(m, d.whos[k], to, d.amount))
<1> DEFINE w == d.whos[k]
           n == d.amount
           N == Len(d.whos)
           a == NativeAsset
           t == TransferHeld(m, w, to, n)
<1>1. n \in Nat /\ N \in Nat /\ w \in Voters
  <2>1. n \in Nat /\ d.whos \in Seq(Voters)
    BY DEF DepositType
  <2> QED
    BY <2>1
<1>2. m \in Ledger /\ FundsStay(l, m)
  BY DEF PaidUpTo, FundsStay
<1>3. w \in Accounts /\ to \in Accounts /\ w # Treasury
  BY <1>1, AccountsOf
<1>4. k \in 1..N
  OBVIOUS
<1> HIDE DEF w, n, N, t
<1>5. FundsStay(m, t) /\ (n <= m[a][w].reserved /\ (w = to \/ TotalBalance(m, a, to) > 0)
         => HoldFalls(m, t, w, n))
  BY <1>1, <1>2, <1>3, TransferHeldStays DEF t
<1>6. FundsStay(l, t)
  BY <1>2, <1>5, FundsStayTwice
<1>7. ASSUME Covers(l, d), NEW u \in Voters
      PROVE  t[a][u].reserved = l[a][u].reserved - n * Times(d.whos, k, u)
  <2> DEFINE T(j, v) == Times(d.whos, j, v)
  <2>1. \A v \in Voters : m[a][v].reserved = l[a][v].reserved - n * T(k - 1, v)
    BY <1>7 DEF PaidUpTo, n
  <2>2. \A v \in Voters : n * T(N, v) <= l[a][v].reserved
    BY <1>7, StakeIs DEF Covers, n, N
  <2>3. \A v : /\ T(k - 1, v) \in Nat /\ T(N, v) \in Nat /\ T(k, v) \in Nat /\ T(k, v) <= T(N, v)
               /\ T(k, v) = T(k - 1, v) + (IF w = v THEN 1 ELSE 0)
    <3> SUFFICES ASSUME NEW v
                 PROVE  /\ T(k - 1, v) \in Nat /\ T(N, v) \in Nat /\ T(k, v) \in Nat
                        /\ T(k, v) <= T(N, v)
                        /\ T(k, v) = T(k - 1, v) + (IF w = v THEN 1 ELSE 0)
      OBVIOUS
    <3>1. k - 1 \in 0..N /\ k \in 0..N /\ N \in 0..N
      BY <1>1, <1>4
    <3> QED
      BY <1>1, <1>4, <3>1, TimesFacts DEF w
  <2> HIDE DEF T
  <2>4. l[a][w].reserved \in Nat /\ l[a][u].reserved \in Nat
    BY <1>1, <1>7, EntryIn, AccountsOf
  <2>5. n <= m[a][w].reserved
    <3>1. T(k, w) = T(k - 1, w) + 1
      BY <2>3
    <3>2. n * T(k, w) <= n * T(N, w) /\ n * T(k, w) = n * T(k - 1, w) + n
          /\ n * T(k - 1, w) \in Nat /\ n * T(N, w) \in Nat
      <4>1. n * T(k, w) <= n * T(N, w) /\ n * T(N, w) \in Nat
        BY <1>1, <2>3, TimesMonotone
      <4>2. n * (T(k - 1, w) + 1) = n * T(k - 1, w) + n /\ n * T(k - 1, w) \in Nat
        BY <1>1, <2>3
      <4> QED
        BY <3>1, <4>1, <4>2
    <3> DEFINE x == n * T(k - 1, w)
               y == n * T(N, w)
    <3>3. x \in Nat /\ y \in Nat /\ x + n <= y /\ y <= l[a][w].reserved
          /\ m[a][w].reserved = l[a][w].reserved - x
      BY <1>1, <2>1, <2>2, <3>2
    <3> HIDE DEF x, y
    <3> QED
      BY <1>1, <2>4, <3>3
  <2>6. w = to \/ TotalBalance(m, a, to) > 0
    <3>1. CASE to = Treasury
      <4>1. TotalBalance(m, a, Treasury) >= TotalBalance(l, a, Treasury)
        BY <1>2 DEF FundsStay
      <4>2. TotalBalance(m, a, Treasury) \in Nat /\ TotalBalance(l, a, Treasury) \in Nat
        BY <1>2, EntryIn, AccountsOf
      <4>3. TotalBalance(l, a, Treasury) > 0
        BY <1>7 DEF Covers
      <4> QED
        BY <3>1, <4>1, <4>2, <4>3
    <3> QED
      BY <3>1 DEF w
  <2>7. HoldFalls(m, t, w, n)
    BY <1>5, <2>5, <2>6
  <2>8. CASE u = w
    <3>1. T(k, u) = T(k - 1, u) + 1 /\ T(k - 1, u) \in Nat
      BY <2>3, <2>8
    <3>2. n * T(k, u) = n * T(k - 1, u) + n /\ n * T(k - 1, u) \in Nat
      BY <1>1, <3>1
    <3>3. t[a][u].reserved = m[a][u].reserved - n
      BY <2>7, <2>8 DEF HoldFalls
    <3>4. m[a][u].reserved = l[a][u].reserved - n * T(k - 1, u)
      BY <1>7, <2>1
    <3> DEFINE x == n * T(k - 1, u)
               y == n * T(k, u)
    <3>5. x \in Nat /\ y = x + n /\ t[a][u].reserved = l[a][u].reserved - x - n
      BY <3>2, <3>3, <3>4
    <3> HIDE DEF x, y
    <3>6. t[a][u].reserved = l[a][u].reserved - y
      BY <1>1, <2>4, <3>5
    <3> QED
      BY <3>6 DEF y, T
  <2>9. CASE u # w
    <3>1. T(k, u) = T(k - 1, u)
      BY <2>3, <2>9
    <3>2. t[a][u].reserved = m[a][u].reserved
      BY <1>7, <2>7, <2>9, AccountsOf DEF HoldFalls
    <3> QED
      BY <1>7, <2>1, <3>1, <3>2 DEF T
  <2> QED
    BY <2>8, <2>9
<1>8. PaidUpTo(l, d, k, t)
  BY <1>6, <1>7 DEF PaidUpTo, n
<1> QED
  BY <1>8 DEF t, w, n

LEMMA PaidOutHolds ==
    ASSUME NEW l \in Ledger, NEW d \in DepositType, NEW slash
    PROVE  PaidUpTo(l, d, Len(d.whos), PaidOut(l, d, slash))
<1> DEFINE N == Len(d.whos)
           g == CHOOSE f : Pays(f, l, d.whos, slash, d.amount, N)
           good == {k \in 0..N : PaidUpTo(l, d, k, g[k])}
<1>1. PaidOut(l, d, slash) = g[N]
  BY DEF PaidOut, Pays
<1>2. N \in Nat /\ d.amount \in Nat
  BY StakeIs
<1>3. Pays(g, l, d.whos, slash, d.amount, N)
  <2> HIDE DEF N
  <2> QED
    BY <1>2, PaysExists
<1> HIDE DEF g
<1>4. 0 \in good
  <2>1. g[0] = l
    BY <1>2, <1>3 DEF Pays
  <2>2. FundsStay(l, l)
    BY FundsStayAlike
  <2>3. \A u \in Voters : l[NativeAsset][u].reserved
           = l[NativeAsset][u].reserved - d.amount * Times(d.whos, 0, u)
    <3> SUFFICES ASSUME NEW u \in Voters
                 PROVE  l[NativeAsset][u].reserved
                           = l[NativeAsset][u].reserved - d.amount * Times(d.whos, 0, u)
      OBVIOUS
    <3>1. Times(d.whos, 0, u) = 0
      BY <1>2, TimesFacts
    <3>2. l[NativeAsset][u].reserved \in Nat
      BY EntryIn, AccountsOf
    <3>3. d.amount * 0 = 0
      BY <1>2
    <3> QED
      BY <3>1, <3>2, <3>3
  <2>4. PaidUpTo(l, d, 0, l)
    BY <2>2, <2>3 DEF PaidUpTo
  <2> QED
    BY <1>2, <2>1, <2>4
<1>5. ASSUME NEW k \in 1..N, k - 1 \in good PROVE k \in good
  <2> DEFINE to == IF slash THEN Treasury ELSE d.whos[k]
  <2>1. g[k] = TransferHeld(g[k - 1], d.whos[k], to, d.amount)
    BY <1>3 DEF Pays
  <2>2. PaidUpTo(l, d, k - 1, g[k - 1]) /\ (to = Treasury \/ to = d.whos[k])
    BY <1>5
  <2> HIDE DEF to
  <2>3. PaidUpTo(l, d, k, g[k])
    BY <2>1, <2>2, PayOne
  <2>4. k \in 0..N
    BY <1>2
  <2> QED
    BY <2>3, <2>4
<1>6. N \in good
  <2> HIDE DEF N, good
  <2> QED
    BY <1>2, <1>4, <1>5, Upwards
<1> QED
  BY <1>1, <1>6

-----------------------------------------------------------------------------
(* The books: what is on hold, what was staked on proposals and what was   *)
(* put down for preimages.                                                 *)

PreimageType ==
    {NoPreimage} \cup [kind: {"missing"}, expiry: Nat]
        \cup [kind: {"available"}, provider: Voters, deposit: Nat, since: Nat, expiry: Nat]
DepositsType == [PropIds -> DepositType]
PreimagesType == [ProposalIds -> PreimageType]

Stakes(D, u) == [p \in PropIds |-> StakeOf(D[p], u)]
PutDowns(P, u) == [id \in ProposalIds |-> PutDownBy(P[id], u)]
Staked(D, u) == SumFunctionOnSet(Stakes(D, u), PropIds)
PutDown(P, u) == SumFunctionOnSet(PutDowns(P, u), ProposalIds)

BooksTyped(c) == c.ledger \in Ledger /\ c.deposits \in DepositsType /\ c.pre \in PreimagesType
Balanced(c) ==
    \A u \in Voters :
        c.ledger[NativeAsset][u].reserved = Staked(c.deposits, u) + PutDown(c.pre, u)

LEMMA FiniteIds == IsFiniteSet(PropIds) /\ IsFiniteSet(ProposalIds)
<1>1. IsFiniteSet(0 .. MaxPublicProps - 1)
  BY DemocracyTypes, FS_Interval
<1>2. IsFiniteSet(Hashes \X VotedAssets)
  BY DemocracyTypes, FS_Product
<1> QED
  BY <1>1, <1>2 DEF PropIds, ProposalIds

LEMMA PutDownIs ==
    ASSUME NEW p \in PreimageType, NEW u
    PROVE  /\ PutDownBy(p, u) \in Nat
           /\ p.kind # "available" => PutDownBy(p, u) = 0
           /\ p.kind = "available" => /\ p.provider \in Voters /\ p.deposit \in Nat
                                      /\ p.since \in Nat /\ p.expiry \in Nat
                                      /\ PutDownBy(p, u) = IF u = p.provider THEN p.deposit ELSE 0
<1>1. p.kind = "available" => /\ p.provider \in Voters /\ p.deposit \in Nat
                              /\ p.since \in Nat /\ p.expiry \in Nat
  BY DEF PreimageType, NoPreimage
<1> QED
  BY <1>1 DEF PutDownBy

LEMMA BookSums ==
    ASSUME NEW c, BooksTyped(c), NEW u
    PROVE  /\ Staked(c.deposits, u) \in Nat /\ PutDown(c.pre, u) \in Nat
           /\ \A p \in PropIds : StakeOf(c.deposits[p], u) <= Staked(c.deposits, u)
           /\ \A id \in ProposalIds : PutDownBy(c.pre[id], u) <= PutDown(c.pre, u)
<1> DEFINE f == Stakes(c.deposits, u)
           g == PutDowns(c.pre, u)
<1>1. \A p \in PropIds : f[p] = StakeOf(c.deposits[p], u) /\ f[p] \in Nat
  BY StakeIs DEF Stakes, BooksTyped, DepositsType
<1>2. \A id \in ProposalIds : g[id] = PutDownBy(c.pre[id], u) /\ g[id] \in Nat
  BY PutDownIs DEF PutDowns, BooksTyped, PreimagesType
<1>3. Staked(c.deposits, u) = SumFunctionOnSet(f, PropIds)
      /\ PutDown(c.pre, u) = SumFunctionOnSet(g, ProposalIds)
  BY DEF Staked, PutDown
<1> HIDE DEF f, g
<1>4. SumFunctionOnSet(f, PropIds) \in Nat /\ SumFunctionOnSet(g, ProposalIds) \in Nat
  BY <1>1, <1>2, FiniteIds, SumType
<1>5. \A p \in PropIds : f[p] <= SumFunctionOnSet(f, PropIds)
  BY <1>1, FiniteIds, SumBounds
<1>6. \A id \in ProposalIds : g[id] <= SumFunctionOnSet(g, ProposalIds)
  BY <1>2, FiniteIds, SumBounds
<1> QED
  BY <1>1, <1>2, <1>3, <1>4, <1>5, <1>6

(* One deposit, or one preimage, is written.                               *)
LEMMA StakeWritten ==
    ASSUME NEW D \in DepositsType, NEW E \in DepositsType, NEW p \in PropIds, NEW u,
           \A q \in PropIds \ {p} : E[q] = D[q]
    PROVE  Staked(E, u) = Staked(D, u) - StakeOf(D[p], u) + StakeOf(E[p], u)
<1> DEFINE f == Stakes(D, u)
           g == Stakes(E, u)
<1>1. \A q \in PropIds : /\ f[q] = StakeOf(D[q], u) /\ f[q] \in Nat
                         /\ g[q] = StakeOf(E[q], u) /\ g[q] \in Nat
  BY StakeIs DEF Stakes, DepositsType
<1>2. \A q \in PropIds \ {p} : f[q] = g[q]
  BY <1>1
<1>3. Staked(E, u) = SumFunctionOnSet(g, PropIds) /\ Staked(D, u) = SumFunctionOnSet(f, PropIds)
  BY DEF Staked
<1> HIDE DEF f, g
<1>4. SumFunctionOnSet(g, PropIds) = SumFunctionOnSet(f, PropIds) - f[p] + g[p]
  BY <1>1, <1>2, FiniteIds, SumChange
<1> QED
  BY <1>1, <1>3, <1>4

LEMMA PutDownWritten ==
    ASSUME NEW P \in PreimagesType, NEW Q \in PreimagesType, NEW id \in ProposalIds, NEW u,
           \A x \in ProposalIds \ {id} : Q[x] = P[x]
    PROVE  PutDown(Q, u) = PutDown(P, u) - PutDownBy(P[id], u) + PutDownBy(Q[id], u)
<1> DEFINE f == PutDowns(P, u)
           g == PutDowns(Q, u)
<1>1. \A x \in ProposalIds : /\ f[x] = PutDownBy(P[x], u) /\ f[x] \in Nat
                             /\ g[x] = PutDownBy(Q[x], u) /\ g[x] \in Nat
  BY PutDownIs DEF PutDowns, PreimagesType
<1>2. \A x \in ProposalIds \ {id} : f[x] = g[x]
  BY <1>1
<1>3. PutDown(Q, u) = SumFunctionOnSet(g, ProposalIds)
      /\ PutDown(P, u) = SumFunctionOnSet(f, ProposalIds)
  BY DEF PutDown
<1> HIDE DEF f, g
<1>4. SumFunctionOnSet(g, ProposalIds) = SumFunctionOnSet(f, ProposalIds) - f[id] + g[id]
  BY <1>1, <1>2, FiniteIds, SumChange
<1> QED
  BY <1>1, <1>3, <1>4

LEMMA SumMoves ==
    ASSUME NEW r \in Int, NEW s \in Int, NEW t \in Int, NEW x \in Int, NEW y \in Int, r = s + t
    PROVE  /\ r - x + y = (s - x + y) + t
           /\ r - x + y = s + (t - x + y)
OBVIOUS

LEMMA DepositBooked ==
    ASSUME NEW c, BooksTyped(c), NEW d, BooksTyped(d), d.pre = c.pre, NEW p \in PropIds,
           \A q \in PropIds \ {p} : d.deposits[q] = c.deposits[q],
           \A u \in Voters : d.ledger[NativeAsset][u].reserved
              = c.ledger[NativeAsset][u].reserved - StakeOf(c.deposits[p], u)
                   + StakeOf(d.deposits[p], u),
           Balanced(c)
    PROVE  Balanced(d)
<1> SUFFICES ASSUME NEW u \in Voters
             PROVE  d.ledger[NativeAsset][u].reserved = Staked(d.deposits, u) + PutDown(d.pre, u)
  BY DEF Balanced
<1> DEFINE r == c.ledger[NativeAsset][u].reserved
           s == Staked(c.deposits, u)
           t == PutDown(c.pre, u)
           x == StakeOf(c.deposits[p], u)
           y == StakeOf(d.deposits[p], u)
<1>1. r = s + t
  BY DEF Balanced
<1>2. s \in Nat /\ t \in Nat
  BY BookSums
<1>3. x \in Nat /\ y \in Nat
  BY StakeIs DEF BooksTyped, DepositsType
<1>4. Staked(d.deposits, u) = s - x + y
  BY StakeWritten DEF BooksTyped
<1>5. d.ledger[NativeAsset][u].reserved = r - x + y /\ PutDown(d.pre, u) = t
  OBVIOUS
<1> HIDE DEF r, s, t, x, y
<1> QED
  BY <1>1, <1>2, <1>3, <1>4, <1>5, SumMoves

LEMMA PreimageBooked ==
    ASSUME NEW c, BooksTyped(c), NEW d, BooksTyped(d), d.deposits = c.deposits,
           NEW id \in ProposalIds,
           \A q \in ProposalIds \ {id} : d.pre[q] = c.pre[q],
           \A u \in Voters : d.ledger[NativeAsset][u].reserved
              = c.ledger[NativeAsset][u].reserved - PutDownBy(c.pre[id], u)
                   + PutDownBy(d.pre[id], u),
           Balanced(c)
    PROVE  Balanced(d)
<1> SUFFICES ASSUME NEW u \in Voters
             PROVE  d.ledger[NativeAsset][u].reserved = Staked(d.deposits, u) + PutDown(d.pre, u)
  BY DEF Balanced
<1> DEFINE r == c.ledger[NativeAsset][u].reserved
           s == Staked(c.deposits, u)
           t == PutDown(c.pre, u)
           x == PutDownBy(c.pre[id], u)
           y == PutDownBy(d.pre[id], u)
<1>1. r = s + t
  BY DEF Balanced
<1>2. s \in Nat /\ t \in Nat
  BY BookSums
<1>3. x \in Nat /\ y \in Nat
  BY PutDownIs DEF BooksTyped, PreimagesType
<1>4. PutDown(d.pre, u) = t - x + y
  BY PutDownWritten DEF BooksTyped
<1>5. d.ledger[NativeAsset][u].reserved = r - x + y /\ Staked(d.deposits, u) = s
  OBVIOUS
<1> HIDE DEF r, s, t, x, y
<1> QED
  BY <1>1, <1>2, <1>3, <1>4, <1>5, SumMoves

(* From c to d: with a treasury that exists, books that balance balance    *)
(* still, and no asset is lost.                                            *)
KeepsBooks(c, d) ==
    /\ BooksTyped(d) /\ FundsStay(c.ledger, d.ledger)
    /\ TotalBalance(c.ledger, NativeAsset, Treasury) > 0 /\ Balanced(c) => Balanced(d)

(* Deposits stay or are given up.                                          *)
Returns(c, d) ==
    \A p \in PropIds : d.deposits[p] = c.deposits[p] \/ d.deposits[p] = NoDeposit

LEMMA KeepsBooksTwice ==
    ASSUME NEW c, BooksTyped(c), NEW d, KeepsBooks(c, d), NEW e, KeepsBooks(d, e)
    PROVE  KeepsBooks(c, e) /\ (Returns(c, d) /\ Returns(d, e) => Returns(c, e))
<1> DEFINE t(l) == TotalBalance(l, NativeAsset, Treasury)
<1>1. c.ledger \in Ledger /\ d.ledger \in Ledger /\ FundsStay(c.ledger, d.ledger)
      /\ FundsStay(d.ledger, e.ledger)
  BY DEF KeepsBooks, BooksTyped
<1>2. FundsStay(c.ledger, e.ledger)
  BY <1>1, FundsStayTwice
<1>3. t(c.ledger) \in Nat /\ t(d.ledger) \in Nat /\ t(d.ledger) >= t(c.ledger)
  <2>1. TotalBalance(c.ledger, NativeAsset, Treasury) \in Nat
        /\ TotalBalance(d.ledger, NativeAsset, Treasury) \in Nat
    BY <1>1, EntryIn, AccountsOf
  <2> QED
    BY <1>1, <2>1 DEF FundsStay
<1> HIDE DEF t
<1>4. t(c.ledger) > 0 => t(d.ledger) > 0
  BY <1>3
<1>5. t(c.ledger) > 0 /\ Balanced(c) => Balanced(e)
  BY <1>4 DEF KeepsBooks, t
<1>6. KeepsBooks(c, e)
  BY <1>2, <1>5 DEF KeepsBooks, t
<1>7. Returns(c, d) /\ Returns(d, e) => Returns(c, e)
  BY DEF Returns
<1> QED
  BY <1>6, <1>7

(* Books of which only other things are written.                           *)
LEMMA BooksAlike ==
    ASSUME NEW c, BooksTyped(c), NEW d, d.ledger = c.ledger, d.deposits = c.deposits,
           d.pre = c.pre
    PROVE  KeepsBooks(c, d) /\ Returns(c, d)
<1>1. FundsStay(c.ledger, d.ledger)
  BY FundsStayAlike DEF BooksTyped
<1>2. BooksTyped(d) /\ (Balanced(c) => Balanced(d))
  BY DEF BooksTyped, Balanced
<1>3. Returns(c, d)
  BY DEF Returns
<1> QED
  BY <1>1, <1>2, <1>3 DEF KeepsBooks

LEMMA NothingPutDown == NoPreimage \in PreimageType /\ NoPreimage.kind # "available"
                        /\ \A u : PutDownBy(NoPreimage, u) = 0
BY DEF NoPreimage, PreimageType, PutDownBy

LEMMA NothingStaked == \A u : StakeOf(NoDeposit, u) = 0
<1> SUFFICES ASSUME NEW u PROVE StakeOf(NoDeposit, u) = 0
  OBVIOUS
<1>1. NoDeposit \in DepositType /\ NoDeposit.amount = 0 /\ Len(NoDeposit.whos) = 0
  BY DEF NoDeposit, DepositType
<1>2. Times(NoDeposit.whos, 0, u) = 0
  BY TimesFacts
<1>3. StakeOf(NoDeposit, u) = 0 * 0
  BY <1>1, <1>2, StakeIs
<1> QED
  BY <1>3

(* What was put down for a preimage leaves its hold with it.               *)
LEMMA PreimageSettled ==
    ASSUME NEW c, BooksTyped(c), NEW id \in ProposalIds, NEW d, NEW p, p = c.pre[id],
           p.kind = "available", FundsStay(c.ledger, d.ledger),
           TotalBalance(c.ledger, NativeAsset, Treasury) > 0
              /\ p.deposit <= c.ledger[NativeAsset][p.provider].reserved
              => HoldFalls(c.ledger, d.ledger, p.provider, p.deposit),
           d.deposits = c.deposits, d.pre = [c.pre EXCEPT ![id] = NoPreimage]
    PROVE  KeepsBooks(c, d)
<1>1. c.pre \in PreimagesType /\ c.ledger \in Ledger /\ c.deposits \in DepositsType
  BY DEF BooksTyped
<1>2. /\ d.pre \in PreimagesType /\ d.pre[id] = NoPreimage
      /\ \A q \in ProposalIds \ {id} : d.pre[q] = c.pre[q]
  BY <1>1, NothingPutDown DEF PreimagesType
<1>3. p \in PreimageType
  BY <1>1 DEF PreimagesType
<1>4. p.provider \in Voters /\ p.deposit \in Nat
      /\ \A u : PutDownBy(p, u) = IF u = p.provider THEN p.deposit ELSE 0
  BY <1>3, PutDownIs
<1>5. BooksTyped(d)
  BY <1>1, <1>2 DEF BooksTyped, FundsStay
<1>6. ASSUME TotalBalance(c.ledger, NativeAsset, Treasury) > 0, Balanced(c)
      PROVE  Balanced(d)
  <2> DEFINE w == p.provider
             r(u) == c.ledger[NativeAsset][u].reserved
  <2>1. PutDownBy(p, w) <= PutDown(c.pre, w) /\ r(w) = Staked(c.deposits, w) + PutDown(c.pre, w)
        /\ PutDown(c.pre, w) \in Nat /\ Staked(c.deposits, w) \in Nat /\ PutDownBy(p, w) = p.deposit
    BY <1>4, <1>6, BookSums DEF Balanced
  <2>2. p.deposit <= r(w)
    <3> DEFINE x == PutDown(c.pre, w)
               y == Staked(c.deposits, w)
    <3>1. p.deposit <= x /\ r(w) = y + x /\ x \in Nat /\ y \in Nat
      BY <2>1
    <3> HIDE DEF x, y
    <3> QED
      BY <1>4, <3>1
  <2>3. HoldFalls(c.ledger, d.ledger, w, p.deposit)
    BY <1>6, <2>2
  <2>4. \A u \in Voters : r(u) \in Nat /\ u \in Accounts
    BY <1>1, EntryIn, AccountsOf
  <2>5. ASSUME NEW u \in Voters
        PROVE  d.ledger[NativeAsset][u].reserved
                  = r(u) - PutDownBy(c.pre[id], u) + PutDownBy(d.pre[id], u)
    <3>1. PutDownBy(d.pre[id], u) = 0
      BY <1>2, NothingPutDown
    <3>2. CASE u = w
      <4>1. PutDownBy(c.pre[id], u) = p.deposit
        BY <1>4, <3>2
      <4>2. d.ledger[NativeAsset][u].reserved = r(u) - p.deposit
        BY <2>3, <3>2 DEF HoldFalls
      <4> QED
        BY <1>4, <2>4, <3>1, <4>1, <4>2
    <3>3. CASE u # w
      <4>1. PutDownBy(c.pre[id], u) = 0
        BY <1>4, <3>3
      <4>2. d.ledger[NativeAsset][u].reserved = r(u)
        BY <2>3, <2>4, <3>3 DEF HoldFalls
      <4> QED
        BY <2>4, <3>1, <4>1, <4>2
    <3> QED
      BY <3>2, <3>3
  <2> QED
    BY <1>2, <1>5, <1>6, <2>5, PreimageBooked
<1> QED
  BY <1>5, <1>6 DEF KeepsBooks

LEMMA RefundSettles ==
    ASSUME NEW c, IsChain(c), BooksTyped(c), NEW id \in ProposalIds, NEW i
    PROVE  LET d == Enact(c, id, i) IN KeepsBooks(c, d) /\ Returns(c, d) /\ IsChain(d)
<1> DEFINE d == Enact(c, id, i)
           p == c.pre[id]
           o == Outcome(p, id)
           l == c.ledger
<1>1. Enacted(c, id, i, d)
  BY EnactWrites
<1>2. /\ IsChain(d) /\ d.deposits = c.deposits /\ d.pre = [c.pre EXCEPT ![id] = NoPreimage]
      /\ d.ledger = Refunded(l, p, o)
  BY <1>1 DEF Enacted
<1>3. Returns(c, d)
  BY <1>2 DEF Returns
<1>4. c.pre \in PreimagesType /\ l \in Ledger /\ p \in PreimageType
  BY DEF BooksTyped, PreimagesType
<1>5. o = "missing" <=> p.kind # "available"
  BY DEF Outcome
<1>6. o = "missing" => d.ledger = l
  BY <1>2 DEF Refunded
<1>7. o = "invalid" => d.ledger = TransferHeld(l, p.provider, Treasury, p.deposit)
  BY <1>2 DEF Refunded
<1>8. o # "missing" /\ o # "invalid"
         => d.ledger = UnreserveFunds(l, NativeAsset, p.provider, p.deposit)
  BY <1>2 DEF Refunded
<1> HIDE DEF d, o
<1>9. CASE o = "missing"
  <2>1. PutDownBy(p, 0) \in Nat /\ \A u : PutDownBy(p, u) = 0
    BY <1>4, <1>5, <1>9, PutDownIs
  <2>2. /\ d.pre \in PreimagesType /\ d.pre[id] = NoPreimage
        /\ \A q \in ProposalIds \ {id} : d.pre[q] = c.pre[q]
    BY <1>2, <1>4, NothingPutDown DEF PreimagesType
  <2>3. BooksTyped(d)
    BY <1>2, <1>4, <1>6, <1>9, <2>2 DEF BooksTyped
  <2>4. FundsStay(l, d.ledger)
    BY <1>4, <1>6, <1>9, FundsStayAlike
  <2>5. ASSUME NEW u \in Voters
        PROVE  d.ledger[NativeAsset][u].reserved
                  = l[NativeAsset][u].reserved - PutDownBy(c.pre[id], u) + PutDownBy(d.pre[id], u)
    <3>1. PutDownBy(c.pre[id], u) = 0 /\ PutDownBy(d.pre[id], u) = 0
      BY <2>1, <2>2, NothingPutDown
    <3>2. l[NativeAsset][u].reserved \in Nat
      BY <1>4, EntryIn, AccountsOf
    <3> QED
      BY <1>6, <1>9, <3>1, <3>2
  <2>6. Balanced(c) => Balanced(d)
    BY <1>2, <2>2, <2>3, <2>5, PreimageBooked
  <2> QED
    BY <1>2, <1>3, <2>3, <2>4, <2>6 DEF KeepsBooks, d
<1>10. ASSUME o # "missing"
       PROVE  /\ p.provider \in Accounts /\ p.provider # Treasury /\ p.deposit \in Nat
              /\ p.kind = "available" /\ Treasury \in Accounts
  BY <1>4, <1>5, <1>10, PutDownIs, AccountsOf
<1>11. CASE o = "invalid"
  <2>1. /\ FundsStay(l, d.ledger)
        /\ p.deposit <= l[NativeAsset][p.provider].reserved
              /\ (p.provider = Treasury \/ TotalBalance(l, NativeAsset, Treasury) > 0)
              => HoldFalls(l, d.ledger, p.provider, p.deposit)
    BY <1>4, <1>7, <1>10, <1>11, TransferHeldStays
  <2>2. KeepsBooks(c, d)
    BY <1>2, <1>10, <1>11, <2>1, PreimageSettled
  <2> QED
    BY <1>2, <1>3, <2>2 DEF d
<1>12. CASE o # "missing" /\ o # "invalid"
  <2>1. /\ FundsStay(l, d.ledger)
        /\ p.deposit <= l[NativeAsset][p.provider].reserved
              => HoldFalls(l, d.ledger, p.provider, p.deposit)
    BY <1>4, <1>8, <1>10, <1>12, UnreserveStays
  <2>2. KeepsBooks(c, d)
    BY <1>2, <1>10, <1>12, <2>1, PreimageSettled
  <2> QED
    BY <1>2, <1>3, <2>2 DEF d
<1> QED
  BY <1>9, <1>11, <1>12

(* The preimage of an approved proposal is kept, or waited for.            *)
LEMMA ScheduledBooks ==
    ASSUME NEW c, IsChain(c), BooksTyped(c), NEW i, NEW id \in ProposalIds, NEW when \in Nat
    PROVE  LET d == Scheduled(c, i, id, when) IN KeepsBooks(c, d) /\ Returns(c, d) /\ IsChain(d)
<1> DEFINE d == Scheduled(c, i, id, when)
           p == c.pre[id]
           q == KeptUntil(p, when)
<1>1. ScheduledAs(c, i, id, when, d)
  BY ScheduledWrites
<1>2. /\ IsChain(d) /\ d.deposits = c.deposits /\ d.pre = [c.pre EXCEPT ![id] = q]
      /\ d.ledger = c.ledger
  BY <1>1 DEF ScheduledAs
<1>3. c.pre \in PreimagesType /\ c.ledger \in Ledger /\ p \in PreimageType
  BY DEF BooksTyped, PreimagesType
<1>4. q \in PreimageType /\ \A u : PutDownBy(q, u) = PutDownBy(p, u)
  <2> HIDE DEF p
  <2>1. CASE p.kind = "available"
    <3>1. p \in [kind: {"available"}, provider: Voters, deposit: Nat, since: Nat, expiry: Nat]
      BY <1>3, <2>1 DEF PreimageType, NoPreimage
    <3>2. q = [p EXCEPT !.expiry = when]
      BY <2>1 DEF KeptUntil
    <3>3. q \in [kind: {"available"}, provider: Voters, deposit: Nat, since: Nat, expiry: Nat]
          /\ q.kind = p.kind /\ q.provider = p.provider /\ q.deposit = p.deposit
      BY <3>1, <3>2
    <3> HIDE DEF q
    <3> QED
      BY <3>3 DEF PreimageType, PutDownBy
  <2>2. CASE p.kind # "available"
    <3>1. q = [kind |-> "missing", expiry |-> when]
      BY <2>2 DEF KeptUntil, MissingUntil
    <3>2. q \in PreimageType /\ q.kind # "available"
      BY <3>1 DEF PreimageType
    <3> HIDE DEF q
    <3> QED
      BY <2>2, <3>2 DEF PutDownBy
  <2> QED
    BY <2>1, <2>2
<1> HIDE DEF d, q
<1>5. /\ d.pre \in PreimagesType /\ d.pre[id] = q
      /\ \A x \in ProposalIds \ {id} : d.pre[x] = c.pre[x]
  BY <1>2, <1>3, <1>4 DEF PreimagesType
<1>6. BooksTyped(d)
  BY <1>2, <1>5 DEF BooksTyped
<1>7. FundsStay(c.ledger, d.ledger)
  BY <1>2, <1>3, FundsStayAlike
<1>8. ASSUME NEW u \in Voters
      PROVE  d.ledger[NativeAsset][u].reserved = c.ledger[NativeAsset][u].reserved
                - PutDownBy(c.pre[id], u) + PutDownBy(d.pre[id], u)
  <2>1. PutDownBy(d.pre[id], u) = PutDownBy(c.pre[id], u)
    BY <1>4, <1>5
  <2>2. PutDownBy(c.pre[id], u) \in Nat
    BY <1>3, PutDownIs
  <2>3. c.ledger[NativeAsset][u].reserved \in Nat
    BY <1>3, EntryIn, AccountsOf
  <2> QED
    BY <1>2, <2>1, <2>2, <2>3
<1>9. Balanced(c) => Balanced(d)
  BY <1>2, <1>5, <1>6, <1>8, PreimageBooked
<1>10. Returns(c, d)
  BY <1>2 DEF Returns
<1> QED
  BY <1>2, <1>6, <1>7, <1>9, <1>10 DEF KeepsBooks, d

(* The deposits of a proposal leave their holds with it.                   *)
LEMMA DepositSettled ==
    ASSUME NEW c, BooksTyped(c), NEW p \in PropIds, NEW slash, NEW d,
           d.ledger = PaidOut(c.ledger, c.deposits[p], slash), d.pre = c.pre,
           d.deposits = [c.deposits EXCEPT ![p] = NoDeposit]
    PROVE  KeepsBooks(c, d) /\ Returns(c, d)
<1> DEFINE x == c.deposits[p]
           l == c.ledger
           m == d.ledger
<1>1. c.deposits \in DepositsType /\ l \in Ledger /\ x \in DepositType
  BY DEF BooksTyped, DepositsType
<1>2. /\ d.deposits \in DepositsType /\ d.deposits[p] = NoDeposit
      /\ \A q \in PropIds \ {p} : d.deposits[q] = c.deposits[q]
  BY <1>1, NoDepositFits DEF DepositsType
<1>3. PaidUpTo(l, x, Len(x.whos), m)
  BY <1>1, PaidOutHolds
<1>4. FundsStay(l, m) /\ BooksTyped(d)
  BY <1>2, <1>3 DEF PaidUpTo, BooksTyped, FundsStay
<1>5. Returns(c, d)
  BY <1>2 DEF Returns
<1>6. ASSUME TotalBalance(l, NativeAsset, Treasury) > 0, Balanced(c)
      PROVE  Balanced(d)
  <2>1. ASSUME NEW u \in Voters PROVE StakeOf(x, u) <= l[NativeAsset][u].reserved
    <3> DEFINE s == Staked(c.deposits, u)
               t == PutDown(c.pre, u)
    <3>1. StakeOf(x, u) <= s /\ s \in Nat /\ t \in Nat /\ l[NativeAsset][u].reserved = s + t
      BY <1>6, BookSums DEF Balanced
    <3>2. StakeOf(x, u) \in Nat
      BY <1>1, StakeIs
    <3> HIDE DEF s, t
    <3> QED
      BY <3>1, <3>2
  <2>2. Covers(l, x)
    BY <1>6, <2>1 DEF Covers
  <2>3. ASSUME NEW u \in Voters
        PROVE  m[NativeAsset][u].reserved = l[NativeAsset][u].reserved - StakeOf(c.deposits[p], u)
                  + StakeOf(d.deposits[p], u)
    <3>1. m[NativeAsset][u].reserved = l[NativeAsset][u].reserved
             - x.amount * Times(x.whos, Len(x.whos), u)
      BY <1>3, <2>2 DEF PaidUpTo
    <3>2. StakeOf(x, u) = x.amount * Times(x.whos, Len(x.whos), u) /\ StakeOf(x, u) \in Nat
      BY <1>1, StakeIs
    <3>3. StakeOf(d.deposits[p], u) = 0
      BY <1>2, NothingStaked
    <3>4. m[NativeAsset][u].reserved = l[NativeAsset][u].reserved - StakeOf(x, u)
      BY <3>1, <3>2
    <3>5. l[NativeAsset][u].reserved \in Nat
      BY <1>1, EntryIn, AccountsOf
    <3> QED
      BY <3>2, <3>3, <3>4, <3>5
  <2> QED
    BY <1>2, <1>4, <1>6, <2>3, DepositBooked
<1> QED
  BY <1>4, <1>5, <1>6 DEF KeepsBooks

(* A step of the chain that keeps the books.                               *)
KeepsChain(c, d) == IsChain(d) /\ KeepsBooks(c, d) /\ Returns(c, d)

LEMMA KeepsChainTwice ==
    ASSUME NEW c, BooksTyped(c), NEW d, KeepsChain(c, d), NEW e, KeepsChain(d, e)
    PROVE  KeepsChain(c, e)
BY KeepsBooksTwice DEF KeepsChain

LEMMA EnactAllBooks ==
    ASSUME NEW c, IsChain(c), BooksTyped(c), NEW entries \in Seq(AgendaType), NEW due
    PROVE  KeepsChain(c, EnactAll(c, entries, due))
<1> DEFINE N == Len(entries)
           g == CHOOSE f : Enacts(f, c, entries, due, N)
           good == {k \in 0..N : KeepsChain(c, g[k])}
<1>1. EnactAll(c, entries, due) = g[N]
  BY DEF EnactAll, Enacts
<1>2. N \in Nat
  OBVIOUS
<1>3. Enacts(g, c, entries, due, N)
  <2> HIDE DEF N
  <2> QED
    BY <1>2, EnactsExists
<1> HIDE DEF g
<1>4. 0 \in good
  <2>1. g[0] = c
    BY <1>2, <1>3 DEF Enacts
  <2>2. KeepsChain(c, c)
    BY BooksAlike DEF KeepsChain
  <2> QED
    BY <1>2, <2>1, <2>2
<1>5. ASSUME NEW k \in 1..N, k - 1 \in good PROVE k \in good
  <2> DEFINE b == g[k - 1]
             x == entries[k]
  <2>1. g[k] = IF k \in due THEN Enact(b, x.id, x.index) ELSE b
    BY <1>3 DEF Enacts
  <2>2. KeepsChain(c, b)
    BY <1>5
  <2>3. x.id \in ProposalIds
    <3>1. x \in AgendaType
      OBVIOUS
    <3> HIDE DEF x
    <3> QED
      BY <3>1 DEF AgendaType
  <2> HIDE DEF b, x
  <2>4. IsChain(b) /\ BooksTyped(b)
    BY <2>2 DEF KeepsChain, KeepsBooks
  <2>5. KeepsChain(b, Enact(b, x.id, x.index))
    BY <2>3, <2>4, RefundSettles DEF KeepsChain
  <2>6. KeepsChain(c, g[k])
    BY <2>1, <2>2, <2>5, KeepsChainTwice
  <2>7. k \in 0..N
    BY <1>2
  <2> QED
    BY <2>6, <2>7
<1>6. N \in good
  <2>1. \A k \in 1..N : k - 1 \in good => k \in good
    BY <1>5
  <2> HIDE DEF N, good
  <2>2. \A k \in 0..N : k \in good
    BY <1>2, <1>4, <2>1, Upwards
  <2>3. N \in 0..N
    BY <1>2
  <2> QED
    BY <2>2, <2>3
<1> QED
  BY <1>1, <1>6

LEMMA EnactDueBooks ==
    ASSUME NEW c, IsChain(c), BooksTyped(c), c.agenda \in Seq(AgendaType), NEW n
    PROVE  KeepsChain(c, EnactDue(c, n))
<1> DEFINE r == Retain(c.agenda, DOMAIN c.agenda \ Due(c, n))
           b == [c EXCEPT !.agenda = r]
<1>1. EnactDue(c, n) = EnactAll(b, c.agenda, Due(c, n))
  BY DEF EnactDue
<1>2. IsTrimmed(c, r, b)
  BY DEF IsTrimmed
<1> HIDE DEF r, b
<1>3. IsChain(b) /\ b.ledger = c.ledger /\ b.deposits = c.deposits /\ b.pre = c.pre
  BY <1>2 DEF IsTrimmed, IsChain
<1>4. KeepsChain(c, b) /\ BooksTyped(b)
  BY <1>3, BooksAlike DEF KeepsChain, KeepsBooks
<1>5. KeepsChain(b, EnactAll(b, c.agenda, Due(c, n)))
  BY <1>3, <1>4, EnactAllBooks
<1> QED
  BY <1>1, <1>4, <1>5, KeepsChainTwice

LEMMA InjectedBooks ==
    ASSUME NEW c, IsChain(c), BooksTyped(c), NEW n, NEW id, NEW t
    PROVE  KeepsChain(c, Injected(c, n, id, t))
<1> DEFINE x == c.count + 1
           info == [c.info EXCEPT ![c.count] = OngoingStatus(n + VotingPeriod, id, t, EnactmentPeriod)]
           d == Injected(c, n, id, t)
<1>1. IsInjected(c, x, info, d)
  BY DEF IsInjected, Injected
<1> HIDE DEF x, info, d
<1>2. IsChain(d) /\ d.ledger = c.ledger /\ d.deposits = c.deposits /\ d.pre = c.pre
  BY <1>1 DEF IsInjected, IsChain
<1>3. KeepsChain(c, d)
  BY <1>2, BooksAlike DEF KeepsChain
<1> QED
  BY <1>3 DEF d

LEMMA LaunchNextBooks ==
    ASSUME NEW c, ChainTypeOK(c), BooksTyped(c), NEW n
    PROVE  KeepsChain(c, LaunchNext(c, n))
<1>0. IsChain(c)
  BY DEF ChainTypeOK
<1>1. CASE c.external # <<>> /\ (c.props = <<>> \/ ~ c.wasExternal)
  <2> DEFINE w == TRUE
             none == <<>>
             b == [c EXCEPT !.external = none, !.wasExternal = w]
             e == c.external[1]
  <2>1. LaunchNext(c, n) = Injected(b, n, e.id, e.threshold)
    BY <1>1 DEF LaunchNext, LaunchExternal
  <2>2. IsTabled(c, none, w, b)
    BY DEF IsTabled
  <2> HIDE DEF w, none, b, e
  <2>3. IsChain(b) /\ b.ledger = c.ledger /\ b.deposits = c.deposits /\ b.pre = c.pre
    BY <1>0, <2>2 DEF IsTabled, IsChain
  <2>4. KeepsChain(c, b) /\ BooksTyped(b)
    BY <2>3, BooksAlike DEF KeepsChain, KeepsBooks
  <2> QED
    BY <2>1, <2>3, <2>4, InjectedBooks, KeepsChainTwice
<1>2. CASE c.props # <<>> /\ (c.external = <<>> \/ c.wasExternal)
  <2> DEFINE k == BestBacked(c)
             p == c.props[k]
             props == SwapRemoved(c.props, k)
             w == FALSE
             t == "SuperMajorityApprove"
             deposits == [c.deposits EXCEPT ![p.index] = NoDeposit]
             l == ReleasedAll(c.ledger, c.deposits[p.index])
             b == [c EXCEPT !.props = props, !.wasExternal = w, !.deposits = deposits, !.ledger = l]
  <2>1. LaunchNext(c, n) = Injected(b, n, p.id, t)
    BY <1>2 DEF LaunchNext, LaunchPublic
  <2>2. k \in DOMAIN c.props
    BY <1>2, BestBackedWaits
  <2> HIDE DEF k
  <2>3. p.index \in PropIds
    BY <2>2, BackingType
  <2> HIDE DEF p
  <2>4. IsTaken(c, props, w, deposits, l, b)
    BY DEF IsTaken
  <2> HIDE DEF props, w, t, b
  <2>5. IsChain(b) /\ b.ledger = l /\ b.deposits = deposits /\ b.pre = c.pre
    <3> HIDE DEF deposits, l
    <3> QED
      BY <1>0, <2>4 DEF IsTaken, IsChain
  <2>6. l = PaidOut(c.ledger, c.deposits[p.index], FALSE)
    BY DEF ReleasedAll
  <2>7. KeepsChain(c, b) /\ BooksTyped(b)
    BY <2>3, <2>5, <2>6, DepositSettled DEF KeepsChain, KeepsBooks
  <2> QED
    BY <2>1, <2>5, <2>7, InjectedBooks, KeepsChainTwice
<1>3. CASE c.external = <<>> /\ c.props = <<>>
  <2> DEFINE w == FALSE
             b == [c EXCEPT !.wasExternal = w]
  <2>1. LaunchNext(c, n) = b
    BY <1>3 DEF LaunchNext
  <2> HIDE DEF w
  <2>2. IsChain(b) /\ b.ledger = c.ledger /\ b.deposits = c.deposits /\ b.pre = c.pre
    BY <1>0 DEF IsChain
  <2> HIDE DEF b
  <2> QED
    BY <2>1, <2>2, BooksAlike DEF KeepsChain
<1> QED
  BY <1>1, <1>2, <1>3

LEMMA BakeBooks ==
    ASSUME NEW c, ChainTypeOK(c), BooksTyped(c), NEW i \in RefIds, NEW n \in Nat,
           c.info[i].kind = "ongoing"
    PROVE  KeepsChain(c, Bake(c, i, n))
<1> DEFINE s == c.info[i]
           passed == Approved(s.threshold, s.tally, Electorate(s.id[2]))
           after == CASE ~ passed -> c
                      [] passed /\ s.delay = 0 -> Enact(c, s.id, i)
                      [] passed /\ s.delay # 0 -> Scheduled(c, i, s.id, n + s.delay)
           d == Bake(c, i, n)
<1>1. d = Decided(after, i, n, passed)
  BY DEF Bake
<1>2. passed \in BOOLEAN
  BY DEF Approved
<1> HIDE DEF passed
<1>3. IsChain(c) /\ c.info \in StatusesType /\ IsLaidOut(c.ledger)
  BY DEF ChainTypeOK
<1>4. s.id \in ProposalIds /\ s.delay \in Nat
  <2>1. s \in StatusType /\ s.kind = "ongoing"
    BY <1>3 DEF StatusesType
  <2> HIDE DEF s
  <2> QED
    BY <2>1 DEF StatusType, NoInfo
<1> HIDE DEF s
<1>5. KeepsChain(c, after)
  <2>1. KeepsChain(c, c)
    BY <1>3, BooksAlike DEF KeepsChain
  <2>2. KeepsChain(c, Enact(c, s.id, i))
    BY <1>3, <1>4, RefundSettles DEF KeepsChain
  <2>3. KeepsChain(c, Scheduled(c, i, s.id, n + s.delay))
    <3>1. n + s.delay \in Nat
      BY <1>4
    <3> QED
      BY <1>3, <1>4, <3>1, ScheduledBooks DEF KeepsChain
  <2>4. CASE ~ passed
    BY <2>1, <2>4
  <2>5. CASE passed /\ s.delay = 0
    BY <2>2, <2>5
  <2>6. CASE passed /\ s.delay # 0
    BY <2>3, <2>6
  <2> QED
    BY <1>2, <2>4, <2>5, <2>6
<1> DEFINE info == [after.info EXCEPT ![i] = [kind |-> "finished", approved |-> passed, end |-> n]]
<1>6. IsDecided(after, info, d)
  BY <1>1 DEF Decided, IsDecided
<1> HIDE DEF after, d, info
<1>7. IsChain(after) /\ BooksTyped(after)
  BY <1>5 DEF KeepsChain, KeepsBooks
<1>8. IsChain(d) /\ d.ledger = after.ledger /\ d.deposits = after.deposits /\ d.pre = after.pre
  BY <1>6, <1>7 DEF IsDecided, IsChain
<1>9. KeepsChain(after, d)
  BY <1>7, <1>8, BooksAlike DEF KeepsChain
<1>10. KeepsChain(c, d)
  BY <1>5, <1>9, KeepsChainTwice
<1> QED
  BY <1>10 DEF d

LEMMA BakeLeavesOthers ==
    ASSUME NEW c, ChainTypeOK(c), NEW i \in RefIds, NEW n
    PROVE  \A j \in RefIds \ {i} : Bake(c, i, n).info[j] = c.info[j]
<1> DEFINE s == c.info[i]
           passed == Approved(s.threshold, s.tally, Electorate(s.id[2]))
           after == CASE ~ passed -> c
                      [] passed /\ s.delay = 0 -> Enact(c, s.id, i)
                      [] passed /\ s.delay # 0 -> Scheduled(c, i, s.id, n + s.delay)
           d == Bake(c, i, n)
<1>1. d = Decided(after, i, n, passed)
  BY DEF Bake
<1>2. passed \in BOOLEAN
  BY DEF Approved
<1>3. IsChain(c) /\ IsLaidOut(c.ledger) /\ DOMAIN c.info = RefIds
  BY DEF ChainTypeOK, StatusesType
<1> HIDE DEF passed, s
<1>4. OnlyPays(c, after)
  <2>1. OnlyPays(c, c)
    BY <1>3 DEF OnlyPays, SameLocks
  <2>2. OnlyPays(c, Enact(c, s.id, i))
    BY <1>3, EnactPays
  <2>3. OnlyPays(c, Scheduled(c, i, s.id, n + s.delay))
    BY <1>3, ScheduledPays
  <2>4. CASE ~ passed
    BY <2>1, <2>4
  <2>5. CASE passed /\ s.delay = 0
    BY <2>2, <2>5
  <2>6. CASE passed /\ s.delay # 0
    BY <2>3, <2>6
  <2> QED
    BY <1>2, <2>4, <2>5, <2>6
<1> HIDE DEF after, d
<1>5. IsChain(after) /\ after.info = c.info /\ DOMAIN after.info = RefIds
  BY <1>3, <1>4 DEF OnlyPays
<1>6. \A j \in RefIds \ {i} : d.info[j] = after.info[j]
  BY <1>1, <1>5, DecidedWrites
<1> QED
  BY <1>5, <1>6 DEF d

(* Baking goes on from a chain in which what is still to bake is open.     *)
LEMMA BakeAllBooks ==
    ASSUME NEW c, ChainTypeOK(c), BooksTyped(c), NEW n \in Nat, NEW last \in 0..MaxReferenda,
           lowest_unbaked \in Nat
    PROVE  KeepsChain(c, BakeAll(c, n, last))
<1> DEFINE ending == Maturing(c, n, last)
           g == CHOOSE f : Bakes(f, c, ending, n, last)
           Fine(k) == /\ KeepsChain(c, g[k]) /\ ChainTypeOK(g[k])
                      /\ \A j \in RefIds : ~ (j < k) => g[k].info[j] = c.info[j]
           good == {k \in 0..last : Fine(k)}
<1>1. BakeAll(c, n, last) = g[last]
  BY DEF BakeAll, Bakes
<1>2. MaxReferenda \in Nat /\ last \in Nat /\ last <= MaxReferenda
  BY DemocracyTypes
<1>3. ending \subseteq RefIds /\ \A j \in ending : c.info[j].kind = "ongoing"
  BY <1>2 DEF Maturing, RefIds
<1> HIDE DEF ending
<1>4. Bakes(g, c, ending, n, last)
  BY <1>2, BakesExists
<1> HIDE DEF g
<1>5. 0 \in good
  <2>1. g[0] = c
    BY <1>2, <1>4 DEF Bakes
  <2>2. KeepsChain(c, c)
    BY BooksAlike DEF KeepsChain, ChainTypeOK
  <2> QED
    BY <1>2, <2>1, <2>2
<1>6. ASSUME NEW k \in 1..last, k - 1 \in good PROVE k \in good
  <2> DEFINE b == g[k - 1]
             i == k - 1
             d == g[k]
  <2>1. d = IF i \in ending THEN Bake(b, i, n) ELSE b
    <3>1. k \in 0..last /\ k # 0
      BY <1>2
    <3> QED
      BY <1>4, <3>1 DEF Bakes
  <2>2. \A j \in RefIds : ~ (j < k) => ~ (j < i) /\ j # i
    BY DemocracyTypes, <1>2 DEF RefIds
  <2>3. i \in RefIds => ~ (i < i)
    BY DemocracyTypes DEF RefIds
  <2>4. KeepsChain(c, b) /\ ChainTypeOK(b)
        /\ \A j \in RefIds : ~ (j < i) => b.info[j] = c.info[j]
    BY <1>6
  <2> SUFFICES /\ KeepsChain(c, d) /\ ChainTypeOK(d)
               /\ \A j \in RefIds : ~ (j < k) => d.info[j] = c.info[j]
    BY <1>2
  <2> HIDE DEF b, i, d
  <2>5. CASE i \notin ending
    BY <2>1, <2>2, <2>4, <2>5
  <2>6. CASE i \in ending
    <3>1. i \in RefIds /\ b.info[i].kind = "ongoing" /\ BooksTyped(b)
      BY <1>3, <2>3, <2>4, <2>6 DEF KeepsChain, KeepsBooks
    <3>2. KeepsChain(b, d)
      BY <2>1, <2>4, <2>6, <3>1, BakeBooks
    <3>3. Closes(b, d)
      BY <2>1, <2>4, <2>6, <3>1, BakeCloses
    <3>4. KeepsChain(c, d) /\ ChainTypeOK(d)
      BY <2>4, <3>2, <3>3, KeepsChainTwice DEF Closes
    <3>5. \A j \in RefIds \ {i} : d.info[j] = b.info[j]
      BY <2>1, <2>4, <2>6, <3>1, BakeLeavesOthers
    <3> QED
      BY <2>2, <2>4, <3>1, <3>4, <3>5
  <2> QED
    BY <2>5, <2>6
<1>7. last \in good
  <2> HIDE DEF good
  <2> QED
    BY <1>2, <1>5, <1>6, Upwards
<1> QED
  BY <1>1, <1>7

-----------------------------------------------------------------------------
(* Every step keeps the books.                                             *)

(* No deposit is on record for a proposal that was not made.               *)
Unmade == \A p \in PropIds : p >= public_prop_count => deposit_of[p] = NoDeposit

BooksInv == StagesInv /\ BooksTyped(ChainNow) /\ Unmade
BooksKept == KeepsBooks(ChainNow, ChainNow') /\ Unmade'

LEMMA NowIs ==
    /\ ChainNow.ledger = ledger /\ ChainNow.deposits = deposit_of /\ ChainNow.pre = preimages
    /\ ChainNow'.ledger = ledger' /\ ChainNow'.deposits = deposit_of' /\ ChainNow'.pre = preimages'
BY DEF ChainNow

LEMMA UnmadeStays ==
    ASSUME BooksInv, Returns(ChainNow, ChainNow'), public_prop_count' = public_prop_count
    PROVE  Unmade'
BY NowIs DEF BooksInv, Unmade, Returns

LEMMA BooksUntouched ==
    ASSUME BooksInv, UNCHANGED <<ledger, deposit_of, preimages, public_prop_count>>
    PROVE  BooksKept
<1>1. KeepsBooks(ChainNow, ChainNow') /\ Returns(ChainNow, ChainNow')
  BY NowIs, BooksAlike DEF BooksInv
<1> QED
  BY <1>1, UnmadeStays DEF BooksKept

LEMMA LockLeavesBooks ==
    ASSUME BooksInv, NEW a \in VotedAssets, NEW u \in Voters, NEW n \in Nat,
           ledger' = SetLock(ledger, a, u, n),
           UNCHANGED <<deposit_of, preimages, public_prop_count>>
    PROVE  BooksKept
<1>1. ledger \in Ledger /\ BooksTyped(ChainNow)
  BY NowIs DEF BooksInv, BooksTyped
<1>2. a \in AssetIds /\ u \in Accounts
  BY AccountsOf
<1>3. /\ ledger' \in Ledger
      /\ \A b \in AssetIds, w \in Accounts :
            /\ ledger'[b][w].free = ledger[b][w].free
            /\ ledger'[b][w].reserved = ledger[b][w].reserved
  BY <1>1, <1>2, FrozenSet
<1>4. FundsStay(ledger, ledger')
  BY <1>1, <1>3, FundsStayAlike
<1>5. BooksTyped(ChainNow')
  BY <1>1, <1>3, NowIs DEF BooksTyped
<1>6. Balanced(ChainNow) => Balanced(ChainNow')
  BY <1>3, NowIs, AccountsOf DEF Balanced
<1>7. Returns(ChainNow, ChainNow')
  BY NowIs DEF Returns
<1> QED
  BY <1>4, <1>5, <1>6, <1>7, NowIs, UnmadeStays DEF KeepsBooks, BooksKept

LEMMA VotingLeavesBooks ==
    ASSUME BooksInv, VotingNext
    PROVE  BooksKept
<1> USE DEF BooksInv, StagesInv
<1>1. \A u \in Voters, a \in VotedAssets : ledger[a][u].frozen \in Nat
  BY NowIs, EntryIn, AccountsOf DEF BooksTyped
<1>2. ASSUME NEW u \in Voters, NEW a \in VotedAssets, NEW n \in Nat,
             ledger' = ExtendLock(ledger, a, u, n), UNCHANGED <<queueVars, enactVars>>
      PROVE  BooksKept
  <2>1. GreaterOf(ledger[a][u].frozen, n) \in Nat
    BY <1>1 DEF GreaterOf
  <2> QED
    BY <1>2, <2>1, LockLeavesBooks DEF ExtendLock, queueVars, enactVars
<1>3. ASSUME NEW u \in Voters, NEW i \in RefIds, NEW v \in AccountVotes, Vote(u, i, v)
      PROVE  BooksKept
  <2> DEFINE a == referendum_info[i].id[2]
  <2>1. a \in VotedAssets
    <3>1. referendum_info[i].kind = "ongoing" /\ referendum_info[i] \in StatusType
      BY <1>3 DEF Vote, Ongoing, DemocracyInv, StatusesType
    <3>2. referendum_info[i].id \in ProposalIds
      BY <3>1 DEF StatusType, NoInfo
    <3> QED
      BY <3>2 DEF ProposalIds
  <2>2. VoteBalance(v) \in Nat
    BY VoteFacts
  <2>3. ledger' = ExtendLock(ledger, a, u, VoteBalance(v)) /\ UNCHANGED <<queueVars, enactVars>>
    BY <1>3 DEF Vote
  <2> HIDE DEF a
  <2> QED
    BY <1>2, <2>1, <2>2, <2>3
<1>4. ASSUME NEW u, NEW a, NEW i, NEW byOther, RemoveVote(u, a, i, byOther) PROVE BooksKept
  BY <1>4, BooksUntouched DEF RemoveVote, queueVars, enactVars
<1>5. ASSUME NEW u \in Voters, NEW to \in Voters, NEW a \in VotedAssets,
             NEW input \in DelegationInputs, Delegate(u, to, a, input[1], input[2])
      PROVE  BooksKept
  <2>1. input[2] \in Nat
    BY DemocracyTypes
  <2> QED
    BY <1>2, <1>5, <2>1 DEF Delegate
<1>6. ASSUME NEW u, NEW a, Undelegate(u, a) PROVE BooksKept
  BY <1>6, BooksUntouched DEF Undelegate, queueVars, enactVars
<1>7. ASSUME NEW u \in Voters, NEW a \in VotedAssets, Unlock(u, a) PROVE BooksKept
  <2>1. voting_of' \in VotingsType
    BY <1>7, UnlockKeeps DEF DemocracyInv
  <2>2. voting_of'[u][a] \in VotingType
    BY <2>1 DEF VotingsType
  <2>3. LockedBalance(voting_of'[u][a]) \in Nat
    BY <2>2, LockEnough
  <2> QED
    BY <1>7, <2>3, LockLeavesBooks DEF Unlock, queueVars, enactVars
<1> QED
  BY <1>3, <1>4, <1>5, <1>6, <1>7 DEF VotingNext

(* One more account backs a proposal.                                      *)
LEMMA StakeGrows ==
    ASSUME NEW d \in DepositType, NEW u \in Voters, NEW e,
           e = [whos |-> Append(d.whos, u), amount |-> d.amount]
    PROVE  /\ e \in DepositType
           /\ \A w : StakeOf(e, w) = StakeOf(d, w) + (IF w = u THEN d.amount ELSE 0)
<1> DEFINE s == d.whos
           t == Append(s, u)
           N == Len(s)
<1>1. s \in Seq(Voters) /\ d.amount \in Nat /\ N \in Nat
  <2>1. s \in Seq(Voters) /\ d.amount \in Nat
    BY DEF DepositType
  <2> QED
    BY <2>1
<1>2. t \in Seq(Voters) /\ Len(t) = N + 1 /\ t[N + 1] = u /\ \A j \in 1..N : t[j] = s[j]
  BY <1>1
<1>3. e.whos = t /\ e.amount = d.amount /\ e \in DepositType
  <2> HIDE DEF t
  <2> QED
    BY <1>1, <1>2 DEF DepositType, t
<1> HIDE DEF s, t, N
<1>4. ASSUME NEW w PROVE StakeOf(e, w) = StakeOf(d, w) + (IF w = u THEN d.amount ELSE 0)
  <2> DEFINE x == Times(s, N, w)
             y == Times(t, N + 1, w)
             n == d.amount
  <2>1. Places(t, N, w) = Places(s, N, w)
    BY <1>2 DEF Places
  <2>2. Times(t, N, w) = x
    BY <2>1 DEF Times
  <2>3. x \in Nat
    BY <1>1, TimesFacts
  <2>4. y = x + (IF u = w THEN 1 ELSE 0)
    <3>1. N + 1 \in Nat /\ N + 1 \in 1..(N + 1) /\ (N + 1) - 1 = N
      BY <1>1
    <3>2. y = Times(t, (N + 1) - 1, w) + (IF t[N + 1] = w THEN 1 ELSE 0)
      BY <3>1, TimesFacts
    <3> QED
      BY <1>2, <2>2, <3>1, <3>2
  <2>5. StakeOf(d, w) = n * x /\ StakeOf(e, w) = n * y
    BY <1>2, <1>3, StakeIs DEF s, N
  <2>6. n \in Nat
    BY <1>1
  <2> HIDE DEF x, y, n
  <2>7. CASE w = u
    <3>1. n * (x + 1) = n * x + n
      BY <2>3, <2>6
    <3> QED
      BY <2>4, <2>5, <2>7, <3>1 DEF n
  <2>8. CASE w # u
    <3>1. y = x /\ n * x \in Nat
      BY <2>3, <2>4, <2>6, <2>8
    <3> QED
      BY <2>5, <2>8, <3>1
  <2> QED
    BY <2>7, <2>8
<1> QED
  BY <1>3, <1>4

LEMMA StakeReserved ==
    ASSUME NEW c, BooksTyped(c), NEW u \in Voters, NEW n \in Nat, NEW p \in PropIds,
           CanReserve(c.ledger, NativeAsset, u, n), NEW e \in DepositType,
           \A w : StakeOf(e, w) = StakeOf(c.deposits[p], w) + (IF w = u THEN n ELSE 0),
           NEW d, d.ledger = ReserveFunds(c.ledger, NativeAsset, u, n), d.pre = c.pre,
           d.deposits = [c.deposits EXCEPT ![p] = e]
    PROVE  KeepsBooks(c, d)
<1> DEFINE l == c.ledger
           m == d.ledger
           r(w) == l[NativeAsset][w].reserved
<1>1. c.deposits \in DepositsType /\ l \in Ledger /\ c.deposits[p] \in DepositType
  BY DEF BooksTyped, DepositsType
<1>2. /\ d.deposits \in DepositsType /\ d.deposits[p] = e
      /\ \A q \in PropIds \ {p} : d.deposits[q] = c.deposits[q]
  BY <1>1 DEF DepositsType
<1>3. FundsStay(l, m) /\ HoldFalls(l, m, u, 0 - n)
  BY <1>1, ReserveHolds, AccountsOf
<1>4. BooksTyped(d)
  BY <1>2, <1>3 DEF BooksTyped, FundsStay
<1>5. ASSUME NEW w \in Voters
      PROVE  m[NativeAsset][w].reserved
                = r(w) - StakeOf(c.deposits[p], w) + StakeOf(d.deposits[p], w)
  <2>1. r(w) \in Nat /\ w \in Accounts
    BY <1>1, EntryIn, AccountsOf
  <2>2. StakeOf(c.deposits[p], w) \in Nat
    BY <1>1, StakeIs
  <2>3. StakeOf(d.deposits[p], w) = StakeOf(c.deposits[p], w) + (IF w = u THEN n ELSE 0)
    BY <1>2
  <2>4. m[NativeAsset][w].reserved = r(w) + (IF w = u THEN n ELSE 0)
    <3>1. CASE w = u
      BY <1>3, <2>1, <3>1 DEF HoldFalls
    <3>2. CASE w # u
      BY <1>3, <2>1, <3>2 DEF HoldFalls
    <3> QED
      BY <3>1, <3>2
  <2> DEFINE x == StakeOf(c.deposits[p], w)
             y == StakeOf(d.deposits[p], w)
             k == IF w = u THEN n ELSE 0
  <2>5. k \in Nat
    OBVIOUS
  <2> HIDE DEF x, y, k, r
  <2> QED
    BY <2>1, <2>2, <2>3, <2>4, <2>5 DEF x, y, k
<1>6. Balanced(c) => Balanced(d)
  BY <1>2, <1>4, <1>5, DepositBooked
<1> QED
  BY <1>3, <1>4, <1>6 DEF KeepsBooks

LEMMA ProposeBooked ==
    ASSUME BooksInv, NEW u \in Voters, NEW id, NEW n \in Nat, Propose(u, id, n)
    PROVE  BooksKept
<1> DEFINE p == public_prop_count
           none == [whos |-> <<>>, amount |-> n]
           e == [whos |-> <<u>>, amount |-> n]
<1>1. p \in PropIds /\ p \in Nat
  <2>1. MaxPublicProps \in Nat /\ p \in 0..MaxPublicProps /\ p < MaxPublicProps
    BY DemocracyTypes DEF Propose, QueuesTyped, BooksInv, StagesInv, DemocracyInv
  <2> QED
    BY <2>1 DEF PropIds
<1>2. deposit_of[p] = NoDeposit
  BY <1>1 DEF BooksInv, Unmade
<1>3. none \in DepositType /\ \A w : StakeOf(none, w) = 0
  <2>1. none \in DepositType /\ none.amount = n /\ Len(none.whos) = 0
    BY DEF DepositType
  <2> SUFFICES ASSUME NEW w PROVE StakeOf(none, w) = 0
    BY <2>1
  <2> HIDE DEF none
  <2>2. Times(none.whos, 0, w) = 0
    BY TimesFacts
  <2>3. StakeOf(none, w) = n * 0
    BY <2>1, <2>2, StakeIs
  <2> QED
    BY <2>3
<1>4. e = [whos |-> Append(none.whos, u), amount |-> none.amount] /\ none.amount = n
  OBVIOUS
<1>5. e \in DepositType /\ \A w : StakeOf(e, w) = StakeOf(none, w) + (IF w = u THEN n ELSE 0)
  <2> HIDE DEF none, e
  <2> QED
    BY <1>3, <1>4, StakeGrows
<1>6. /\ CanReserve(ledger, NativeAsset, u, n) /\ ledger' = ReserveFunds(ledger, NativeAsset, u, n)
      /\ deposit_of' = [deposit_of EXCEPT ![p] = e] /\ public_prop_count' = p + 1
      /\ preimages' = preimages
  BY DEF Propose, queueFrame, enactVars
<1> HIDE DEF p, none, e
<1>7. \A w : StakeOf(e, w) = StakeOf(deposit_of[p], w) + (IF w = u THEN n ELSE 0)
  BY <1>2, <1>3, <1>5, NothingStaked
<1>8. KeepsBooks(ChainNow, ChainNow')
  <2> DEFINE c == ChainNow
             d == ChainNow'
  <2>1. /\ c.ledger = ledger /\ c.deposits = deposit_of /\ d.ledger = ledger'
        /\ d.deposits = deposit_of' /\ d.pre = c.pre /\ BooksTyped(c)
    BY <1>6, NowIs DEF BooksInv
  <2> SUFFICES KeepsBooks(c, d)
    OBVIOUS
  <2> HIDE DEF c, d
  <2>2. e \in DepositType
    BY <1>5
  <2>3. \A w : StakeOf(e, w) = StakeOf(c.deposits[p], w) + (IF w = u THEN n ELSE 0)
    BY <1>7, <2>1
  <2>4. CanReserve(c.ledger, NativeAsset, u, n)
        /\ d.ledger = ReserveFunds(c.ledger, NativeAsset, u, n)
        /\ d.deposits = [c.deposits EXCEPT ![p] = e]
    BY <1>6, <2>1
  <2> QED
    BY <1>1, <2>1, <2>2, <2>3, <2>4, StakeReserved
<1>9. ASSUME NEW q \in PropIds, q >= p + 1 PROVE deposit_of'[q] = NoDeposit
  <2>1. q # p /\ q >= p
    <3>1. q \in Int
      BY DEF PropIds
    <3> QED
      BY <1>1, <1>9, <3>1
  <2>2. deposit_of \in DepositsType
    BY NowIs DEF BooksInv, BooksTyped
  <2>3. deposit_of'[q] = deposit_of[q]
    BY <1>6, <2>1, <2>2 DEF DepositsType
  <2> QED
    BY <2>1, <2>3 DEF BooksInv, Unmade, p
<1>10. Unmade'
  BY <1>6, <1>9 DEF Unmade
<1> QED
  BY <1>8, <1>10 DEF BooksKept

LEMMA SecondBooked ==
    ASSUME BooksInv, NEW u \in Voters, NEW p \in PropIds, NEW n, Second(u, p, n)
    PROVE  BooksKept
<1> DEFINE old == deposit_of[p]
           e == [whos |-> Append(old.whos, u), amount |-> old.amount]
<1>1. deposit_of \in DepositsType /\ old \in DepositType /\ old.amount \in Nat
  <2>1. deposit_of \in DepositsType
    BY NowIs DEF BooksInv, BooksTyped
  <2>2. old \in DepositType
    BY <2>1 DEF DepositsType
  <2> HIDE DEF old
  <2> QED
    BY <2>1, <2>2 DEF DepositType
<1>2. [old EXCEPT !.whos = Append(old.whos, u)] = e
  <2> HIDE DEF old
  <2> QED
    BY <1>1 DEF DepositType
<1>3. /\ CanReserve(ledger, NativeAsset, u, old.amount)
      /\ ledger' = ReserveFunds(ledger, NativeAsset, u, old.amount)
      /\ deposit_of' = [deposit_of EXCEPT ![p] = [old EXCEPT !.whos = Append(old.whos, u)]]
      /\ public_prop_count' = public_prop_count /\ preimages' = preimages /\ old # NoDeposit
  BY DEF Second, queueFrame, enactVars
<1>4. e \in DepositType /\ \A w : StakeOf(e, w) = StakeOf(old, w) + (IF w = u THEN old.amount ELSE 0)
  <2>1. e = [whos |-> Append(old.whos, u), amount |-> old.amount]
    OBVIOUS
  <2>2. old \in DepositType
    BY <1>1
  <2> HIDE DEF old, e
  <2> QED
    BY <2>1, <2>2, StakeGrows
<1> HIDE DEF e
<1>5. deposit_of' = [deposit_of EXCEPT ![p] = e]
  BY <1>2, <1>3
<1>6. KeepsBooks(ChainNow, ChainNow')
  <2> DEFINE c == ChainNow
             d == ChainNow'
             stake == old.amount
  <2>1. /\ c.ledger = ledger /\ c.deposits = deposit_of /\ d.ledger = ledger'
        /\ d.deposits = deposit_of' /\ d.pre = c.pre /\ BooksTyped(c)
    BY <1>3, NowIs DEF BooksInv
  <2>2. stake \in Nat /\ CanReserve(c.ledger, NativeAsset, u, stake)
        /\ d.ledger = ReserveFunds(c.ledger, NativeAsset, u, stake)
        /\ d.deposits = [c.deposits EXCEPT ![p] = e]
    BY <1>1, <1>3, <1>5, <2>1
  <2>3. e \in DepositType
    BY <1>4
  <2>4. \A w : StakeOf(e, w) = StakeOf(c.deposits[p], w) + (IF w = u THEN stake ELSE 0)
    BY <1>4, <2>1
  <2> SUFFICES KeepsBooks(c, d)
    OBVIOUS
  <2> HIDE DEF c, d, stake, old
  <2> QED
    BY <2>1, <2>2, <2>3, <2>4, StakeReserved
<1>7. ASSUME NEW q \in PropIds, q >= public_prop_count PROVE deposit_of'[q] = NoDeposit
  <2>1. deposit_of[q] = NoDeposit
    BY <1>7 DEF BooksInv, Unmade
  <2>2. q # p
    BY <1>3, <2>1
  <2> QED
    BY <1>1, <1>5, <2>1, <2>2 DEF DepositsType
<1>8. Unmade'
  BY <1>3, <1>7 DEF Unmade
<1> QED
  BY <1>6, <1>8 DEF BooksKept

LEMMA SlashBooked ==
    ASSUME BooksInv, NEW p \in PropIds, ledger' = SlashedAll(ledger, deposit_of[p]),
           deposit_of' = [deposit_of EXCEPT ![p] = NoDeposit],
           UNCHANGED <<preimages, public_prop_count>>
    PROVE  BooksKept
<1>1. ledger' = PaidOut(ledger, deposit_of[p], TRUE)
  BY DEF SlashedAll
<1>2. KeepsBooks(ChainNow, ChainNow') /\ Returns(ChainNow, ChainNow')
  <2> DEFINE c == ChainNow
             d == ChainNow'
  <2>1. /\ d.ledger = PaidOut(c.ledger, c.deposits[p], TRUE) /\ d.pre = c.pre
        /\ d.deposits = [c.deposits EXCEPT ![p] = NoDeposit] /\ BooksTyped(c)
    BY <1>1, NowIs DEF BooksInv
  <2> SUFFICES KeepsBooks(c, d) /\ Returns(c, d)
    OBVIOUS
  <2> HIDE DEF c, d
  <2> QED
    BY <2>1, DepositSettled
<1> QED
  BY <1>2, UnmadeStays DEF BooksKept

LEMMA BlacklistBooked ==
    ASSUME BooksInv, NEW id \in ProposalIds, NEW refs, BlacklistProposal(id, refs)
    PROVE  BooksKept
<1> DEFINE hits == {k \in DOMAIN public_props : public_props[k].id = id}
           first == Min(hits)
           p == public_props[first].index
<1>1. public_props \in Seq(PropType)
  BY DEF BooksInv, StagesInv, DemocracyInv, QueuesTyped
<1>2. UNCHANGED <<preimages, public_prop_count>>
  BY DEF BlacklistProposal, enactVars
<1>3. CASE hits = {}
  BY <1>2, <1>3, BooksUntouched DEF BlacklistProposal
<1>4. CASE hits # {}
  <2>1. /\ ledger' = SlashedAll(ledger, deposit_of[p])
        /\ deposit_of' = [deposit_of EXCEPT ![p] = NoDeposit]
    BY <1>4 DEF BlacklistProposal
  <2>2. hits \subseteq Nat /\ hits \subseteq DOMAIN public_props
    <3>1. DOMAIN public_props \subseteq Nat
      BY <1>1
    <3> QED
      BY <3>1
  <2> HIDE DEF hits
  <2>3. \E x \in hits : \A y \in hits : x <= y
    BY <1>4, <2>2, SmallestSize
  <2>4. first \in DOMAIN public_props
    BY <2>2, <2>3 DEF Min
  <2> HIDE DEF first
  <2>5. public_props[first] \in PropType
    BY <1>1, <2>4
  <2>6. p \in PropIds
    BY <2>5 DEF PropType
  <2> HIDE DEF p
  <2> QED
    BY <1>2, <2>1, <2>6, SlashBooked
<1> QED
  BY <1>3, <1>4

LEMMA QueueBooked ==
    ASSUME BooksInv, QueueNext(Voters)
    PROVE  BooksKept
<1>1. ASSUME NEW u \in Voters, NEW id, Propose(u, id, MinimumDeposit_) PROVE BooksKept
  <2>1. MinimumDeposit_ \in Nat
    BY DemocracyTypes
  <2> QED
    BY <1>1, <2>1, ProposeBooked
<1>2. ASSUME NEW u \in Voters, NEW p \in PropIds, Second(u, p, MaxPublicProps) PROVE BooksKept
  BY <1>2, SecondBooked
<1>3. ASSUME NEW p \in PropIds, CancelProposal(p) PROVE BooksKept
  BY <1>3, SlashBooked DEF CancelProposal, queueFrame, enactVars
<1>4. ASSUME NEW u, NEW id, NEW t, NEW i, NEW period, NEW delay,
             \/ ClearPublicProposals \/ ExternalPropose(id) \/ ExternalProposeReplacing(id, t)
             \/ VetoExternal(u, id) \/ FastTrack(id, period, delay)
             \/ CancelReferendum(i) \/ EmergencyCancel(i)
      PROVE  BooksKept
  BY <1>4, BooksUntouched DEF ClearPublicProposals, ExternalPropose, ExternalProposeReplacing,
     VetoExternal, FastTrack, CancelReferendum, EmergencyCancel, queueFrame, queueVars, enactVars
<1> QED
  BY <1>1, <1>2, <1>3, <1>4, BlacklistBooked DEF QueueNext

LEMMA NotedBooked ==
    ASSUME BooksInv, NEW u \in Voters, NEW id \in ProposalIds, NotePreimage(u, id)
    PROVE  BooksKept
<1> DEFINE n == PreimageDeposit
           q == Noted(u, n, 0)
           c == ChainNow
           d == ChainNow'
           r(w) == ledger[NativeAsset][w].reserved
<1>1. n \in Nat /\ now \in Nat
  BY DemocracyTypes DEF BooksInv, StagesInv, DemocracyInv, CountsTyped
<1>2. q \in PreimageType /\ \A w : PutDownBy(q, w) = IF w = u THEN n ELSE 0
  BY <1>1 DEF Noted, PreimageType, PutDownBy
<1>3. /\ preimages[id] = NoPreimage /\ CanReserve(ledger, NativeAsset, u, n)
      /\ ledger' = ReserveFunds(ledger, NativeAsset, u, n)
      /\ preimages' = [preimages EXCEPT ![id] = q]
      /\ UNCHANGED <<deposit_of, public_prop_count>>
  BY DEF NotePreimage, preimageFrame, queueVars
<1>4. /\ c.ledger = ledger /\ c.deposits = deposit_of /\ c.pre = preimages
      /\ d.ledger = ledger' /\ d.deposits = deposit_of /\ d.pre = preimages'
      /\ BooksTyped(c) /\ ledger \in Ledger /\ preimages \in PreimagesType
  BY <1>3, NowIs DEF BooksInv, BooksTyped
<1> SUFFICES KeepsBooks(c, d) /\ Returns(c, d)
  BY <1>3, UnmadeStays DEF BooksKept
<1> HIDE DEF n, q, c, d
<1>5. FundsStay(ledger, ledger') /\ HoldFalls(ledger, ledger', u, 0 - n)
  BY <1>1, <1>3, <1>4, ReserveHolds, AccountsOf
<1>6. /\ d.pre \in PreimagesType /\ d.pre[id] = q
      /\ \A x \in ProposalIds \ {id} : d.pre[x] = c.pre[x]
  BY <1>2, <1>3, <1>4 DEF PreimagesType
<1>7. BooksTyped(d)
  BY <1>4, <1>5, <1>6 DEF BooksTyped, FundsStay
<1>8. ASSUME NEW w \in Voters
      PROVE  d.ledger[NativeAsset][w].reserved = c.ledger[NativeAsset][w].reserved
                - PutDownBy(c.pre[id], w) + PutDownBy(d.pre[id], w)
  <2>1. r(w) \in Nat /\ w \in Accounts
    BY <1>4, EntryIn, AccountsOf
  <2>2. PutDownBy(c.pre[id], w) = 0 /\ PutDownBy(d.pre[id], w) = IF w = u THEN n ELSE 0
    BY <1>2, <1>3, <1>4, <1>6, NothingPutDown
  <2>3. CASE w = u
    <3>1. d.ledger[NativeAsset][w].reserved = r(w) - (0 - n)
      BY <1>4, <1>5, <2>3 DEF HoldFalls
    <3> QED
      BY <1>1, <1>4, <2>1, <2>2, <2>3, <3>1
  <2>4. CASE w # u
    <3>1. d.ledger[NativeAsset][w].reserved = r(w)
      BY <1>4, <1>5, <2>1, <2>4 DEF HoldFalls
    <3> QED
      BY <1>4, <2>1, <2>2, <2>4, <3>1
  <2> QED
    BY <2>3, <2>4
<1>9. Balanced(c) => Balanced(d)
  <2>1. d.deposits = c.deposits
    BY <1>4
  <2> QED
    BY <1>4, <1>6, <1>7, <1>8, <2>1, PreimageBooked
<1>10. Returns(c, d)
  BY <1>4 DEF Returns
<1> QED
  BY <1>4, <1>5, <1>7, <1>9, <1>10 DEF KeepsBooks

(* An imminent preimage is noted without a deposit.                        *)
LEMMA ImminentBooked ==
    ASSUME BooksInv, NEW u \in Voters, NEW id \in ProposalIds, NoteImminentPreimage(u, id)
    PROVE  BooksKept
<1> DEFINE q == Noted(u, 0, preimages[id].expiry)
           c == ChainNow
           d == ChainNow'
<1>1. now \in Nat
  BY DEF BooksInv, StagesInv, DemocracyInv, CountsTyped
<1>2. /\ preimages[id].kind = "missing" /\ ledger' = ledger
      /\ preimages' = [preimages EXCEPT ![id] = q]
      /\ UNCHANGED <<deposit_of, public_prop_count>>
  BY DEF NoteImminentPreimage, preimageFrame, queueVars
<1>3. /\ c.ledger = ledger /\ c.deposits = deposit_of /\ c.pre = preimages
      /\ d.ledger = ledger /\ d.deposits = deposit_of /\ d.pre = preimages'
      /\ BooksTyped(c) /\ ledger \in Ledger /\ preimages \in PreimagesType
  BY <1>2, NowIs DEF BooksInv, BooksTyped
<1>4. preimages[id] \in PreimageType
  BY <1>3 DEF PreimagesType
<1>5. preimages[id].expiry \in Nat /\ \A w : PutDownBy(preimages[id], w) = 0
  BY <1>2, <1>4 DEF PreimageType, NoPreimage, PutDownBy
<1>6. q \in PreimageType /\ \A w : PutDownBy(q, w) = 0
  BY <1>1, <1>5 DEF Noted, PreimageType, PutDownBy
<1> SUFFICES KeepsBooks(c, d) /\ Returns(c, d)
  BY <1>2, UnmadeStays DEF BooksKept
<1> HIDE DEF q, c, d
<1>7. /\ d.pre \in PreimagesType /\ d.pre[id] = q
      /\ \A x \in ProposalIds \ {id} : d.pre[x] = c.pre[x]
  BY <1>2, <1>3, <1>6 DEF PreimagesType
<1>8. BooksTyped(d)
  BY <1>3, <1>7 DEF BooksTyped
<1>9. ASSUME NEW w \in Voters
      PROVE  d.ledger[NativeAsset][w].reserved = c.ledger[NativeAsset][w].reserved
                - PutDownBy(c.pre[id], w) + PutDownBy(d.pre[id], w)
  <2>1. ledger[NativeAsset][w].reserved \in Nat
    BY <1>3, EntryIn, AccountsOf
  <2>2. PutDownBy(c.pre[id], w) = 0 /\ PutDownBy(d.pre[id], w) = 0
    BY <1>3, <1>5, <1>6, <1>7
  <2> QED
    BY <1>3, <2>1, <2>2
<1>10. Balanced(c) => Balanced(d)
  <2>1. d.deposits = c.deposits
    BY <1>3
  <2> QED
    BY <1>3, <1>7, <1>8, <1>9, <2>1, PreimageBooked
<1>11. Returns(c, d) /\ FundsStay(c.ledger, d.ledger)
  BY <1>3, FundsStayAlike DEF Returns
<1> QED
  BY <1>8, <1>10, <1>11 DEF KeepsBooks

LEMMA ReapBooked ==
    ASSUME BooksInv, NEW u \in Voters, NEW id \in ProposalIds, ReapPreimage(u, id)
    PROVE  BooksKept
<1> DEFINE p == preimages[id]
           c == ChainNow
           d == ChainNow'
<1>1. /\ p.kind = "available" /\ TotalBalance(ledger, NativeAsset, u) > 0
      /\ ledger' = TransferHeld(ledger, p.provider, u, p.deposit)
      /\ preimages' = [preimages EXCEPT ![id] = NoPreimage]
      /\ UNCHANGED <<deposit_of, public_prop_count>>
  BY DEF ReapPreimage, preimageFrame, queueVars
<1>2. /\ c.ledger = ledger /\ c.deposits = deposit_of /\ c.pre = preimages
      /\ d.ledger = ledger' /\ d.deposits = deposit_of /\ d.pre = preimages'
      /\ BooksTyped(c) /\ ledger \in Ledger /\ preimages \in PreimagesType
  BY <1>1, NowIs DEF BooksInv, BooksTyped
<1>3. p.provider \in Voters /\ p.deposit \in Nat
  <2>1. p \in PreimageType
    BY <1>2 DEF PreimagesType
  <2> QED
    BY <1>1, <2>1, PutDownIs
<1>4. p.provider \in Accounts /\ p.provider # Treasury /\ u \in Accounts
  BY <1>3, AccountsOf
<1> SUFFICES KeepsBooks(c, d) /\ Returns(c, d)
  BY <1>1, UnmadeStays DEF BooksKept
<1>5. p = c.pre[id]
  BY <1>2
<1> HIDE DEF p, c, d
<1>6. /\ FundsStay(ledger, ledger')
      /\ p.deposit <= ledger[NativeAsset][p.provider].reserved
            /\ (p.provider = u \/ TotalBalance(ledger, NativeAsset, u) > 0)
            => HoldFalls(ledger, ledger', p.provider, p.deposit)
  BY <1>1, <1>2, <1>3, <1>4, TransferHeldStays
<1>7. /\ FundsStay(c.ledger, d.ledger)
      /\ p.deposit <= c.ledger[NativeAsset][p.provider].reserved
            => HoldFalls(c.ledger, d.ledger, p.provider, p.deposit)
  BY <1>1, <1>2, <1>6
<1>8. d.deposits = c.deposits /\ d.pre = [c.pre EXCEPT ![id] = NoPreimage]
  BY <1>1, <1>2
<1>9. KeepsBooks(c, d)
  <2>1. p.kind = "available"
    BY <1>1
  <2>2. BooksTyped(c)
    BY <1>2
  <2>3. FundsStay(c.ledger, d.ledger)
    BY <1>7
  <2>4. TotalBalance(c.ledger, NativeAsset, Treasury) > 0
           /\ p.deposit <= c.ledger[NativeAsset][p.provider].reserved
           => HoldFalls(c.ledger, d.ledger, p.provider, p.deposit)
    BY <1>7
  <2>5. d.deposits = c.deposits
    BY <1>8
  <2>6. d.pre = [c.pre EXCEPT ![id] = NoPreimage]
    BY <1>8
  <2> QED
    BY <1>5, <2>1, <2>2, <2>3, <2>4, <2>5, <2>6, PreimageSettled
<1> QED
  BY <1>8, <1>9 DEF Returns

LEMMA BlockBooked ==
    ASSUME BooksInv, BeginBlock
    PROVE  BooksKept
<1> USE DEF BooksInv, StagesInv, DemocracyInv
<1> DEFINE n == now + 1
           last == referendum_count
           c == ChainNow
           enacted == EnactDue(c, n)
           launched == IF n % LaunchPeriod = 0 THEN LaunchNext(enacted, n) ELSE enacted
           baked == BakeAll(launched, n, last)
           d == ChainNow'
<1>1. /\ d.ledger = baked.ledger /\ d.deposits = baked.deposits /\ d.pre = baked.pre
      /\ public_prop_count' = public_prop_count
  BY DEF BeginBlock, ChainNow
<1>2. n % LaunchPeriod = 0 /\ last = MaxReferenda => next_external = <<>> /\ public_props = <<>>
  BY DEF BeginBlock
<1>3. ChainTypeOK(c) /\ c.count = last /\ c.external = next_external
      /\ c.props = public_props /\ IsChain(c) /\ c.agenda \in Seq(AgendaType) /\ BooksTyped(c)
  BY DEF ChainTypeOK, ChainNow, IsChain, QueuesTyped, LocksTyped, CountsTyped, Coherent
<1>4. n \in Nat /\ last \in 0..MaxReferenda /\ lowest_unbaked \in Nat
  BY DemocracyTypes DEF CountsTyped
<1>5. OnlyPays(c, enacted) /\ ChainTypeOK(enacted) /\ KeepsChain(c, enacted)
  BY <1>3, EnactDuePays, OnlyPaysKeepsType, EnactDueBooks DEF ChainTypeOK
<1> SUFFICES KeepsBooks(c, d) /\ Returns(c, d)
  BY <1>1, UnmadeStays DEF BooksKept
<1> HIDE DEF enacted, n, c, d
<1>6. BooksTyped(enacted)
  BY <1>5 DEF KeepsChain, KeepsBooks
<1>7. ChainTypeOK(launched) /\ KeepsChain(enacted, launched)
  <2>1. CASE n % LaunchPeriod = 0
    <3>1. enacted.count = MaxReferenda => enacted.external = <<>> /\ enacted.props = <<>>
      BY <1>2, <1>3, <1>5, <2>1 DEF OnlyPays
    <3>2. launched = LaunchNext(enacted, n)
      BY <2>1
    <3> HIDE DEF launched
    <3> QED
      BY <1>4, <1>5, <1>6, <3>1, <3>2, LaunchNextOpens, LaunchNextBooks DEF Launches
  <2>2. CASE n % LaunchPeriod # 0
    <3>1. launched = enacted
      BY <2>2
    <3> HIDE DEF launched
    <3> QED
      BY <1>5, <1>6, <3>1, BooksAlike DEF KeepsChain, ChainTypeOK
  <2> QED
    BY <2>1, <2>2
<1> HIDE DEF launched, last
<1>8. KeepsChain(c, launched) /\ BooksTyped(launched)
  BY <1>3, <1>5, <1>7, KeepsChainTwice DEF KeepsChain, KeepsBooks
<1>9. KeepsChain(launched, baked)
  BY <1>4, <1>7, <1>8, BakeAllBooks
<1> HIDE DEF baked
<1>10. KeepsChain(c, baked) /\ BooksTyped(baked)
  BY <1>3, <1>8, <1>9, KeepsChainTwice DEF KeepsChain, KeepsBooks
<1>11. KeepsBooks(baked, d) /\ Returns(baked, d)
  BY <1>1, <1>10, BooksAlike
<1> QED
  BY <1>3, <1>10, <1>11, KeepsBooksTwice DEF KeepsChain

LEMMA BooksSteps ==
    ASSUME BooksInv, [DemocracyNext]_<<now, ledger, democracyVars, origins_by_asset_id>>
    PROVE  BooksInv' /\ BooksKept
<1>1. StagesInv'
  BY StagesSteps DEF BooksInv
<1>2. BooksKept
  <2>1. CASE RegistryNext \/ UNCHANGED <<now, ledger, democracyVars, origins_by_asset_id>>
    <3>1. UNCHANGED <<ledger, democracyVars>>
      BY <2>1 DEF RegistryNext
    <3> QED
      BY <3>1, BooksUntouched DEF democracyVars, queueVars, enactVars
  <2>2. ASSUME NEW i, CancelQueued(i) PROVE BooksKept
    BY <2>2, BooksUntouched DEF CancelQueued, queueVars
  <2>3. CASE EnactNext(Voters)
    BY <2>2, <2>3, NotedBooked, ImminentBooked, ReapBooked DEF EnactNext
  <2> QED
    BY <2>1, <2>3, VotingLeavesBooks, QueueBooked, BlockBooked DEF DemocracyNext
<1>3. BooksTyped(ChainNow)'
  BY <1>2 DEF BooksKept, KeepsBooks
<1> QED
  BY <1>1, <1>2, <1>3 DEF BooksInv, BooksKept

LEMMA BooksStart ==
    ASSUME ChainInit, RegistryInit, DemocracyInit
    PROVE  BooksInv /\ Balanced(ChainNow)
<1>1. StagesInv
  BY StagesStart
<1>2. \A n \in Nat : Holding(n) \in Entry /\ Holding(n).reserved = 0
  BY DEF Holding, NoFunds, Entry
<1>3. ledger \in Ledger /\ \A a \in AssetIds, u \in Accounts : ledger[a][u].reserved = 0
  <2>1. \A a \in AssetIds, u \in Accounts : \E n \in Nat : ledger[a][u] = Holding(n)
    BY DEF ChainInit
  <2>2. ledger = [a \in AssetIds |-> [u \in Accounts |-> ledger[a][u]]]
    BY DEF ChainInit
  <2> QED
    BY <1>2, <2>1, <2>2 DEF Ledger
<1>4. deposit_of \in DepositsType /\ preimages \in PreimagesType
      /\ (\A p \in PropIds : deposit_of[p] = NoDeposit)
      /\ (\A id \in ProposalIds : preimages[id] = NoPreimage)
  BY NoDepositFits, NothingPutDown DEF DemocracyInit, DepositsType, PreimagesType
<1>5. BooksTyped(ChainNow)
  BY <1>3, <1>4, NowIs DEF BooksTyped
<1>6. Unmade
  BY <1>4 DEF Unmade
<1>7. ASSUME NEW u \in Voters PROVE Staked(deposit_of, u) = 0 /\ PutDown(preimages, u) = 0
  <2>1. \A p \in PropIds : Stakes(deposit_of, u)[p] = 0
    BY <1>4, NothingStaked DEF Stakes
  <2>2. \A id \in ProposalIds : PutDowns(preimages, u)[id] = 0
    BY <1>4, NothingPutDown DEF PutDowns
  <2> QED
    BY <2>1, <2>2, FiniteIds, SumZero DEF Staked, PutDown
<1>8. \A u \in Voters : ledger[NativeAsset][u].reserved = 0
  BY <1>3, AccountsOf
<1>9. Balanced(ChainNow)
  BY <1>7, <1>8, NowIs DEF Balanced
<1> QED
  BY <1>1, <1>5, <1>6, <1>9 DEF BooksInv

LEMMA BalancedIs == DepositsHeld <=> Balanced(ChainNow)
<1>1. \A u \in Voters : HeldFor(u) = Staked(deposit_of, u) + PutDown(preimages, u)
  BY DEF HeldFor, Staked, PutDown, Stakes, PutDowns, SumFunction
<1> QED
  BY <1>1, NowIs DEF DepositsHeld, Balanced

(* What each account has on hold is at all times the sum of its deposits   *)
(* on record, on proposals it made or seconded and on preimages, through   *)
(* slashes, refunds and blocks: no deposit is kept when its record goes,   *)
(* and none is paid twice.  A slash goes to the treasury, and a hold is    *)
(* only moved to an account that exists: so the treasury must.             *)
THEOREM DepositsAreHeld ==
    DemocracySpec /\ TotalBalance(ledger, NativeAsset, Treasury) > 0 => []DepositsHeld
<1> DEFINE Kept == /\ BooksInv /\ Balanced(ChainNow)
                   /\ TotalBalance(ledger, NativeAsset, Treasury) > 0
<1>1. ChainInit /\ RegistryInit /\ DemocracyInit
         /\ TotalBalance(ledger, NativeAsset, Treasury) > 0 => Kept
  BY BooksStart
<1>2. Kept /\ [DemocracyNext]_<<now, ledger, democracyVars, origins_by_asset_id>> => Kept'
  <2> SUFFICES ASSUME BooksInv, Balanced(ChainNow),
                      TotalBalance(ledger, NativeAsset, Treasury) > 0,
                      [DemocracyNext]_<<now, ledger, democracyVars, origins_by_asset_id>>
               PROVE  Kept'
    OBVIOUS
  <2>1. BooksInv' /\ KeepsBooks(ChainNow, ChainNow')
    BY BooksSteps DEF BooksKept
  <2>2. Balanced(ChainNow')
    BY <2>1, NowIs DEF KeepsBooks
  <2>3. TotalBalance(ledger', NativeAsset, Treasury) > 0
    <3> DEFINE x == TotalBalance(ledger, NativeAsset, Treasury)
               y == TotalBalance(ledger', NativeAsset, Treasury)
    <3>1. ledger \in Ledger /\ ledger' \in Ledger /\ y >= x
      BY <2>1, NowIs DEF BooksInv, BooksTyped, KeepsBooks, FundsStay
    <3>2. x \in Nat /\ y \in Nat
      BY <3>1, EntryIn, AccountsOf
    <3>3. x > 0
      OBVIOUS
    <3> HIDE DEF x, y
    <3>4. y > 0
      BY <3>1, <3>2, <3>3
    <3> QED
      BY <3>4 DEF y
  <2>4. TotalBalance(ledger, NativeAsset, Treasury)' > 0
    BY <2>3 DEF TotalBalance
  <2>5. Balanced(ChainNow)'
    BY <2>2
  <2> QED
    BY <2>1, <2>4, <2>5
<1>3. Kept => DepositsHeld
  BY BalancedIs
<1> QED
  BY <1>1, <1>2, <1>3, PTL DEF DemocracySpec

-----------------------------------------------------------------------------
(* Nothing is voted with an asset that nobody has.                         *)

NoStake(V, b) == \A u \in Voters : Covered(V[u][b], 0)

LEMMA StakeSet ==
    ASSUME NEW V \in VotingsType, NEW u \in Voters, NEW a \in VotedAssets, NEW y \in VotingType,
           NEW W, SetsVoting(V, u, a, y, W), NEW b \in VotedAssets, NoStake(V, b),
           a = b => Covered(y, 0)
    PROVE  W \in VotingsType /\ NoStake(W, b)
<1>1. /\ W \in VotingsType /\ W[u][a] = y
      /\ \A w \in Voters, c \in VotedAssets : w # u \/ c # a => W[w][c] = V[w][c]
  BY VotingSet
<1>2. ASSUME NEW w \in Voters PROVE Covered(W[w][b], 0)
  <2>1. CASE w = u /\ b = a
    BY <1>1, <2>1
  <2>2. CASE w # u \/ b # a
    BY <1>1, <2>2 DEF NoStake
  <2> QED
    BY <2>1, <2>2
<1> QED
  BY <1>1, <1>2 DEF NoStake

LEMMA RevotedStake ==
    ASSUME NEW x \in VotingType, x.kind = "direct", Covered(x, 0), NEW i \in RefIds, NEW v,
           v = NoVote \/ VoteBalance(v) = 0, NEW y, Revoted(x, i, v, y)
    PROVE  Covered(y, 0)
<1>1. x.votes \in [RefIds -> AccountVotes \cup {NoVote}]
  BY VotingFields
<1>2. y.kind = "direct" /\ y.votes[i] = v /\ \A j \in RefIds \ {i} : y.votes[j] = x.votes[j]
  BY <1>1 DEF Revoted
<1>3. ASSUME NEW j \in VotedOn(y) PROVE 0 >= VoteBalance(y.votes[j])
  <2>1. CASE j = i
    BY <1>2, <2>1 DEF VotedOn
  <2>2. CASE j # i
    BY <1>2, <2>2 DEF VotedOn, Covered
  <2> QED
    BY <2>1, <2>2
<1> QED
  BY <1>2, <1>3 DEF Covered

LEMMA VoteStakes ==
    ASSUME DemocracyInv, ledger \in Ledger, NEW b \in VotedAssets, Penniless(ledger, b),
           NoStake(voting_of, b), NEW u \in Voters, NEW i \in RefIds, NEW v \in AccountVotes,
           Vote(u, i, v)
    PROVE  NoStake(voting_of', b)
<1> USE DEF DemocracyInv
<1> DEFINE s == referendum_info[i]
           a == s.id[2]
           x == voting_of[u][a]
           y == [x EXCEPT !.votes[i] = v, !.prior = x.prior]
<1>1. Ongoing(i) /\ x.kind = "direct" /\ VoteBalance(v) <= ledger[a][u].free
  BY DEF Vote
<1>2. a \in VotedAssets
  BY <1>1, TallyNow
<1>3. x \in VotingType /\ x.prior \in PriorType
  BY <1>2, VotingFields DEF VotingsType
<1>4. SetsVoting(voting_of, u, a, y, voting_of')
  <2>1. voting_of' = [voting_of EXCEPT ![u][a].votes[i] = v]
    BY DEF Vote
  <2>2. y = [x EXCEPT !.votes[i] = v]
    <3> HIDE DEF x
    <3> QED
      BY <1>1, <1>3 DEF VotingType
  <2> HIDE DEF y
  <2> QED
    BY <2>1, <2>2 DEF SetsVoting
<1> HIDE DEF a
<1>5. Revoted(x, i, v, y)
  <2> HIDE DEF x
  <2> QED
    BY <1>1, <1>3, VoteWritten
<1>6. a = b => Covered(y, 0)
  <2> SUFFICES ASSUME a = b PROVE Covered(y, 0)
    OBVIOUS
  <2>1. ledger[a][u].free = 0 /\ VoteBalance(v) \in Nat
    BY AccountsOf, VoteFacts DEF Penniless
  <2>2. VoteBalance(v) = 0 /\ Covered(x, 0)
    BY <1>1, <2>1 DEF NoStake
  <2> HIDE DEF x, y
  <2> QED
    BY <1>1, <1>3, <1>5, <2>2, RevotedStake
<1>7. y \in VotingType
  BY <1>5 DEF Revoted
<1> HIDE DEF x, y
<1> QED
  BY <1>2, <1>4, <1>6, <1>7, StakeSet

LEMMA RemoveStakes ==
    ASSUME DemocracyInv, NEW b \in VotedAssets, NoStake(voting_of, b), NEW u \in Voters,
           NEW a \in VotedAssets, NEW i \in RefIds, NEW byOther, RemoveVote(u, a, i, byOther)
    PROVE  NoStake(voting_of', b)
<1> DEFINE x == voting_of[u][a]
<1>1. PICK y : Revotes(voting_of, u, a, i, NoVote, y, voting_of')
  BY VoteRemoved
<1>2. /\ voting_of \in VotingsType /\ x.kind = "direct" /\ Revoted(x, i, NoVote, y)
      /\ SetsVoting(voting_of, u, a, y, voting_of')
  BY <1>1 DEF Revotes
<1>3. x \in VotingType /\ y \in VotingType
  BY <1>2 DEF VotingsType, Revoted
<1>4. a = b => Covered(x, 0)
  BY DEF NoStake
<1> HIDE DEF x
<1>5. a = b => Covered(y, 0)
  BY <1>2, <1>3, <1>4, RevotedStake
<1> QED
  BY <1>2, <1>3, <1>5, StakeSet

LEMMA UnlockStakes ==
    ASSUME DemocracyInv, NEW b \in VotedAssets, NoStake(voting_of, b), NEW u \in Voters,
           NEW a \in VotedAssets, Unlock(u, a)
    PROVE  NoStake(voting_of', b)
<1> DEFINE x == voting_of[u][a]
           y == Rejig(x)
<1>1. x \in VotingType /\ voting_of \in VotingsType
  BY DEF DemocracyInv, VotingsType
<1>2. SetsVoting(voting_of, u, a, y, voting_of')
  BY DEF Unlock, SetsVoting
<1>3. a = b => Covered(x, 0)
  BY DEF NoStake
<1> HIDE DEF x
<1>4. Relocked(x, y) /\ y \in VotingType
  BY <1>1, RejigRelocks DEF Relocked
<1> HIDE DEF y
<1>5. Covered(x, 0) => Covered(y, 0)
  <2>1. x.kind = "direct" \/ x.kind = "delegating"
    BY <1>1, VotingFields
  <2> QED
    BY <1>4, <2>1 DEF Relocked, Covered, VotedOn
<1> QED
  BY <1>1, <1>2, <1>3, <1>4, <1>5, StakeSet

(* Whatever is delegated to an account, it stakes what it did.             *)
LEMMA FollowersStake ==
    ASSUME NEW V \in VotingsType, NEW to \in Voters, NEW a \in VotedAssets, NEW q \in PowerType,
           NEW W, W = [V EXCEPT ![to][a].delegations = q], NEW b \in VotedAssets, NoStake(V, b)
    PROVE  W \in VotingsType /\ NoStake(W, b)
<1> DEFINE x == V[to][a]
           y == [x EXCEPT !.delegations = q]
<1>1. x \in VotingType
  BY DEF VotingsType
<1>2. SetsVoting(V, to, a, y, W)
  BY DEF SetsVoting
<1>3. a = b => Covered(x, 0)
  BY DEF NoStake
<1> HIDE DEF x
<1>4. Redelegated(x, q, y) /\ y \in VotingType
  BY <1>1, DelegationsWritten DEF Redelegated
<1> HIDE DEF y
<1>5. Covered(x, 0) => Covered(y, 0)
  <2>1. x.kind = "direct" \/ x.kind = "delegating"
    BY <1>1, VotingFields
  <2> QED
    BY <1>4, <2>1 DEF Redelegated, Covered, VotedOn
<1> QED
  BY <1>2, <1>3, <1>4, <1>5, StakeSet

LEMMA ReducedStakes ==
    ASSUME NEW B, B.voting \in VotingsType, NEW to \in Voters, NEW a \in VotedAssets,
           NEW g \in PowerType, NEW b \in VotedAssets, NoStake(B.voting, b)
    PROVE  /\ Reduced(B, to, a, g).voting \in VotingsType
           /\ NoStake(Reduced(B, to, a, g).voting, b)
<1> DEFINE V == B.voting
           q == PowerMinus(V[to][a].delegations, g)
           W == [V EXCEPT ![to][a].delegations = q]
<1>1. V[to][a].delegations \in PowerType
  BY VotingFields DEF VotingsType
<1>2. q \in PowerType
  BY <1>1, PowerSums
<1>3. Reduced(B, to, a, g).voting = W
  BY DEF Reduced
<1>4. V \in VotingsType /\ NoStake(V, b)
  OBVIOUS
<1> HIDE DEF V, q
<1> QED
  BY <1>2, <1>3, <1>4, FollowersStake

LEMMA IncreasedStakes ==
    ASSUME NEW B, B.voting \in VotingsType, NEW to \in Voters, NEW a \in VotedAssets,
           NEW g \in PowerType, NEW b \in VotedAssets, NoStake(B.voting, b)
    PROVE  /\ Increased(B, to, a, g).voting \in VotingsType
           /\ NoStake(Increased(B, to, a, g).voting, b)
<1> DEFINE V == B.voting
           q == PowerPlus(V[to][a].delegations, g)
           W == [V EXCEPT ![to][a].delegations = q]
<1>1. V[to][a].delegations \in PowerType
  BY VotingFields DEF VotingsType
<1>2. q \in PowerType
  BY <1>1, PowerSums
<1>3. Increased(B, to, a, g).voting = W
  BY DEF Increased
<1>4. V \in VotingsType /\ NoStake(V, b)
  OBVIOUS
<1> HIDE DEF V, q
<1> QED
  BY <1>2, <1>3, <1>4, FollowersStake

LEMMA DelegateStakes ==
    ASSUME DemocracyInv, ledger \in Ledger, NEW b \in VotedAssets, Penniless(ledger, b),
           NoStake(voting_of, b), NEW u \in Voters, NEW to \in Voters, NEW a \in VotedAssets,
           NEW conviction \in 0..6, NEW n \in Nat, Delegate(u, to, a, conviction, n)
    PROVE  NoStake(voting_of', b)
<1> DEFINE x == voting_of[u][a]
           B == VotingBook
           C == IF x.kind = "delegating"
                THEN Reduced(B, x.target, a, Power(x.conviction, x.balance)) ELSE B
           D == Increased(C, to, a, Power(conviction, n))
           y == Delegating(n, to, conviction, x.delegations, x.prior)
<1>1. voting_of' = [D.voting EXCEPT ![u][a] = y] /\ n <= ledger[a][u].free
  BY DEF Delegate
<1>2. x \in VotingType /\ B.voting \in VotingsType /\ NoStake(B.voting, b)
  BY DEF DemocracyInv, VotingsType, VotingBook
<1> HIDE DEF x, B
<1>3. x.delegations \in PowerType /\ x.prior \in PriorType
      /\ (x.kind = "delegating" =>
             x.target \in Voters /\ Power(x.conviction, x.balance) \in PowerType)
  BY <1>2, VotingFields, PowerFacts
<1>4. C.voting \in VotingsType /\ NoStake(C.voting, b)
  <2>1. CASE x.kind = "delegating"
    BY <1>2, <1>3, <2>1, ReducedStakes
  <2>2. CASE x.kind # "delegating"
    BY <1>2, <2>2
  <2> QED
    BY <2>1, <2>2
<1> HIDE DEF C
<1>5. D.voting \in VotingsType /\ NoStake(D.voting, b)
  BY <1>4, PowerFacts, IncreasedStakes
<1>6. y \in VotingType /\ y.kind = "delegating" /\ y.balance = n
  BY <1>3 DEF Delegating, VotingType
<1>7. a = b => n = 0
  BY <1>1, AccountsOf DEF Penniless
<1>8. SetsVoting(D.voting, u, a, y, voting_of')
  BY <1>1 DEF SetsVoting
<1> HIDE DEF y, D
<1>9. a = b => Covered(y, 0)
  BY <1>6, <1>7 DEF Covered
<1> QED
  BY <1>5, <1>6, <1>8, <1>9, StakeSet

LEMMA UndelegateStakes ==
    ASSUME DemocracyInv, DemocracyInv', NEW b \in VotedAssets, NoStake(voting_of, b),
           NEW u \in Voters, NEW a \in VotedAssets, Undelegate(u, a)
    PROVE  NoStake(voting_of', b)
<1> DEFINE x == voting_of[u][a]
           B == VotingBook
           C == Reduced(B, x.target, a, Power(x.conviction, x.balance))
           until == now + VoteLockingPeriod * LockPeriods(x.conviction)
           prior == Accumulated(x.prior, until, x.balance)
           y == Idle(x.delegations, prior)
<1>1. x.kind = "delegating" /\ voting_of' = [C.voting EXCEPT ![u][a] = y]
  BY DEF Undelegate
<1>2. x \in VotingType /\ B.voting \in VotingsType /\ NoStake(B.voting, b)
  BY DEF DemocracyInv, VotingsType, VotingBook
<1> HIDE DEF x, B, prior
<1>3. x.target \in Voters /\ Power(x.conviction, x.balance) \in PowerType
  BY <1>1, <1>2, VotingFields, PowerFacts
<1>4. C.voting \in VotingsType /\ NoStake(C.voting, b)
  BY <1>2, <1>3, ReducedStakes
<1>5. y.kind = "direct" /\ VotedOn(y) = {}
  BY DEF Idle, VotedOn
<1>6. SetsVoting(C.voting, u, a, y, voting_of')
  BY <1>1 DEF SetsVoting
<1> HIDE DEF C, y
<1>7. Covered(y, 0)
  BY <1>5 DEF Covered
<1>8. y \in VotingType
  <2>1. voting_of'[u][a] = y
    BY <1>4, <1>6 DEF SetsVoting, VotingsType
  <2> QED
    BY <2>1 DEF DemocracyInv, VotingsType
<1> QED
  BY <1>4, <1>6, <1>7, <1>8, StakeSet

LEMMA VotingStakes ==
    ASSUME DemocracyInv, DemocracyInv', ledger \in Ledger, NEW b \in VotedAssets,
           Penniless(ledger, b), NoStake(voting_of, b), VotingNext
    PROVE  NoStake(voting_of', b)
<1>1. CASE \E u \in Voters, i \in RefIds, v \in AccountVotes : Vote(u, i, v)
  BY <1>1, VoteStakes
<1>2. CASE \E u \in Voters, a \in VotedAssets, i \in RefIds, byOther \in BOOLEAN :
              RemoveVote(u, a, i, byOther)
  BY <1>2, RemoveStakes
<1>3. CASE \E u, to \in Voters, a \in VotedAssets, input \in DelegationInputs :
              Delegate(u, to, a, input[1], input[2])
  <2>1. PICK u \in Voters, to \in Voters, a \in VotedAssets, input \in DelegationInputs :
           Delegate(u, to, a, input[1], input[2])
    BY <1>3
  <2>2. input[1] \in 0..6 /\ input[2] \in Nat
    BY DemocracyTypes
  <2> QED
    BY <2>1, <2>2, DelegateStakes
<1>4. CASE \E u \in Voters, a \in VotedAssets : Undelegate(u, a) \/ Unlock(u, a)
  BY <1>4, UndelegateStakes, UnlockStakes
<1> QED
  BY <1>1, <1>2, <1>3, <1>4 DEF VotingNext

-----------------------------------------------------------------------------
(* Who voted has a share of an electorate.                                 *)

BakingInv ==
    BooksInv /\ \A b \in VotedAssets : Penniless(ledger, b) => NoStake(voting_of, b)

LEMMA StepVotes ==
    ASSUME DemocracyInv, [DemocracyNext]_<<now, ledger, democracyVars, origins_by_asset_id>>
    PROVE  VotingNext \/ voting_of' = voting_of
<1>1. CASE QueueNext(Voters)
  BY <1>1, QueueNextQuiet DEF Quiet
<1>2. CASE EnactNext(Voters)
  BY <1>2, PreimageQuiet, CancelQueuedQuiet DEF EnactNext, Quiet
<1>3. CASE RegistryNext \/ UNCHANGED <<now, ledger, democracyVars, origins_by_asset_id>>
  BY <1>3 DEF RegistryNext, democracyVars, votingVars
<1>4. CASE BeginBlock
  BY <1>4, BeginBlockQuiet DEF Quiet
<1> QED
  BY <1>1, <1>2, <1>3, <1>4 DEF DemocracyNext

LEMMA BakingSteps ==
    ASSUME BakingInv, [DemocracyNext]_<<now, ledger, democracyVars, origins_by_asset_id>>
    PROVE  BakingInv'
<1>1. BooksInv /\ BooksInv' /\ BooksKept
  BY BooksSteps DEF BakingInv
<1>2. /\ DemocracyInv /\ DemocracyInv' /\ ledger \in Ledger
      /\ \A b \in VotedAssets : Penniless(ledger', b) => Penniless(ledger, b)
  BY <1>1, NowIs, AccountsOf DEF BooksInv, StagesInv, BooksTyped, BooksKept, KeepsBooks, FundsStay
<1>3. ASSUME NEW b \in VotedAssets, Penniless(ledger', b) PROVE NoStake(voting_of', b)
  <2>1. Penniless(ledger, b) /\ NoStake(voting_of, b)
    BY <1>2, <1>3 DEF BakingInv
  <2>2. CASE VotingNext
    BY <1>2, <2>1, <2>2, VotingStakes
  <2>3. CASE voting_of' = voting_of
    BY <2>1, <2>3
  <2> QED
    BY <1>2, <2>2, <2>3, StepVotes
<1>4. (\A b \in VotedAssets : Penniless(ledger, b) => NoStake(voting_of, b))'
  BY <1>3 DEF Penniless, NoStake
<1> QED
  BY <1>1, <1>4 DEF BakingInv

LEMMA BakingStart ==
    ASSUME ChainInit, RegistryInit, DemocracyInit
    PROVE  BakingInv
<1>1. BooksInv
  BY BooksStart
<1>2. ASSUME NEW b \in VotedAssets, NEW u \in Voters PROVE Covered(voting_of[u][b], 0)
  <2>1. voting_of[u][b] = Idle(NoPower, NoPrior)
    BY DEF DemocracyInit
  <2>2. voting_of[u][b].kind = "direct" /\ VotedOn(voting_of[u][b]) = {}
    BY <2>1 DEF Idle, VotedOn
  <2> QED
    BY <2>2 DEF Covered
<1> QED
  BY <1>1, <1>2 DEF BakingInv, NoStake

LEMMA NothingTurnsOut ==
    ASSUME DemocracyInv, NEW i \in RefIds, Ongoing(i),
           NoStake(voting_of, referendum_info[i].id[2])
    PROVE  referendum_info[i].tally.turnout = 0
<1> DEFINE a == referendum_info[i].id[2]
           V == voting_of
<1>1. a \in VotedAssets /\ referendum_info[i].tally = Count(V, a, i)
  BY TallyNow
<1>2. V \in VotingsType /\ DelegationsMatch(V) /\ NoStake(V, a)
  BY MatchIs DEF DemocracyInv
<1>3. IsFiniteSet(Voters)
  BY DemocracyTypes
<1> HIDE DEF a, V
<1>4. ASSUME NEW u \in Voters PROVE V[u][a] \in VotingType /\ Covered(V[u][a], 0)
  BY <1>1, <1>2 DEF VotingsType, NoStake
<1>5. ASSUME NEW u \in Voters, NEW to \in Voters PROVE GivenTo(V[u][a], to).capital = 0
  <2> DEFINE x == V[u][a]
  <2>1. x \in VotingType /\ Covered(x, 0)
    BY <1>4
  <2> HIDE DEF x
  <2>2. x.kind = "delegating" => x.balance = 0
    BY <2>1, VotingFields DEF Covered
  <2>3. GivenTo(x, to).capital = 0
    BY <2>2, NothingCounts DEF GivenTo, Power
  <2> QED
    BY <2>3 DEF x
<1>6. ASSUME NEW u \in Voters PROVE V[u][a].delegations.capital = 0
  <2>1. V[u][a].delegations = Given(V, a, u)
    BY <1>1, <1>2 DEF DelegationsMatch
  <2>2. SumFunctionOnSet(Capital(V, a, u), Voters) = 0
    <3>1. \A w \in Voters : Capital(V, a, u)[w] = 0
      BY <1>5 DEF Capital
    <3> QED
      BY <1>3, <3>1, SumZero
  <2> QED
    BY <2>1, <2>2 DEF Given
<1>7. ASSUME NEW u \in Voters PROVE CountedFor(V[u][a], i).turnout = 0
  <2> DEFINE x == V[u][a]
             v == x.votes[i]
             p == x.delegations
  <2>1. x \in VotingType /\ Covered(x, 0) /\ p.capital = 0
    BY <1>4, <1>6
  <2>2. CASE ~ (x.kind = "direct" /\ v # NoVote)
    BY <2>2, NothingCounts DEF CountedFor
  <2>3. CASE x.kind = "direct" /\ v # NoVote
    <3> HIDE DEF x
    <3>1. v \in AccountVotes /\ p \in PowerType
      BY <2>1, <2>3, VotingFields
    <3>2. VoteBalance(v) = 0
      <4>1. VoteBalance(v) \in Nat /\ i \in VotedOn(x)
        BY <2>3, <3>1, VoteFacts DEF VotedOn
      <4> QED
        BY <2>1, <2>3, <4>1 DEF Covered
    <3>3. CountedFor(x, i) = WithVote(NoTally, v, p)
      BY <2>3 DEF CountedFor
    <3> HIDE DEF v, p
    <3>4. VoteTally(v).turnout = 0
      BY <3>2 DEF VoteTally, VoteBalance, OnSide, Power
    <3>5. Followers(v, p).turnout = 0
      BY <2>1, NothingCounts DEF Followers, OnSide
    <3>6. WithVote(NoTally, v, p).turnout = 0 + 0 + 0
      BY <3>1, <3>4, <3>5, NothingCounts, WithVoteFields
    <3>7. CountedFor(x, i).turnout = 0
      BY <3>3, <3>6
    <3> QED
      BY <3>7 DEF x
  <2> QED
    BY <2>2, <2>3
<1>8. \A u \in Voters : Turnout(V, a, i)[u] = 0
  BY <1>7 DEF Turnout
<1>9. SumFunctionOnSet(Turnout(V, a, i), Voters) = 0
  BY <1>3, <1>8, SumZero
<1> QED
  BY <1>1, <1>9 DEF Count

LEMMA SquareRoot ==
    ASSUME NEW n \in Nat
    PROVE  IntegerSqrt(n) \in Nat /\ (IntegerSqrt(n) # 0 <=> n # 0)
<1> DEFINE S == {r \in 0..n : r * r <= n}
<1>1. 0 \in S /\ (n # 0 => 1 \in S) /\ \A r \in S : r \in Nat /\ r <= n
  OBVIOUS
<1>2. IntegerSqrt(n) = Max(S)
  BY DEF IntegerSqrt
<1> HIDE DEF S
<1>3. Max(S) \in S /\ \A r \in S : Max(S) >= r
  BY <1>1, MaxBelow
<1>4. Max(S) \in Nat /\ Max(S) <= n
  BY <1>1, <1>3
<1>5. n # 0 => Max(S) >= 1
  BY <1>1, <1>3
<1> QED
  BY <1>2, <1>4, <1>5

LEMMA ElectorateIs ==
    ASSUME ledger \in Ledger, NEW a \in AssetIds
    PROVE  Electorate(a) \in Nat /\ (~ Penniless(ledger, a) => Electorate(a) # 0)
<1> DEFINE f == [u \in Accounts |-> TotalBalance(ledger, a, u)]
<1>1. Electorate(a) = SumFunctionOnSet(f, Accounts)
  BY DEF Electorate, SumFunction
<1>2. IsFiniteSet(Accounts)
  BY DemocracyTypes
<1>3. \A u \in Accounts : f[u] \in Nat
  BY EntryIn
<1>4. ASSUME NEW u \in Accounts, ~ (ledger[a][u].free = 0 /\ ledger[a][u].reserved = 0)
      PROVE  f[u] # 0
  <2>1. ledger[a][u].free \in Nat /\ ledger[a][u].reserved \in Nat
    BY EntryIn
  <2> QED
    BY <1>4, <2>1 DEF TotalBalance
<1> HIDE DEF f
<1>5. SumFunctionOnSet(f, Accounts) \in Nat
  BY <1>2, <1>3, SumType
<1>6. ASSUME ~ Penniless(ledger, a) PROVE SumFunctionOnSet(f, Accounts) # 0
  <2>1. PICK u \in Accounts : f[u] # 0
    BY <1>4, <1>6 DEF Penniless
  <2>2. f[u] <= SumFunctionOnSet(f, Accounts)
    BY <1>2, <1>3, SumBounds
  <2> QED
    BY <1>3, <1>5, <2>1, <2>2
<1> QED
  BY <1>1, <1>5, <1>6

LEMMA ApprovedExactly ==
    ASSUME NEW h \in Thresholds, NEW t \in TallyType, NEW e \in Nat,
           t.turnout # 0 => e # 0
    PROVE  Approved(h, t, e) <=> ExactlyApproved(h, t, e)
<1> DEFINE voters == IntegerSqrt(t.turnout)
           all == IntegerSqrt(e)
<1>1. t.ayes \in Nat /\ t.nays \in Nat /\ t.turnout \in Nat
  BY DEF TallyType
<1>2. voters \in Nat /\ all \in Nat /\ (voters # 0 => all # 0)
  BY <1>1, SquareRoot
<1>3. CASE voters = 0
  BY <1>3 DEF Approved, ExactlyApproved
<1>4. CASE voters # 0
  <2>1. voters \in Pos /\ all \in Pos
    BY <1>2, <1>4 DEF Pos
  <2> HIDE DEF voters, all
  <2>2. CompareRationals[<<t.nays, voters, t.ayes, all>>] = (t.nays * all < t.ayes * voters)
    BY <1>1, <2>1, ComparisonExact
  <2>3. CompareRationals[<<t.nays, all, t.ayes, voters>>] = (t.nays * voters < t.ayes * all)
    BY <1>1, <2>1, ComparisonExact
  <2>4. (t.ayes > t.nays) <=> (t.nays < t.ayes)
    BY <1>1
  <2>5. CASE h = "SuperMajorityApprove"
    BY <1>4, <2>2, <2>5 DEF Approved, ExactlyApproved, voters, all
  <2>6. CASE h = "SuperMajorityAgainst"
    BY <1>4, <2>3, <2>6 DEF Approved, ExactlyApproved, voters, all
  <2>7. CASE h = "SimpleMajority"
    BY <1>4, <2>4, <2>7 DEF Approved, ExactlyApproved, voters, all
  <2> QED
    BY <2>5, <2>6, <2>7 DEF Thresholds
<1> QED
  BY <1>3, <1>4

(* No referendum below LowestUnbaked is open, and the decision begin_block *)
(* would take on any open one, by compare_rationals and rounded square     *)
(* roots, is the exact comparison of the fractions.  The divisors are not  *)
(* zero, because whoever votes has some of the asset, and an asset that    *)
(* somebody has is not lost through deposits, slashes and refunds.         *)
THEOREM BakingIsSound == DemocracySpec => []BakingSound
<1>1. ChainInit /\ RegistryInit /\ DemocracyInit => BakingInv
  BY BakingStart
<1>2. BakingInv /\ [DemocracyNext]_<<now, ledger, democracyVars, origins_by_asset_id>>
         => BakingInv'
  BY BakingSteps
<1>3. BakingInv => BakingSound
  <2> SUFFICES ASSUME BakingInv, NEW i \in RefIds, Ongoing(i)
               PROVE  /\ i >= lowest_unbaked
                      /\ LET s == referendum_info[i]
                             e == Electorate(s.id[2])
                         IN Approved(s.threshold, s.tally, e)
                               <=> ExactlyApproved(s.threshold, s.tally, e)
    BY DEF BakingSound
  <2> DEFINE s == referendum_info[i]
             a == s.id[2]
             e == Electorate(a)
  <2>1. DemocracyInv /\ ledger \in Ledger
    BY NowIs DEF BakingInv, BooksInv, StagesInv, BooksTyped
  <2>2. i >= lowest_unbaked
    BY <2>1 DEF DemocracyInv, NoneForgotten
  <2>3. a \in VotedAssets /\ s.tally \in TallyType /\ s \in StatusType
    BY <2>1, TallyNow
  <2>4. s.threshold \in Thresholds
    BY <2>3 DEF StatusType, Ongoing, NoInfo
  <2>5. Penniless(ledger, a) => s.tally.turnout = 0
    BY <2>1, <2>3, NothingTurnsOut DEF BakingInv
  <2>6. e \in Nat /\ (s.tally.turnout # 0 => e # 0)
    BY <2>1, <2>3, <2>5, AccountsOf, ElectorateIs
  <2> HIDE DEF s, a, e
  <2>7. Approved(s.threshold, s.tally, e) <=> ExactlyApproved(s.threshold, s.tally, e)
    BY <2>3, <2>4, <2>6, ApprovedExactly
  <2> QED
    BY <2>2, <2>7 DEF s, a, e
<1> QED
  BY <1>1, <1>2, <1>3, PTL DEF DemocracySpec
=============================================================================
