------------------------- MODULE DutchAuctionProofs -------------------------
(***************************************************************************)
(* Proofs about DutchAuction, for every set of accounts, assets, prices    *)
(* and every number of orders, takes and blocks.                           *)
(***************************************************************************)
EXTENDS DutchAuction, SumProofs, SequenceTheorems

-----------------------------------------------------------------------------
(* The inductive invariant.                                                *)

ServedType == [id : Ids, limit : Nat, asked : Nat, got : Nat]

(* Bids are served for orders that on_finalize has come to.                *)
ServedVisited ==
    /\ served \in Seq(ServedType)
    /\ \A i \in DOMAIN served : served[i].id \in visited

(* The order at hand exists, no call runs meanwhile, and its takes are     *)
(* queued by falling limit behind those that were served; what is left of  *)
(* it means that those were served in full.                                *)
QueueSorted(q) ==
    \A k, m \in DOMAIN q : k < m => q[k].limit >= q[m].limit

CursorBehind ==
    cursor # NULL =>
        /\ phase # "open"
        /\ orders[cursor.id] # NULL
        /\ cursor.id \in visited
        /\ QueueSorted(cursor.queue)
        /\ \A i \in DOMAIN served : served[i].id = cursor.id =>
              /\ \A k \in DOMAIN cursor.queue : served[i].limit >= cursor.queue[k].limit
              /\ cursor.amount > 0 => served[i].got = served[i].asked

(* Ids that were not handed out have no order and no takes.                *)
NothingAhead ==
    \A id \in Ids : id > ordersIndex => orders[id] = NULL /\ takes[id] = <<>>

SellersNoted ==
    \A id \in Ids : orders[id] # NULL => <<orders[id].from_to, orders[id].base>> \in sold

AuctionInv ==
    /\ TypeOK
    /\ ServedVisited
    /\ CursorBehind
    /\ HighestBidFirst
    /\ NothingAhead
    /\ SellersNoted
    /\ DepositsBacked
    /\ TakesLocked

-----------------------------------------------------------------------------
(* The currencies.                                                         *)

Books == [Wallets -> Balance]

LEMMA BookEntries ==
    ASSUME NEW b \in Books, NEW w \in Wallets
    PROVE  b[w] \in Balance /\ b[w].free \in Nat /\ b[w].reserved \in Nat
BY DEF Books, Balance

LEMMA ReserveFacts ==
    ASSUME NEW b \in Books, NEW w \in Wallets, NEW n \in Nat, b[w].free >= n
    PROVE  /\ Reserve(b, w, n) \in Books
           /\ Reserve(b, w, n)[w].reserved = b[w].reserved + n
           /\ \A v \in Wallets \ {w} : Reserve(b, w, n)[v] = b[v]
<1>1. b[w].free \in Nat /\ b[w].reserved \in Nat /\ b[w].free - n \in Nat
  BY BookEntries
<1> QED
  BY <1>1 DEF Reserve, Books, Balance

LEMMA UnreserveFacts ==
    ASSUME NEW b \in Books, NEW w \in Wallets, NEW n \in Nat
    PROVE  /\ Unreserve(b, w, n) \in Books
           /\ \A v \in Wallets \ {w} : Unreserve(b, w, n)[v] = b[v]
<1> DEFINE r == Least(n, b[w].reserved)
<1>1. b[w].free \in Nat /\ b[w].reserved \in Nat
  BY BookEntries
<1>2. r \in Nat /\ b[w].reserved - r \in Nat
  BY <1>1 DEF Least
<1>3. Unreserve(b, w, n) = [b EXCEPT ![w] = [free |-> b[w].free + r, reserved |-> b[w].reserved - r]]
  BY DEF Unreserve
<1> HIDE DEF r
<1> QED
  BY <1>1, <1>2, <1>3 DEF Books, Balance

LEMMA TransferType ==
    ASSUME NEW b \in Books, NEW from \in Wallets, NEW to \in Wallets, NEW n \in Nat,
           b[from].free >= n
    PROVE  Transfer(b, from, to, n) \in Books
<1> DEFINE c == [b EXCEPT ![from].free = @ - n]
<1>1. b[from].free \in Nat /\ b[from].free - n \in Nat
  BY BookEntries
<1>2. c \in Books
  BY <1>1 DEF Books, Balance
<1>3. Transfer(b, from, to, n) = [c EXCEPT ![to].free = @ + n]
  BY DEF Transfer
<1> HIDE DEF c
<1>4. c[to].free \in Nat
  BY <1>2, BookEntries
<1> QED
  BY <1>2, <1>3, <1>4 DEF Books, Balance

-----------------------------------------------------------------------------
(* Prices.                                                                 *)

LEMMA QuoteType ==
    ASSUME NEW x \in Nat, NEW y \in Nat, x <= y, NEW limit \in Nat
    PROVE  /\ QuoteAmount(x, limit) \in Nat /\ QuoteAmount(y, limit) \in Nat
           /\ QuoteAmount(x, limit) <= QuoteAmount(y, limit)
<1>1. Div \in Nat \ {0}
  BY ParameterTypes
<1>2. x * limit \in Nat /\ y * limit \in Nat /\ x * limit <= y * limit
  <2>1. limit * x <= limit * y
    BY TimesMonotone
  <2>2. limit * x = x * limit /\ limit * y = y * limit
    OBVIOUS
  <2> QED
    BY <2>1, <2>2
<1>3. /\ (x * limit) \div Div \in Nat /\ (y * limit) \div Div \in Nat
      /\ (x * limit) \div Div <= (y * limit) \div Div
  <2> DEFINE p == x * limit
             q == y * limit
  <2>1. p \in Nat /\ q \in Nat /\ p <= q
    BY <1>2
  <2> HIDE DEF p, q
  <2>2. p \div Div \in Nat /\ q \div Div \in Nat /\ p \div Div <= q \div Div
    BY <1>1, <2>1, QuotientType, QuotientMonotone
  <2> QED
    BY <2>2 DEF p, q
<1> QED
  BY <1>3 DEF QuoteAmount

LEMMA QuoteNat ==
    ASSUME NEW x \in Nat, NEW limit \in Nat
    PROVE  QuoteAmount(x, limit) \in Nat
<1>1. x <= x
  OBVIOUS
<1> QED
  BY <1>1, QuoteType

-----------------------------------------------------------------------------
(* The order in which on_finalize serves: counting the takes ahead gives   *)
(* every take a place of its own, and the places fall with the limits.     *)

LEMMA TakeSequence ==
    ASSUME NEW s \in Seq(TakeOf)
    PROVE  /\ DOMAIN s = 1..Len(s) /\ Len(s) \in Nat
           /\ \A i \in DOMAIN s : s[i] \in TakeOf /\ s[i].limit \in Nat
<1>1. DOMAIN s = 1..Len(s) /\ Len(s) \in Nat /\ \A i \in DOMAIN s : s[i] \in TakeOf
  OBVIOUS
<1>2. \A t \in TakeOf : t.limit \in Nat
  BY DEF TakeOf
<1> QED
  BY <1>1, <1>2

Ahead(s, i) ==
    {j \in DOMAIN s : \/ s[j].limit > s[i].limit
                      \/ s[j].limit = s[i].limit /\ j < i}

LEMMA AheadCount ==
    ASSUME NEW s \in Seq(TakeOf), NEW i \in DOMAIN s
    PROVE  /\ IsFiniteSet(Ahead(s, i)) /\ Cardinality(Ahead(s, i)) \in Nat
           /\ Cardinality(Ahead(s, i)) + 1 \in DOMAIN s
<1> DEFINE D == DOMAIN s
           n == Len(s)
<1>1. D = 1..n /\ n \in Nat /\ \A k \in D : s[k].limit \in Nat
  BY TakeSequence
<1>2. IsFiniteSet(D) /\ Cardinality(D) = n
  BY <1>1, FS_Interval
<1>3. Ahead(s, i) \in SUBSET D /\ i \notin Ahead(s, i)
  BY <1>1 DEF Ahead
<1>4. IsFiniteSet(Ahead(s, i)) /\ Cardinality(Ahead(s, i)) <= n /\ Cardinality(Ahead(s, i)) # n
  <2> HIDE DEF D, n
  <2> QED
    BY <1>2, <1>3, FS_Subset DEF D
<1>5. Cardinality(Ahead(s, i)) \in Nat
  BY <1>4, FS_CardinalityType
<1> QED
  BY <1>1, <1>4, <1>5

LEMMA AheadOrder ==
    ASSUME NEW s \in Seq(TakeOf), NEW i \in DOMAIN s, NEW j \in DOMAIN s, j \in Ahead(s, i)
    PROVE  Cardinality(Ahead(s, j)) < Cardinality(Ahead(s, i))
<1>1. DOMAIN s \subseteq Nat /\ \A k \in DOMAIN s : s[k].limit \in Nat
  BY TakeSequence
<1>2. Ahead(s, j) \subseteq Ahead(s, i)
  BY <1>1 DEF Ahead
<1>3. j \notin Ahead(s, j)
  BY <1>1 DEF Ahead
<1>4. /\ IsFiniteSet(Ahead(s, i)) /\ Cardinality(Ahead(s, i)) \in Nat
      /\ Cardinality(Ahead(s, j)) \in Nat
  BY AheadCount
<1>5. /\ Cardinality(Ahead(s, j)) <= Cardinality(Ahead(s, i))
      /\ Cardinality(Ahead(s, i)) = Cardinality(Ahead(s, j)) => Ahead(s, i) = Ahead(s, j)
  BY <1>2, <1>4, FS_Subset
<1> QED
  BY <1>3, <1>4, <1>5

LEMMA AheadTotal ==
    ASSUME NEW s \in Seq(TakeOf), NEW i \in DOMAIN s, NEW j \in DOMAIN s, i # j
    PROVE  i \in Ahead(s, j) \/ j \in Ahead(s, i)
<1>1. DOMAIN s \subseteq Nat /\ \A k \in DOMAIN s : s[k].limit \in Nat
  BY TakeSequence
<1>2. i \in Nat /\ j \in Nat /\ s[i].limit \in Nat /\ s[j].limit \in Nat
  BY <1>1
<1>3. \/ s[i].limit > s[j].limit
      \/ s[i].limit = s[j].limit /\ i < j
      \/ s[j].limit > s[i].limit
      \/ s[j].limit = s[i].limit /\ j < i
  BY <1>2
<1> QED
  BY <1>3 DEF Ahead

LEMMA BestFirstFacts ==
    ASSUME NEW s \in Seq(TakeOf)
    PROVE  BestFirst(s) \in Seq(TakeOf) /\ QueueSorted(BestFirst(s))
<1> DEFINE D == DOMAIN s
           f == [i \in D |-> Cardinality(Ahead(s, i)) + 1]
           at(k) == CHOOSE i \in D : Cardinality(Ahead(s, i)) = k - 1
           q == BestFirst(s)
<1>1. D = 1..Len(s) /\ Len(s) \in Nat /\ \A i \in D : s[i] \in TakeOf /\ s[i].limit \in Nat
  BY TakeSequence
<1>2. IsFiniteSet(D)
  BY <1>1, FS_Interval
<1>3. f \in Surjection(D, D)
  <2>1. f \in [D -> D]
    BY AheadCount
  <2>2. ASSUME NEW i \in D, NEW j \in D, f[i] = f[j] PROVE i = j
    <3>1. /\ Cardinality(Ahead(s, i)) \in Nat /\ Cardinality(Ahead(s, j)) \in Nat
      BY AheadCount
    <3>2. Cardinality(Ahead(s, i)) = Cardinality(Ahead(s, j))
      BY <2>2, <3>1
    <3> QED
      BY <3>1, <3>2, AheadTotal, AheadOrder
  <2>3. f \in Injection(D, D)
    <3> HIDE DEF f
    <3> QED
      BY <2>1, <2>2 DEF Injection, IsInjective
  <2> HIDE DEF f, D
  <2> QED
    BY <1>2, <2>3, FS_Injection
<1>4. ASSUME NEW k \in D
      PROVE  at(k) \in D /\ Cardinality(Ahead(s, at(k))) = k - 1
  <2>1. PICK i \in D : f[i] = k
    <3> HIDE DEF f, D
    <3> QED
      BY <1>3 DEF Surjection
  <2>2. Cardinality(Ahead(s, i)) \in Nat /\ Cardinality(Ahead(s, i)) + 1 = k
    BY <2>1, AheadCount
  <2>3. Cardinality(Ahead(s, i)) = k - 1
    BY <1>1, <2>2
  <2> QED
    BY <2>3
<1>5. q = [k \in D |-> s[at(k)]]
  BY Zenon DEF BestFirst, Ahead
<1> HIDE DEF at, D
<1>6. \A k \in D : q[k] = s[at(k)] /\ q[k] \in TakeOf
  BY <1>1, <1>4, <1>5
<1>7. DOMAIN q = D
  BY <1>5
<1>8. q \in Seq(TakeOf)
  BY <1>1, <1>5, <1>6
<1>9. ASSUME NEW k \in D, NEW m \in D, k < m PROVE q[k].limit >= q[m].limit
  <2>1. /\ at(k) \in DOMAIN s /\ at(m) \in DOMAIN s
        /\ Cardinality(Ahead(s, at(k))) = k - 1
        /\ Cardinality(Ahead(s, at(m))) = m - 1
        /\ k \in Nat /\ m \in Nat
    BY <1>1, <1>4 DEF D
  <2>2. at(k) # at(m) /\ at(m) \notin Ahead(s, at(k))
    BY <1>9, <2>1, AheadOrder
  <2>3. at(k) \in Ahead(s, at(m))
    BY <2>1, <2>2, AheadTotal
  <2>4. s[at(k)].limit >= s[at(m)].limit
    BY <1>1, <2>1, <2>3 DEF Ahead, D
  <2> QED
    BY <1>6, <2>4
<1>10. QueueSorted(q)
  BY <1>7, <1>9 DEF QueueSorted
<1> QED
  BY <1>8, <1>10

-----------------------------------------------------------------------------
(* The deposits of the open orders os.                                     *)

OrderBook == [Ids -> SellOf \cup {NULL}]
Open(os) == {id \in Ids : os[id] # NULL}
DepositOf(os) == [id \in Open(os) |-> os[id].deposit]
Deposits(os) == SumFunction(DepositOf(os))

LEMMA IdsFinite == IsFiniteSet(Ids) /\ Ids \subseteq Nat
BY ParameterTypes, FS_Interval DEF Ids

LEMMA DepositFacts ==
    ASSUME NEW os \in OrderBook
    PROVE  /\ Deposits(os) = SumFunctionOnSet(DepositOf(os), Open(os))
           /\ IsFiniteSet(Open(os))
           /\ \A id \in Open(os) : DepositOf(os)[id] = os[id].deposit /\ os[id].deposit \in Nat
           /\ Deposits(os) \in Nat
<1>1. IsFiniteSet(Open(os))
  BY IdsFinite, FS_Subset DEF Open
<1>2. \A id \in Open(os) : DepositOf(os)[id] = os[id].deposit /\ os[id].deposit \in Nat
  <2> TAKE id \in Open(os)
  <2>1. os[id] \in SellOf
    BY DEF Open, OrderBook
  <2> QED
    BY <2>1 DEF DepositOf, SellOf
<1>3. DOMAIN DepositOf(os) = Open(os)
  BY DEF DepositOf
<1>4. Deposits(os) = SumFunctionOnSet(DepositOf(os), Open(os))
  BY <1>3 DEF Deposits, SumFunction
<1>5. SumFunctionOnSet(DepositOf(os), Open(os)) \in Nat
  BY <1>1, <1>2, SumType
<1> QED
  BY <1>1, <1>2, <1>4, <1>5

LEMMA DepositAdded ==
    ASSUME NEW os \in OrderBook, NEW id \in Ids, os[id] = NULL, NEW o \in SellOf,
           NEW more, more = [os EXCEPT ![id] = o]
    PROVE  more \in OrderBook /\ Deposits(more) = Deposits(os) + o.deposit
<1>1. /\ more \in OrderBook /\ o # NULL /\ o.deposit \in Nat
      /\ more[id] = o /\ \A i \in Ids \ {id} : more[i] = os[i]
  BY ParameterTypes DEF OrderBook, SellOf
<1>2. Open(more) = Open(os) \cup {id} /\ id \notin Open(os)
  BY <1>1 DEF Open
<1> DEFINE f == DepositOf(os)
           g == DepositOf(more)
<1>3. /\ \A i \in Open(os) : f[i] = g[i]
      /\ g[id] = o.deposit
      /\ \A i \in Open(os) \cup {id} : g[i] \in Int
      /\ \A i \in Open(os) : f[i] \in Nat
  <2>1. \A i \in Open(more) : g[i] = more[i].deposit /\ more[i].deposit \in Nat
    BY <1>1, DepositFacts
  <2>2. \A i \in Open(os) : f[i] = os[i].deposit /\ os[i].deposit \in Nat
    BY DepositFacts
  <2>3. \A i \in Open(os) : more[i] = os[i]
    BY <1>1, <1>2 DEF Open
  <2> HIDE DEF f, g
  <2>4. g[id] = o.deposit
    BY <1>1, <1>2, <2>1
  <2>5. \A i \in Open(os) : g[i] = more[i].deposit /\ g[i] \in Nat
    BY <1>2, <2>1
  <2>6. \A i \in Open(os) : f[i] = g[i]
    BY <2>2, <2>3, <2>5
  <2> QED
    BY <1>1, <2>2, <2>4, <2>5, <2>6
<1>4. IsFiniteSet(Open(os)) /\ Deposits(os) = SumFunctionOnSet(f, Open(os)) /\ Deposits(os) \in Nat
  BY DepositFacts
<1>5. Deposits(more) = SumFunctionOnSet(g, Open(os) \cup {id})
  BY <1>1, <1>2, DepositFacts
<1> HIDE DEF f, g
<1>6. SumFunctionOnSet(g, Open(os) \cup {id}) = g[id] + SumFunctionOnSet(g, Open(os))
  BY <1>2, <1>3, <1>4, SumInsert
<1>7. SumFunctionOnSet(f, Open(os)) = SumFunctionOnSet(g, Open(os))
  <2>1. \A i \in Open(os) : f[i] = g[i]
    BY <1>3
  <2> QED
    BY <1>4, <2>1, SumSame
<1> QED
  BY <1>1, <1>3, <1>4, <1>5, <1>6, <1>7

LEMMA DepositDropped ==
    ASSUME NEW os \in OrderBook, NEW id \in Ids, os[id] # NULL,
           NEW less, less = [os EXCEPT ![id] = NULL]
    PROVE  /\ less \in OrderBook /\ os[id].deposit \in Nat
           /\ Deposits(os) = Deposits(less) + os[id].deposit
<1>1. less \in OrderBook /\ less[id] = NULL
  BY DEF OrderBook
<1>2. os[id] \in SellOf /\ os[id].deposit \in Nat
  BY DEF OrderBook, SellOf
<1>3. os = [less EXCEPT ![id] = os[id]]
  BY DEF OrderBook
<1>4. Deposits(os) = Deposits(less) + os[id].deposit
  BY <1>1, <1>2, <1>3, DepositAdded
<1> QED
  BY <1>1, <1>2, <1>4

LEMMA BackedIs == DepositsBacked <=> treasury >= Endowment + Deposits(orders)
BY DEF DepositsBacked, Deposits, DepositOf, OpenOrders, Open

-----------------------------------------------------------------------------
(* What the takes ts of the orders os lock of a wallet.                    *)

TakeBook == [Ids -> Seq(TakeOf)]
PendingOf(ts, os, w) ==
    {p \in Ids \X (1..MaxTakes) :
        /\ p[2] \in DOMAIN ts[p[1]]
        /\ ts[p[1]][p[2]].from_to = w[1]
        /\ os[p[1]] # NULL /\ os[p[1]].quote = w[2]}
QuoteIn(ts, p) == QuoteAmount(ts[p[1]][p[2]].amount, ts[p[1]][p[2]].limit)
QuotesOf(ts, os, w) == [p \in PendingOf(ts, os, w) |-> QuoteIn(ts, p)]
LockedOf(ts, os, w) == SumFunction(QuotesOf(ts, os, w))

LEMMA LockedIs ==
    TakesLocked <=>
        (phase = "open" =>
            \A w \in Wallets \ sold : LockedOf(takes, orders, w) <= balances[w].reserved)
BY DEF TakesLocked, LockedOf, QuotesOf, QuoteIn, PendingOf, PendingTakes, QuoteOf

LEMMA PendingFacts ==
    ASSUME NEW ts \in TakeBook, NEW os, NEW w
    PROVE  /\ IsFiniteSet(PendingOf(ts, os, w))
           /\ \A p \in PendingOf(ts, os, w) :
                 QuotesOf(ts, os, w)[p] = QuoteIn(ts, p) /\ QuoteIn(ts, p) \in Nat
           /\ LockedOf(ts, os, w) = SumFunctionOnSet(QuotesOf(ts, os, w), PendingOf(ts, os, w))
           /\ LockedOf(ts, os, w) \in Nat
<1> DEFINE P == PendingOf(ts, os, w)
           f == QuotesOf(ts, os, w)
<1>1. IsFiniteSet(P)
  <2>1. IsFiniteSet(1..MaxTakes)
    BY ParameterTypes, FS_Interval
  <2>2. IsFiniteSet(Ids \X (1..MaxTakes))
    BY <2>1, IdsFinite, FS_Product
  <2>3. P \in SUBSET (Ids \X (1..MaxTakes))
    BY DEF PendingOf
  <2> QED
    BY <2>2, <2>3, FS_Subset
<1>2. \A p \in P : f[p] = QuoteIn(ts, p) /\ QuoteIn(ts, p) \in Nat
  <2> TAKE p \in P
  <2>1. p[1] \in Ids /\ p[2] \in DOMAIN ts[p[1]]
    BY DEF PendingOf
  <2>2. ts[p[1]] \in Seq(TakeOf)
    BY <2>1 DEF TakeBook
  <2>3. ts[p[1]][p[2]] \in TakeOf
    BY <2>1, <2>2
  <2>4. ts[p[1]][p[2]].amount \in Nat /\ ts[p[1]][p[2]].limit \in Nat
    BY <2>3 DEF TakeOf
  <2>5. QuoteIn(ts, p) \in Nat
    <3> DEFINE x == ts[p[1]][p[2]].amount
               y == ts[p[1]][p[2]].limit
    <3>1. x \in Nat /\ y \in Nat /\ x <= x
      BY <2>4
    <3>2. QuoteIn(ts, p) = QuoteAmount(x, y)
      BY DEF QuoteIn
    <3> HIDE DEF x, y
    <3> QED
      BY <3>1, <3>2, QuoteType
  <2> QED
    BY <2>5 DEF QuotesOf
<1>3. LockedOf(ts, os, w) = SumFunctionOnSet(f, P)
  <2>1. DOMAIN f = P
    BY DEF QuotesOf
  <2> QED
    BY <2>1 DEF LockedOf, SumFunction
<1> HIDE DEF P, f
<1>4. SumFunctionOnSet(f, P) \in Nat
  BY <1>1, <1>2, SumType
<1> QED
  BY <1>1, <1>2, <1>3, <1>4 DEF P, f

LEMMA LockedNone ==
    ASSUME NEW ts, \A id \in Ids : ts[id] = <<>>, NEW os, NEW w
    PROVE  LockedOf(ts, os, w) = 0
<1>1. PendingOf(ts, os, w) = {}
  BY DEF PendingOf
<1>2. DOMAIN QuotesOf(ts, os, w) = {}
  BY <1>1 DEF QuotesOf
<1> QED
  BY <1>2, SumOfNone DEF LockedOf, SumFunction

(* Removing an order, or adding one without takes, locks nothing more.     *)
LEMMA LockedFewer ==
    ASSUME NEW ts \in TakeBook, NEW os, NEW other, NEW w,
           PendingOf(ts, other, w) \subseteq PendingOf(ts, os, w)
    PROVE  LockedOf(ts, other, w) <= LockedOf(ts, os, w)
<1> DEFINE P == PendingOf(ts, os, w)
           Q == PendingOf(ts, other, w)
           f == QuotesOf(ts, os, w)
           g == QuotesOf(ts, other, w)
<1>1. /\ IsFiniteSet(P) /\ IsFiniteSet(Q) /\ Q \subseteq P
      /\ \A p \in P : f[p] = QuoteIn(ts, p) /\ QuoteIn(ts, p) \in Nat
      /\ \A p \in Q : g[p] = QuoteIn(ts, p)
      /\ LockedOf(ts, os, w) = SumFunctionOnSet(f, P)
      /\ LockedOf(ts, other, w) = SumFunctionOnSet(g, Q)
  BY PendingFacts
<1> HIDE DEF P, Q, f, g
<1>2. SumFunctionOnSet(g, Q) = SumFunctionOnSet(f, Q)
  <2>1. \A p \in Q : g[p] = f[p]
    BY <1>1
  <2> QED
    BY <1>1, <2>1, SumSame
<1>3. SumFunctionOnSet(f, Q) <= SumFunctionOnSet(f, P)
  <2>1. \A p \in P : f[p] \in Nat
    BY <1>1
  <2> QED
    BY <1>1, <2>1, SumSubset
<1> QED
  BY <1>1, <1>2, <1>3

(* A take locks its quote in the taker's wallet, and nothing elsewhere.    *)
Booked(ts, id, t) == [ts EXCEPT ![id] = Append(ts[id], t)]

LEMMA LockedMore ==
    ASSUME NEW ts \in TakeBook, NEW os \in OrderBook, NEW id \in Ids, os[id] # NULL,
           NEW t \in TakeOf, Len(ts[id]) < MaxTakes, NEW w \in Wallets
    PROVE  /\ Booked(ts, id, t) \in TakeBook
           /\ w = <<t.from_to, os[id].quote>> =>
                 LockedOf(Booked(ts, id, t), os, w) =
                    LockedOf(ts, os, w) + QuoteAmount(t.amount, t.limit)
           /\ w # <<t.from_to, os[id].quote>> =>
                 LockedOf(Booked(ts, id, t), os, w) = LockedOf(ts, os, w)
<1> DEFINE more == Booked(ts, id, t)
           n == Len(ts[id]) + 1
           new == <<id, n>>
           P == PendingOf(ts, os, w)
           Q == PendingOf(more, os, w)
           mine == w = <<t.from_to, os[id].quote>>
<1>1. /\ ts[id] \in Seq(TakeOf) /\ DOMAIN ts = Ids
      /\ \A i \in Ids : ts[i] \in Seq(TakeOf)
  BY DEF TakeBook
<1>2. /\ Append(ts[id], t) \in Seq(TakeOf) /\ DOMAIN ts[id] = 1..Len(ts[id])
      /\ DOMAIN Append(ts[id], t) = 1..n /\ Len(ts[id]) \in Nat
      /\ \A k \in DOMAIN ts[id] : Append(ts[id], t)[k] = ts[id][k]
      /\ Append(ts[id], t)[n] = t
  <2>1. /\ Append(ts[id], t) \in Seq(TakeOf)
        /\ Len(Append(ts[id], t)) = n
        /\ \A k \in 1..Len(ts[id]) : Append(ts[id], t)[k] = ts[id][k]
        /\ Append(ts[id], t)[n] = t
    BY <1>1, AppendProperties
  <2> QED
    BY <1>1, <2>1
<1>3. /\ more \in TakeBook /\ more[id] = Append(ts[id], t)
      /\ \A i \in Ids \ {id} : more[i] = ts[i]
  BY <1>1, <1>2 DEF TakeBook, Booked
<1>4. n \in 1..MaxTakes /\ n \notin DOMAIN ts[id]
  BY <1>2, ParameterTypes
<1> HIDE DEF n, mine, more
<1>5. DOMAIN more[id] = DOMAIN ts[id] \cup {n}
  <2>1. 1..n = 1..Len(ts[id]) \cup {n}
    BY <1>2 DEF n
  <2> QED
    BY <1>2, <1>3, <2>1
<1>6. ASSUME NEW i \in Ids, NEW k \in 1..MaxTakes, <<i, k>> # new
      PROVE  /\ k \in DOMAIN more[i] <=> k \in DOMAIN ts[i]
             /\ k \in DOMAIN ts[i] => more[i][k] = ts[i][k]
  BY <1>2, <1>3, <1>5, <1>6
<1>7. new \notin P /\ new \in Ids \X (1..MaxTakes) /\ new[1] = id /\ new[2] = n
  BY <1>4 DEF PendingOf
<1>8. more[id][n] = t /\ n \in DOMAIN more[id]
  BY <1>2, <1>3, <1>5
<1>9. ASSUME NEW p \in Ids \X (1..MaxTakes), p # new
      PROVE  /\ p \in Q <=> p \in P
             /\ p \in P => QuoteIn(more, p) = QuoteIn(ts, p)
  <2>1. PICK i \in Ids, k \in 1..MaxTakes : p = <<i, k>>
    OBVIOUS
  <2>2. p[1] = i /\ p[2] = k
    BY <2>1
  <2>3. /\ k \in DOMAIN more[i] <=> k \in DOMAIN ts[i]
        /\ k \in DOMAIN ts[i] => more[i][k] = ts[i][k]
    BY <1>6, <1>9, <2>1
  <2> QED
    BY <2>2, <2>3 DEF PendingOf, QuoteIn
<1>10. new \in Q <=> mine
  <2>1. mine <=> w[1] = t.from_to /\ w[2] = os[id].quote
    BY DEF mine, Wallets
  <2> QED
    BY <1>7, <1>8, <2>1 DEF PendingOf
<1>11. QuoteIn(more, new) = QuoteAmount(t.amount, t.limit)
  BY <1>7, <1>8 DEF QuoteIn
<1>12. P \subseteq Ids \X (1..MaxTakes) /\ Q \subseteq Ids \X (1..MaxTakes)
  BY DEF PendingOf
<1> DEFINE f == QuotesOf(ts, os, w)
           g == QuotesOf(more, os, w)
<1>13. /\ IsFiniteSet(P)
       /\ \A p \in P : f[p] = QuoteIn(ts, p) /\ QuoteIn(ts, p) \in Nat
       /\ LockedOf(ts, os, w) = SumFunctionOnSet(f, P)
       /\ LockedOf(ts, os, w) \in Nat
  BY PendingFacts
<1>14. /\ \A p \in Q : g[p] = QuoteIn(more, p) /\ QuoteIn(more, p) \in Nat
       /\ LockedOf(more, os, w) = SumFunctionOnSet(g, Q)
  BY <1>3, PendingFacts
<1> HIDE DEF P, Q, f, g, new
<1>15. P \subseteq Q /\ \A p \in P : f[p] = g[p]
  BY <1>7, <1>9, <1>12, <1>13, <1>14
<1>16. SumFunctionOnSet(f, P) = SumFunctionOnSet(g, P)
  BY <1>13, <1>15, SumSame
<1>17. CASE mine
  <2>1. Q = P \cup {new}
    BY <1>9, <1>10, <1>12, <1>17
  <2>2. \A p \in P \cup {new} : g[p] \in Int
    BY <1>14, <2>1
  <2>3. SumFunctionOnSet(g, P \cup {new}) = g[new] + SumFunctionOnSet(g, P)
    BY <1>7, <1>13, <2>2, SumInsert
  <2>4. g[new] = QuoteAmount(t.amount, t.limit) /\ g[new] \in Nat
    BY <1>11, <1>14, <2>1
  <2> QED
    BY <1>3, <1>13, <1>14, <1>16, <1>17, <2>1, <2>3, <2>4 DEF mine, more
<1>18. CASE ~mine
  <2>1. Q = P
    BY <1>9, <1>10, <1>12, <1>15, <1>18
  <2> QED
    BY <1>3, <1>13, <1>14, <1>16, <1>18, <2>1 DEF mine, more
<1> QED
  BY <1>17, <1>18

-----------------------------------------------------------------------------
(* Calls.                                                                  *)

LEMMA Typed ==
    ASSUME AuctionInv
    PROVE  /\ TypeOK /\ ordersIndex \in Nat /\ treasury \in Nat /\ orders \in OrderBook
           /\ takes \in TakeBook /\ balances \in Books
           /\ treasury >= Endowment + Deposits(orders) /\ Deposits(orders) \in Nat
           /\ Endowment \in Nat
<1>1. /\ TypeOK /\ ordersIndex \in Nat /\ treasury \in Nat /\ orders \in OrderBook
      /\ takes \in TakeBook /\ balances \in Books
  BY DEF AuctionInv, TypeOK, OrderBook, TakeBook, Books
<1>2. treasury >= Endowment + Deposits(orders)
  BY BackedIs DEF AuctionInv
<1>3. Deposits(orders) \in Nat
  BY <1>1, DepositFacts
<1> QED
  BY <1>1, <1>2, <1>3, ParameterTypes

(* While calls run, on_finalize has nothing in hand.                       *)
LEMMA LoopIdle ==
    ASSUME AuctionInv, phase = "open", cursor' = cursor, visited' = visited, served' = served
    PROVE  /\ ServedVisited' /\ CursorBehind' /\ HighestBidFirst'
           /\ cursor' \in [id : Ids, amount : Nat, queue : Seq(TakeOf)] \cup {NULL}
           /\ visited' \subseteq Ids
<1>1. cursor = NULL
  BY DEF AuctionInv, CursorBehind
<1>2. ServedVisited'
  BY DEF AuctionInv, ServedVisited
<1>3. CursorBehind'
  BY <1>1 DEF CursorBehind
<1>4. HighestBidFirst'
  BY DEF AuctionInv, HighestBidFirst
<1> QED
  BY <1>1, <1>2, <1>3, <1>4 DEF AuctionInv, TypeOK

(* The id of a call of ask, and what its frame leaves.                     *)
LEMMA AskFrameFacts ==
    ASSUME AuctionInv, NEW amount \in Nat, NEW limit \in Nat, AskFrame(amount, limit)
    PROVE  /\ ordersIndex + 1 \in Ids /\ orders[ordersIndex + 1] = NULL
           /\ takes[ordersIndex + 1] = <<>>
           /\ ordersIndex' = ordersIndex + 1 /\ ordersIndex' \in 0..MaxOrders
           /\ now' = now /\ takes' = takes /\ phase' = "open"
           /\ ServedVisited' /\ CursorBehind' /\ HighestBidFirst'
           /\ cursor' \in [id : Ids, amount : Nat, queue : Seq(TakeOf)] \cup {NULL}
           /\ visited' \subseteq Ids
<1>1. /\ phase = "open" /\ phase' = "open" /\ cursor' = cursor /\ visited' = visited
      /\ served' = served
      /\ ordersIndex' = ordersIndex + 1 /\ ordersIndex < MaxOrders /\ now' = now /\ takes' = takes
  BY DEF AskFrame, NextId, loop
<1>2. ordersIndex \in Nat /\ MaxOrders \in Nat
  BY Typed, ParameterTypes
<1>3. ordersIndex + 1 \in Ids /\ ordersIndex' \in 0..MaxOrders
  BY <1>1, <1>2 DEF Ids
<1>4. orders[ordersIndex + 1] = NULL /\ takes[ordersIndex + 1] = <<>>
  BY <1>2, <1>3 DEF AuctionInv, NothingAhead
<1> QED
  BY <1>1, <1>3, <1>4, LoopIdle

LEMMA AskKeeps ==
    ASSUME AuctionInv, NEW u \in Accounts, NEW pair \in Pairs, NEW amount \in Amounts,
           NEW limit \in Limits, NEW curve \in Curves, Ask(u, pair, amount, limit, curve)
    PROVE  AuctionInv'
<1> DEFINE new == ordersIndex + 1
           o == [from_to |-> u, base |-> pair[1], quote |-> pair[2], amount |-> amount,
                 limit |-> limit, configuration |-> curve, added_at |-> now,
                 deposit |-> Deposit]
           mine == <<u, pair[1]>>
<1>1. /\ amount \in Nat /\ limit \in Nat /\ curve \in Curve /\ Deposit \in Nat /\ ED \in Nat
      /\ pair[1] \in Assets /\ pair[2] \in Assets
  BY ParameterTypes
<1>2. AskFrame(amount, limit)
  BY DEF Ask
<1>3. /\ TypeOK /\ treasury \in Nat /\ orders \in OrderBook /\ takes \in TakeBook /\ balances \in Books
      /\ treasury >= Endowment + Deposits(orders) /\ Deposits(orders) \in Nat
      /\ Endowment \in Nat /\ ordersIndex \in Nat
  BY Typed
<1>4. /\ new \in Ids /\ orders[new] = NULL /\ takes[new] = <<>>
      /\ ordersIndex' = new /\ ordersIndex' \in 0..MaxOrders
      /\ now' = now /\ takes' = takes /\ phase' = "open"
      /\ ServedVisited' /\ CursorBehind' /\ HighestBidFirst'
      /\ cursor' \in [id : Ids, amount : Nat, queue : Seq(TakeOf)] \cup {NULL}
      /\ visited' \subseteq Ids
  BY <1>1, <1>2, AskFrameFacts
<1>5. o \in SellOf /\ o.deposit = Deposit /\ o.from_to = u /\ o.base = pair[1] /\ o.quote = pair[2]
  BY <1>1, <1>3 DEF SellOf, TypeOK
<1>6. orders' = [orders EXCEPT ![new] = o]
  BY DEF Ask
<1>7. /\ treasury' = treasury + Deposit /\ native' = [native EXCEPT ![u] = native[u] - Deposit]
      /\ sold' = sold \cup {mine} /\ balances' = Reserve(balances, mine, amount)
      /\ balances[mine].free >= amount
      /\ native[u] - Deposit >= ED
  BY DEF Ask, PaysDeposit
<1>8. mine \in Wallets
  BY <1>1 DEF Wallets
<1> HIDE DEF new, o, mine
<1>9. orders' \in OrderBook /\ Deposits(orders') = Deposits(orders) + Deposit
  BY <1>3, <1>4, <1>5, <1>6, DepositAdded
<1>10. /\ orders'[new] = o /\ \A id \in Ids \ {new} : orders'[id] = orders[id]
  BY <1>3, <1>4, <1>6 DEF OrderBook
<1>11. /\ balances' \in Books /\ \A v \in Wallets \ {mine} : balances'[v] = balances[v]
  BY <1>1, <1>3, <1>7, <1>8, ReserveFacts
<1>12. TypeOK'
  <2>1. native' \in [Accounts -> Nat]
    <3>1. native \in [Accounts -> Nat] /\ native[u] - Deposit \in Nat
      BY <1>1, <1>3, <1>7 DEF TypeOK
    <3> QED
      BY <1>7, <3>1
  <2>2. sold' \subseteq Wallets /\ now' \in Nat /\ treasury' \in Nat
    BY <1>1, <1>3, <1>4, <1>7, <1>8 DEF TypeOK
  <2> QED
    BY <1>3, <1>4, <1>9, <1>11, <2>1, <2>2 DEF TypeOK, OrderBook, TakeBook, Books
<1>13. NothingAhead'
  <2>1. \A id \in Ids : id > ordersIndex' => id > ordersIndex /\ id # new
    BY <1>3, <1>4, IdsFinite DEF new
  <2> QED
    BY <1>4, <1>10, <2>1 DEF AuctionInv, NothingAhead
<1>14. SellersNoted'
  <2>1. <<o.from_to, o.base>> = mine
    BY <1>5 DEF mine
  <2> QED
    BY <1>7, <1>10, <2>1 DEF AuctionInv, SellersNoted
<1>15. DepositsBacked'
  <2>1. treasury' >= Endowment + Deposits(orders')
    BY <1>1, <1>3, <1>7, <1>9
  <2> QED
    BY <2>1, BackedIs DEF DepositsBacked, Deposits, DepositOf, OpenOrders, Open
<1>16. ASSUME NEW w \in Wallets \ sold'
       PROVE  LockedOf(takes', orders', w) <= balances'[w].reserved
  <2>1. w \notin sold /\ w # mine /\ balances'[w] = balances[w]
    BY <1>7, <1>11
  <2>2. LockedOf(takes, orders, w) <= balances[w].reserved
    BY <1>2, <2>1, LockedIs DEF AuctionInv, AskFrame
  <2>3. PendingOf(takes, orders', w) \subseteq PendingOf(takes, orders, w)
    <3>1. ASSUME NEW p \in PendingOf(takes, orders', w) PROVE p \in PendingOf(takes, orders, w)
      <4>1. p \in Ids \X (1..MaxTakes) /\ p[1] \in Ids /\ p[2] \in DOMAIN takes[p[1]]
        BY DEF PendingOf
      <4>2. p[1] # new
        BY <1>4, <4>1
      <4>3. orders'[p[1]] = orders[p[1]]
        BY <1>10, <4>1, <4>2
      <4> QED
        BY <4>1, <4>3 DEF PendingOf
    <3> QED
      BY <3>1
  <2>4. LockedOf(takes, orders', w) <= LockedOf(takes, orders, w)
    BY <1>3, <2>3, LockedFewer
  <2>5. /\ LockedOf(takes, orders', w) \in Nat /\ LockedOf(takes, orders, w) \in Nat
        /\ balances[w].reserved \in Nat
    BY <1>3, PendingFacts, BookEntries
  <2> QED
    BY <1>4, <2>1, <2>2, <2>4, <2>5
<1>17. TakesLocked'
  BY <1>16 DEF TakesLocked, LockedOf, QuotesOf, QuoteIn, PendingOf, PendingTakes, QuoteOf
<1> QED
  BY <1>4, <1>12, <1>13, <1>14, <1>15, <1>17 DEF AuctionInv

(* An ask that fails uses up the id; it may have paid the deposit.         *)
LEMMA AskFails ==
    ASSUME AuctionInv, NEW u \in Accounts, NEW amount \in Amounts, NEW limit \in Limits,
           \/ AskWithoutDeposit(u, amount, limit)
           \/ \E pair \in Pairs : AskWithoutBase(u, pair, amount, limit)
    PROVE  AuctionInv'
<1>1. amount \in Nat /\ limit \in Nat /\ Deposit \in Nat /\ ED \in Nat
  BY ParameterTypes
<1>2. AskFrame(amount, limit)
  BY DEF AskWithoutDeposit, AskWithoutBase
<1>3. /\ TypeOK /\ treasury \in Nat /\ orders \in OrderBook
      /\ treasury >= Endowment + Deposits(orders) /\ Deposits(orders) \in Nat
      /\ Endowment \in Nat /\ ordersIndex \in Nat
  BY Typed
<1>4. /\ ordersIndex' = ordersIndex + 1 /\ ordersIndex' \in 0..MaxOrders
      /\ now' = now /\ takes' = takes /\ phase' = "open"
      /\ ServedVisited' /\ CursorBehind' /\ HighestBidFirst'
      /\ cursor' \in [id : Ids, amount : Nat, queue : Seq(TakeOf)] \cup {NULL}
      /\ visited' \subseteq Ids
  BY <1>1, <1>2, AskFrameFacts
<1>5. orders' = orders /\ balances' = balances /\ sold' = sold
  BY DEF AskWithoutDeposit, AskWithoutBase, ledger
<1>6. /\ treasury' \in Nat /\ treasury' >= treasury /\ native' \in [Accounts -> Nat]
  <2>1. native \in [Accounts -> Nat]
    BY <1>3 DEF TypeOK
  <2>2. CASE AskWithoutDeposit(u, amount, limit)
    BY <1>3, <2>1, <2>2 DEF AskWithoutDeposit, ledger
  <2>3. CASE \E pair \in Pairs : AskWithoutBase(u, pair, amount, limit)
    <3>1. /\ native' = [native EXCEPT ![u] = native[u] - Deposit]
          /\ treasury' = treasury + Deposit /\ native[u] - Deposit >= ED
      BY <2>3 DEF AskWithoutBase, PaysDeposit
    <3>2. native[u] - Deposit \in Nat
      BY <1>1, <2>1, <3>1
    <3> QED
      BY <1>1, <1>3, <2>1, <3>1, <3>2
  <2> QED
    BY <2>2, <2>3
<1>7. TypeOK'
  BY <1>3, <1>4, <1>5, <1>6 DEF TypeOK
<1>8. NothingAhead'
  <2>1. \A id \in Ids : id > ordersIndex' => id > ordersIndex
    BY <1>3, <1>4, IdsFinite
  <2> QED
    BY <1>4, <1>5, <2>1 DEF AuctionInv, NothingAhead
<1>9. SellersNoted'
  BY <1>5 DEF AuctionInv, SellersNoted
<1>10. DepositsBacked'
  <2>1. treasury' >= Endowment + Deposits(orders')
    BY <1>3, <1>5, <1>6
  <2> QED
    BY <2>1 DEF DepositsBacked, Deposits, DepositOf, OpenOrders, Open
<1>11. TakesLocked'
  BY <1>2, <1>4, <1>5 DEF AuctionInv, AskFrame, TakesLocked, PendingTakes, QuoteOf
<1> QED
  BY <1>4, <1>7, <1>8, <1>9, <1>10, <1>11 DEF AuctionInv

LEMMA TakeKeeps ==
    ASSUME AuctionInv, NEW u \in Accounts, NEW id \in Ids, NEW amount \in Amounts,
           NEW limit \in Limits, TakeBid(u, id, amount, limit)
    PROVE  AuctionInv'
<1> DEFINE t == [from_to |-> u, amount |-> amount, limit |-> limit]
           q == QuoteAmount(amount, limit)
           mine == <<u, orders[id].quote>>
<1>1. amount \in Nat /\ limit \in Nat
  BY ParameterTypes
<1>2. /\ TypeOK /\ treasury \in Nat /\ orders \in OrderBook /\ takes \in TakeBook /\ balances \in Books
      /\ treasury >= Endowment + Deposits(orders) /\ Deposits(orders) \in Nat
      /\ Endowment \in Nat /\ ordersIndex \in Nat
  BY Typed
<1>3. /\ phase = "open" /\ phase' = "open" /\ cursor' = cursor /\ visited' = visited
      /\ served' = served /\ now' = now /\ ordersIndex' = ordersIndex /\ orders' = orders
      /\ native' = native /\ treasury' = treasury /\ sold' = sold
      /\ Len(takes[id]) < MaxTakes /\ orders[id] # NULL
      /\ balances[mine].free >= q /\ balances' = Reserve(balances, mine, q)
      /\ takes' = [takes EXCEPT ![id] = Append(takes[id], t)]
  BY DEF TakeBid, loop
<1>4. /\ ServedVisited' /\ CursorBehind' /\ HighestBidFirst'
      /\ cursor' \in [id : Ids, amount : Nat, queue : Seq(TakeOf)] \cup {NULL}
      /\ visited' \subseteq Ids
  BY <1>3, LoopIdle
<1>5. orders[id] \in SellOf /\ orders[id].quote \in Assets
  BY <1>2, <1>3 DEF OrderBook, SellOf
<1>6. mine \in Wallets /\ mine[1] = u /\ mine[2] = orders[id].quote
  BY <1>5 DEF Wallets
<1>7. t \in TakeOf /\ t.from_to = u /\ t.amount = amount /\ t.limit = limit
  BY <1>1 DEF TakeOf
<1>8. q \in Nat
  BY <1>1, QuoteType
<1>9. QuoteAmount(t.amount, t.limit) = q
  BY <1>7
<1> HIDE DEF t, q, mine
<1>10. /\ balances' \in Books /\ balances'[mine].reserved = balances[mine].reserved + q
       /\ \A v \in Wallets \ {mine} : balances'[v] = balances[v]
  BY <1>2, <1>3, <1>6, <1>8, ReserveFacts
<1>11. takes' = Booked(takes, id, t) /\ takes' \in TakeBook
  <2>1. takes' = Booked(takes, id, t)
    BY <1>3 DEF Booked
  <2> QED
    BY <1>2, <1>3, <1>6, <1>7, <2>1, LockedMore
<1>12. TypeOK'
  BY <1>2, <1>3, <1>4, <1>10, <1>11 DEF TypeOK, TakeBook, Books
<1>13. NothingAhead'
  <2>1. ~(id > ordersIndex)
    BY <1>3 DEF AuctionInv, NothingAhead
  <2>2. \A i \in Ids \ {id} : takes'[i] = takes[i]
    BY <1>2, <1>3 DEF TakeBook
  <2> QED
    BY <1>3, <2>1, <2>2 DEF AuctionInv, NothingAhead
<1>14. SellersNoted'
  BY <1>3 DEF AuctionInv, SellersNoted
<1>15. DepositsBacked'
  BY <1>3 DEF AuctionInv, DepositsBacked, OpenOrders
<1>16. ASSUME NEW w \in Wallets \ sold'
       PROVE  LockedOf(takes', orders', w) <= balances'[w].reserved
  <2>1. LockedOf(takes, orders, w) <= balances[w].reserved
    BY <1>3, LockedIs DEF AuctionInv
  <2>2. /\ LockedOf(takes, orders, w) \in Nat /\ balances[w].reserved \in Nat
    BY <1>2, PendingFacts, BookEntries
  <2>3. mine = <<t.from_to, orders[id].quote>>
    BY <1>7 DEF mine
  <2>4. /\ w = mine => LockedOf(Booked(takes, id, t), orders, w) =
                         LockedOf(takes, orders, w) + QuoteAmount(t.amount, t.limit)
        /\ w # mine => LockedOf(Booked(takes, id, t), orders, w) = LockedOf(takes, orders, w)
    <3>1. w \in Wallets /\ t \in TakeOf /\ Len(takes[id]) < MaxTakes /\ orders[id] # NULL
      BY <1>3, <1>7
    <3> QED
      BY <1>2, <2>3, <3>1, LockedMore
  <2>5. CASE w = mine
    <3>1. LockedOf(takes', orders, w) = LockedOf(takes, orders, w) + QuoteAmount(t.amount, t.limit)
      BY <1>11, <2>5, <2>4
    <3> QED
      BY <1>3, <1>8, <1>9, <1>10, <2>1, <2>2, <2>5, <3>1
  <2>6. CASE w # mine
    <3>1. LockedOf(takes', orders, w) = LockedOf(takes, orders, w)
      BY <1>11, <2>6, <2>4
    <3>2. balances'[w] = balances[w]
      BY <1>10, <2>6
    <3> QED
      BY <1>3, <2>1, <3>1, <3>2
  <2> QED
    BY <2>5, <2>6
<1>17. TakesLocked'
  BY <1>16 DEF TakesLocked, LockedOf, QuotesOf, QuoteIn, PendingOf, PendingTakes, QuoteOf
<1> QED
  BY <1>4, <1>12, <1>13, <1>14, <1>15, <1>17 DEF AuctionInv

LEMMA LiquidateKeeps ==
    ASSUME AuctionInv, NEW id \in Ids, Liquidate(id) \/ LiquidateUnpaid(id)
    PROVE  AuctionInv'
<1> DEFINE o == orders[id]
           mine == <<o.from_to, o.base>>
<1>1. /\ TypeOK /\ treasury \in Nat /\ orders \in OrderBook /\ takes \in TakeBook /\ balances \in Books
      /\ treasury >= Endowment + Deposits(orders) /\ Deposits(orders) \in Nat
      /\ Endowment \in Nat /\ ordersIndex \in Nat
  BY Typed
<1>2. /\ phase = "open" /\ phase' = "open" /\ cursor' = cursor /\ visited' = visited
      /\ served' = served /\ now' = now /\ ordersIndex' = ordersIndex /\ takes' = takes
      /\ sold' = sold /\ o # NULL
      /\ balances' = Unreserve(balances, mine, o.amount)
  BY DEF Liquidate, LiquidateUnpaid, LiquidateFrame, loop
<1>3. /\ o \in SellOf /\ o.amount \in Nat /\ o.deposit \in Nat /\ o.from_to \in Accounts
      /\ o.base \in Assets
  BY <1>1, <1>2 DEF OrderBook, SellOf
<1>4. mine \in Wallets /\ mine \in sold
  BY <1>2, <1>3 DEF Wallets, AuctionInv, SellersNoted
<1>5. \/ /\ treasury - o.deposit >= ED /\ treasury' = treasury - o.deposit
         /\ native' = [native EXCEPT ![o.from_to] = native[o.from_to] + o.deposit]
         /\ orders' = [orders EXCEPT ![id] = NULL]
      \/ orders' = orders /\ native' = native /\ treasury' = treasury
  BY DEF Liquidate, LiquidateUnpaid
<1>6. /\ ServedVisited' /\ CursorBehind' /\ HighestBidFirst'
      /\ cursor' \in [id : Ids, amount : Nat, queue : Seq(TakeOf)] \cup {NULL}
      /\ visited' \subseteq Ids
  BY <1>2, LoopIdle
<1>7. o = orders[id]
  OBVIOUS
<1> HIDE DEF o, mine
<1>8. /\ balances' \in Books /\ \A v \in Wallets \ {mine} : balances'[v] = balances[v]
  BY <1>1, <1>2, <1>3, <1>4, UnreserveFacts
<1>9. /\ orders' \in OrderBook /\ native' \in [Accounts -> Nat] /\ treasury' \in Nat
      /\ treasury' >= Endowment + Deposits(orders')
      /\ \A i \in Ids : orders'[i] = orders[i] \/ orders'[i] = NULL
  <2>1. native \in [Accounts -> Nat] /\ ED \in Nat
    BY <1>1, ParameterTypes DEF TypeOK
  <2>2. CASE orders' = orders /\ native' = native /\ treasury' = treasury
    BY <1>1, <2>1, <2>2
  <2>3. CASE /\ treasury - o.deposit >= ED /\ treasury' = treasury - o.deposit
             /\ native' = [native EXCEPT ![o.from_to] = native[o.from_to] + o.deposit]
             /\ orders' = [orders EXCEPT ![id] = NULL]
    <3>1. /\ orders' \in OrderBook /\ Deposits(orders) = Deposits(orders') + o.deposit
      BY <1>1, <1>2, <1>7, <2>3, DepositDropped
    <3>2. Deposits(orders') \in Nat
      BY <3>1, DepositFacts
    <3>3. native' \in [Accounts -> Nat]
      BY <1>3, <2>1, <2>3
    <3>4. treasury' \in Nat /\ treasury' >= Endowment + Deposits(orders')
      BY <1>1, <1>3, <2>1, <2>3, <3>1, <3>2
    <3>5. \A i \in Ids : orders'[i] = orders[i] \/ orders'[i] = NULL
      BY <1>1, <2>3 DEF OrderBook
    <3> QED
      BY <3>1, <3>3, <3>4, <3>5
  <2> QED
    BY <1>5, <2>2, <2>3
<1>10. TypeOK'
  BY <1>1, <1>2, <1>6, <1>8, <1>9 DEF TypeOK, OrderBook, Books
<1>11. NothingAhead' /\ SellersNoted'
  BY <1>2, <1>9 DEF AuctionInv, NothingAhead, SellersNoted
<1>12. DepositsBacked'
  BY <1>9 DEF DepositsBacked, Deposits, DepositOf, OpenOrders, Open
<1>13. ASSUME NEW w \in Wallets \ sold'
       PROVE  LockedOf(takes', orders', w) <= balances'[w].reserved
  <2>1. w # mine /\ balances'[w] = balances[w] /\ w \notin sold
    BY <1>2, <1>4, <1>8
  <2>2. LockedOf(takes, orders, w) <= balances[w].reserved
    BY <1>2, <2>1, LockedIs DEF AuctionInv
  <2>3. PendingOf(takes, orders', w) \subseteq PendingOf(takes, orders, w)
    BY <1>9 DEF PendingOf
  <2>4. LockedOf(takes, orders', w) <= LockedOf(takes, orders, w)
    BY <1>1, <2>3, LockedFewer
  <2>5. /\ LockedOf(takes, orders', w) \in Nat /\ LockedOf(takes, orders, w) \in Nat
        /\ balances[w].reserved \in Nat
    BY <1>1, PendingFacts, BookEntries
  <2> QED
    BY <1>2, <2>1, <2>2, <2>4, <2>5
<1>14. TakesLocked'
  BY <1>13 DEF TakesLocked, LockedOf, QuotesOf, QuoteIn, PendingOf, PendingTakes, QuoteOf
<1> QED
  BY <1>6, <1>10, <1>11, <1>12, <1>14 DEF AuctionInv

-----------------------------------------------------------------------------
(* on_finalize.                                                            *)

Cursor == [id : Ids, amount : Nat, queue : Seq(TakeOf)]

(* The steps of on_finalize that leave the orders and the deposits alone.  *)
LEMMA FinalizeFrame ==
    ASSUME AuctionInv, phase' = "finalize" \/ phase' = "halted",
           now' = now, ordersIndex' = ordersIndex, orders' = orders, takes' = takes,
           native' = native, treasury' = treasury, sold' = sold, balances' \in Books,
           visited' \subseteq Ids, cursor' \in Cursor \cup {NULL},
           ServedVisited', CursorBehind', HighestBidFirst'
    PROVE  AuctionInv'
<1>1. TypeOK'
  BY DEF AuctionInv, TypeOK, Books, Cursor
<1>2. NothingAhead' /\ SellersNoted'
  BY DEF AuctionInv, NothingAhead, SellersNoted
<1>3. DepositsBacked'
  BY DEF AuctionInv, DepositsBacked, OpenOrders
<1>4. TakesLocked'
  BY DEF TakesLocked
<1> QED
  BY <1>1, <1>2, <1>3, <1>4 DEF AuctionInv

LEMMA BeginKeeps ==
    ASSUME AuctionInv, BeginFinalize
    PROVE  AuctionInv'
<1>1. /\ phase = "open" /\ phase' = "finalize" /\ now' = now /\ ordersIndex' = ordersIndex
      /\ orders' = orders /\ takes' = takes /\ native' = native /\ treasury' = treasury
      /\ sold' = sold /\ balances' = balances /\ cursor' = cursor /\ visited' = visited
      /\ served' = served
  BY DEF BeginFinalize, ledger, loop
<1>2. /\ ServedVisited' /\ CursorBehind' /\ HighestBidFirst'
      /\ cursor' \in Cursor \cup {NULL} /\ visited' \subseteq Ids
  BY <1>1, LoopIdle DEF Cursor
<1>3. balances' \in Books
  BY <1>1, Typed
<1> QED
  BY <1>1, <1>2, <1>3, FinalizeFrame

(* No take was served for an order before on_finalize comes to it.         *)
LEMMA VisitKeeps ==
    ASSUME AuctionInv, NEW id \in Ids, Visit(id)
    PROVE  AuctionInv'
<1>1. /\ phase = "finalize" /\ phase' = "finalize" /\ now' = now /\ ordersIndex' = ordersIndex
      /\ orders' = orders /\ takes' = takes /\ native' = native /\ treasury' = treasury
      /\ sold' = sold /\ balances' = balances /\ served' = served
      /\ visited' = visited \cup {id} /\ id \notin visited
      /\ cursor' = IF orders[id] = NULL THEN NULL
                   ELSE [id |-> id, amount |-> orders[id].amount,
                         queue |-> BestFirst(takes[id])]
  BY DEF Visit, Iterating, ledger
<1>2. /\ orders \in OrderBook /\ takes \in TakeBook /\ balances' \in Books
      /\ visited' \subseteq Ids
  BY <1>1, Typed DEF TypeOK
<1>3. takes[id] \in Seq(TakeOf)
  BY <1>2 DEF TakeBook
<1> DEFINE q == BestFirst(takes[id])
<1>4. q \in Seq(TakeOf) /\ QueueSorted(q)
  BY <1>3, BestFirstFacts
<1> HIDE DEF q
<1>5. \/ cursor' = NULL
      \/ /\ orders[id] # NULL /\ cursor' = [id |-> id, amount |-> orders[id].amount, queue |-> q]
         /\ cursor' \in Cursor /\ cursor'.id = id /\ cursor'.queue = q
  <2>1. CASE orders[id] = NULL
    BY <1>1, <2>1
  <2>2. CASE orders[id] # NULL
    <3>1. orders[id].amount \in Nat
      BY <1>2, <2>2 DEF OrderBook, SellOf
    <3>2. cursor' = [id |-> id, amount |-> orders[id].amount, queue |-> q]
      BY <1>1, <2>2 DEF q
    <3> QED
      BY <1>4, <2>2, <3>1, <3>2 DEF Cursor
  <2> QED
    BY <2>1, <2>2
<1>6. ServedVisited'
  BY <1>1 DEF AuctionInv, ServedVisited
<1>7. HighestBidFirst'
  BY <1>1 DEF AuctionInv, HighestBidFirst
<1>8. CursorBehind'
  <2>1. \A i \in DOMAIN served : served[i].id # id
    BY <1>1 DEF AuctionInv, ServedVisited
  <2> QED
    BY <1>1, <1>4, <1>5, <2>1 DEF CursorBehind
<1>9. cursor' \in Cursor \cup {NULL}
  BY <1>5
<1> QED
  BY <1>1, <1>2, <1>6, <1>7, <1>8, <1>9, FinalizeFrame

(* A take is served behind those with a higher limit, and it gets          *)
(* something only while there is something left for it.                    *)
LEMMA ServeKeeps ==
    ASSUME AuctionInv, Serving, balances' \in Books,
           NEW got \in Nat, got = TakenAmount(Head(cursor.queue), cursor.amount), Serve(got)
    PROVE  AuctionInv'
<1> DEFINE q == cursor.queue
           c == cursor.id
           left == cursor.amount
           e == [id |-> c, limit |-> Head(q).limit, asked |-> Head(q).amount, got |-> got]
           n == Len(served)
<1>1. /\ phase = "finalize" /\ phase' = "finalize" /\ now' = now /\ ordersIndex' = ordersIndex
      /\ orders' = orders /\ takes' = takes /\ native' = native /\ treasury' = treasury
      /\ sold' = sold /\ visited' = visited
      /\ cursor # NULL /\ q # <<>>
      /\ cursor' = [cursor EXCEPT !.amount = left - got, !.queue = Tail(q)]
      /\ served' = Append(served, e)
  BY DEF Serving, Serve
<1>2. cursor \in Cursor
  BY <1>1, Typed DEF TypeOK, Cursor
<1>3. c \in Ids /\ left \in Nat /\ q \in Seq(TakeOf)
  BY <1>2 DEF Cursor
<1>4. /\ Head(q) = q[1] /\ 1 \in DOMAIN q /\ Tail(q) \in Seq(TakeOf)
      /\ \A k \in DOMAIN Tail(q) : k + 1 \in DOMAIN q /\ Tail(q)[k] = q[k + 1] /\ k \in Nat \ {0}
  <2>1. Len(q) \in Nat \ {0} /\ Len(Tail(q)) = Len(q) - 1 /\ Tail(q) \in Seq(TakeOf)
    BY <1>1, <1>3
  <2>2. DOMAIN Tail(q) = 1..(Len(q) - 1) /\ DOMAIN q = 1..Len(q)
    BY <1>3, <2>1
  <2> QED
    BY <1>1, <1>3, <2>1, <2>2
<1>5. q[1] \in TakeOf
  BY <1>3, <1>4
<1>6. Head(q).limit \in Nat /\ Head(q).amount \in Nat
  BY <1>4, <1>5 DEF TakeOf
<1>7. /\ got <= left /\ left - got \in Nat
      /\ left - got > 0 => got = Head(q).amount
  BY <1>3, <1>6 DEF TakenAmount, Least
<1>8. /\ e \in ServedType /\ e.id = c /\ e.limit = q[1].limit /\ e.asked = q[1].amount
      /\ e.got = got
  BY <1>3, <1>4, <1>6 DEF ServedType
<1> HIDE DEF e, q, c, left
<1>9. /\ cursor' \in Cursor /\ cursor'.id = c /\ cursor'.amount = left - got
      /\ cursor'.queue = Tail(q)
  BY <1>1, <1>2, <1>4, <1>7 DEF Cursor, c
<1>10. /\ served \in Seq(ServedType) /\ \A i \in DOMAIN served : served[i].id \in visited
       /\ orders[c] # NULL /\ c \in visited /\ QueueSorted(q)
       /\ \A i \in DOMAIN served : served[i].id = c =>
              /\ \A k \in DOMAIN q : served[i].limit >= q[k].limit
              /\ left > 0 => served[i].got = served[i].asked
  BY <1>1 DEF AuctionInv, ServedVisited, CursorBehind, c, q, left
<1>11. /\ served' \in Seq(ServedType) /\ n \in Nat
       /\ DOMAIN served = 1..n /\ DOMAIN served' = 1..(n + 1)
       /\ \A i \in DOMAIN served : served'[i] = served[i] /\ served[i] \in ServedType
       /\ served'[n + 1] = e
  <2>1. /\ Append(served, e) \in Seq(ServedType) /\ Len(Append(served, e)) = n + 1
        /\ \A i \in 1..n : Append(served, e)[i] = served[i]
        /\ Append(served, e)[n + 1] = e
    BY <1>8, <1>10, AppendProperties
  <2>2. n \in Nat /\ DOMAIN served = 1..n /\ \A i \in DOMAIN served : served[i] \in ServedType
    BY <1>10
  <2> QED
    BY <1>1, <2>1, <2>2
<1> HIDE DEF n
<1>12. \A i \in DOMAIN served' : i \in DOMAIN served \/ i = n + 1
  BY <1>11
<1>13. ServedVisited'
  <2>1. \A i \in DOMAIN served' : served'[i].id \in visited'
    BY <1>1, <1>8, <1>10, <1>11, <1>12
  <2> QED
    BY <1>11, <2>1 DEF ServedVisited, ServedType
<1>14. \A k \in DOMAIN Tail(q) : q[1].limit >= Tail(q)[k].limit
  BY <1>4, <1>10 DEF QueueSorted
<1>15. QueueSorted(Tail(q))
  <2> SUFFICES ASSUME NEW k \in DOMAIN Tail(q), NEW m \in DOMAIN Tail(q), k < m
               PROVE  Tail(q)[k].limit >= Tail(q)[m].limit
    BY DEF QueueSorted
  <2>1. /\ k + 1 \in DOMAIN q /\ m + 1 \in DOMAIN q /\ k + 1 < m + 1
        /\ Tail(q)[k] = q[k + 1] /\ Tail(q)[m] = q[m + 1]
    BY <1>4
  <2> QED
    BY <1>10, <2>1 DEF QueueSorted
<1>16. CursorBehind'
  <2>1. ASSUME NEW i \in DOMAIN served', served'[i].id = c
        PROVE  /\ \A k \in DOMAIN Tail(q) : served'[i].limit >= Tail(q)[k].limit
               /\ left - got > 0 => served'[i].got = served'[i].asked
    <3>1. CASE i \in DOMAIN served
      <4>1. served'[i] = served[i]
        BY <1>11, <3>1
      <4>2. /\ \A k \in DOMAIN q : served[i].limit >= q[k].limit
            /\ left > 0 => served[i].got = served[i].asked
        BY <1>10, <2>1, <3>1, <4>1
      <4>3. left - got > 0 => left > 0
        BY <1>3, <1>7 DEF left
      <4> QED
        BY <1>4, <4>1, <4>2, <4>3
    <3>2. CASE i = n + 1
      BY <1>4, <1>7, <1>8, <1>11, <1>14, <3>2
    <3> QED
      BY <1>12, <3>1, <3>2
  <2>2. phase' # "open" /\ orders'[c] # NULL /\ c \in visited'
    BY <1>1, <1>10
  <2> QED
    BY <1>9, <1>15, <2>1, <2>2 DEF CursorBehind
<1>17. HighestBidFirst'
  <2> SUFFICES ASSUME NEW i \in DOMAIN served', NEW j \in DOMAIN served', i < j,
                      served'[i].id = served'[j].id
               PROVE  /\ served'[i].limit >= served'[j].limit
                      /\ served'[j].got > 0 => served'[i].got = served'[i].asked
    BY DEF HighestBidFirst
  <2>1. i \in DOMAIN served /\ served'[i] = served[i]
    BY <1>11
  <2>2. CASE j \in DOMAIN served
    <3>1. served'[j] = served[j]
      BY <1>11, <2>2
    <3> QED
      BY <2>1, <2>2, <3>1 DEF AuctionInv, HighestBidFirst
  <2>3. CASE j = n + 1
    <3>1. served'[j] = e /\ served[i].id = c
      BY <1>8, <1>11, <2>1, <2>3
    <3>2. /\ \A k \in DOMAIN q : served[i].limit >= q[k].limit
          /\ left > 0 => served[i].got = served[i].asked
      BY <1>10, <2>1, <3>1
    <3>3. got > 0 => left > 0
      BY <1>3, <1>7 DEF left
    <3> QED
      BY <1>4, <1>8, <2>1, <3>1, <3>2, <3>3
  <2> QED
    BY <1>12, <2>2, <2>3
<1>18. visited' \subseteq Ids
  BY <1>1, Typed DEF TypeOK
<1> QED
  BY <1>1, <1>9, <1>13, <1>16, <1>17, <1>18, FinalizeFrame

(* The take at hand and its order.                                         *)
LEMMA AtHand ==
    ASSUME AuctionInv, Serving
    PROVE  /\ Head(cursor.queue) \in TakeOf
           /\ Head(cursor.queue).from_to \in Accounts
           /\ Head(cursor.queue).amount \in Nat /\ Head(cursor.queue).limit \in Nat
           /\ cursor.amount \in Nat
           /\ orders[cursor.id].from_to \in Accounts
           /\ orders[cursor.id].base \in Assets /\ orders[cursor.id].quote \in Assets
<1>1. cursor # NULL /\ cursor.queue # <<>>
  BY DEF Serving
<1>2. cursor \in Cursor
  BY <1>1, Typed DEF TypeOK, Cursor
<1>3. cursor.id \in Ids /\ cursor.amount \in Nat /\ cursor.queue \in Seq(TakeOf)
  BY <1>2 DEF Cursor
<1>4. Head(cursor.queue) \in TakeOf
  BY <1>1, <1>3
<1>5. orders[cursor.id] # NULL /\ orders \in OrderBook
  BY <1>1, Typed DEF AuctionInv, CursorBehind
<1>6. orders[cursor.id] \in SellOf
  BY <1>3, <1>5 DEF OrderBook
<1>7. \A t \in TakeOf : t.from_to \in Accounts /\ t.amount \in Nat /\ t.limit \in Nat
  BY DEF TakeOf
<1> QED
  BY <1>3, <1>4, <1>6, <1>7 DEF SellOf

LEMMA RefundKeeps ==
    ASSUME AuctionInv, Refund
    PROVE  AuctionInv'
<1> DEFINE take == Head(cursor.queue)
           w == <<take.from_to, orders[cursor.id].quote>>
           paid == QuoteAmount(take.amount, take.limit)
<1>1. /\ Serving /\ cursor.amount = 0 /\ Serve(0)
      /\ balances' = Unreserve(balances, w, paid)
  BY DEF Refund
<1>2. take.amount \in Nat /\ take.limit \in Nat /\ w \in Wallets
  BY <1>1, AtHand DEF Wallets
<1>3. paid \in Nat
  BY <1>2, QuoteNat
<1>4. balances \in Books
  BY Typed
<1>5. 0 = TakenAmount(take, cursor.amount)
  BY <1>1, <1>2 DEF TakenAmount, Least
<1>6. balances' \in Books
  <2> HIDE DEF w, paid
  <2> QED
    BY <1>1, <1>2, <1>3, <1>4, UnreserveFacts
<1> QED
  BY <1>1, <1>5, <1>6, ServeKeeps

(* exchange_reserved: what the guards let through leaves no balance        *)
(* negative.                                                               *)
LEMMA FillKeeps ==
    ASSUME AuctionInv, Fill
    PROVE  AuctionInv'
<1> DEFINE take == Head(cursor.queue)
           order == orders[cursor.id]
           seller == order.from_to
           taker == take.from_to
           amount == TakenAmount(take, cursor.amount)
           paid == QuoteAmount(amount, take.limit)
           change == QuoteAmount(take.amount, take.limit) - paid
           released == Released(seller, order.base, amount, taker, order.quote, paid)
           delivered == Transfer(released, <<seller, order.base>>, <<taker, order.base>>, amount)
           exchanged == Transfer(delivered, <<taker, order.quote>>, <<seller, order.quote>>, paid)
<1>1. Serving
  BY DEF Fill
<1>2. \/ /\ released[<<seller, order.base>>].free >= amount
         /\ delivered[<<taker, order.quote>>].free >= paid
         /\ balances' = Unreserve(exchanged, <<taker, order.quote>>, change)
         /\ Serve(amount)
      \/ /\ phase' = "halted"
         /\ UNCHANGED <<now, ordersIndex, orders, takes, ledger, loop, sold>>
  BY Zenon DEF Fill
<1>3. /\ take.amount \in Nat /\ take.limit \in Nat /\ cursor.amount \in Nat
      /\ seller \in Accounts /\ taker \in Accounts
      /\ order.base \in Assets /\ order.quote \in Assets
  BY <1>1, AtHand
<1>4. /\ <<seller, order.base>> \in Wallets /\ <<taker, order.base>> \in Wallets
      /\ <<taker, order.quote>> \in Wallets /\ <<seller, order.quote>> \in Wallets
  BY <1>3 DEF Wallets
<1>5. amount \in Nat /\ amount <= take.amount
  BY <1>3 DEF TakenAmount, Least
<1>6. amount = TakenAmount(Head(cursor.queue), cursor.amount)
  OBVIOUS
<1>7. paid \in Nat /\ change \in Nat
  <2> HIDE DEF take, amount
  <2>1. /\ paid \in Nat /\ QuoteAmount(take.amount, take.limit) \in Nat
        /\ paid <= QuoteAmount(take.amount, take.limit)
    BY <1>3, <1>5, QuoteType
  <2> HIDE DEF paid
  <2> QED
    BY <2>1
<1>8. released \in Books
  <2> HIDE DEF amount, paid, seller, taker, order
  <2>1. balances \in Books
    BY Typed
  <2>2. Unreserve(balances, <<seller, order.base>>, amount) \in Books
    BY <1>4, <1>5, <2>1, UnreserveFacts
  <2> QED
    BY <1>4, <1>7, <2>2, UnreserveFacts DEF Released
<1>9. CASE /\ released[<<seller, order.base>>].free >= amount
           /\ delivered[<<taker, order.quote>>].free >= paid
           /\ balances' = Unreserve(exchanged, <<taker, order.quote>>, change)
           /\ Serve(amount)
  <2>1. delivered \in Books
    <3> HIDE DEF amount, seller, taker, order, released
    <3> QED
      BY <1>4, <1>5, <1>8, <1>9, TransferType
  <2>2. exchanged \in Books
    <3> HIDE DEF paid, seller, taker, order, delivered
    <3> QED
      BY <1>4, <1>7, <1>9, <2>1, TransferType
  <2>3. balances' \in Books
    <3> HIDE DEF change, taker, order, exchanged
    <3> QED
      BY <1>4, <1>7, <1>9, <2>2, UnreserveFacts
  <2> HIDE DEF amount
  <2> QED
    BY <1>1, <1>5, <1>6, <1>9, <2>3, ServeKeeps
<1>10. CASE /\ phase' = "halted"
            /\ UNCHANGED <<now, ordersIndex, orders, takes, ledger, loop, sold>>
  <2>1. /\ phase' = "halted" /\ now' = now /\ ordersIndex' = ordersIndex /\ orders' = orders
        /\ takes' = takes /\ native' = native /\ treasury' = treasury /\ sold' = sold
        /\ balances' = balances /\ visited' = visited /\ cursor' = cursor /\ served' = served
    BY <1>10 DEF ledger, loop
  <2>2. balances' \in Books
    BY <2>1, Typed
  <2>3. visited' \subseteq Ids /\ cursor' \in Cursor \cup {NULL}
    BY <2>1, Typed DEF TypeOK, Cursor
  <2>4. ServedVisited' /\ HighestBidFirst'
    BY <2>1 DEF AuctionInv, ServedVisited, HighestBidFirst
  <2>5. CursorBehind'
    BY <2>1 DEF AuctionInv, CursorBehind
  <2> QED
    BY <2>1, <2>2, <2>3, <2>4, <2>5, FinalizeFrame
<1> HIDE DEF amount, paid, change, seller, taker, order, released, delivered, exchanged
<1> QED
  BY <1>2, <1>9, <1>10

LEMMA LeaveKeeps ==
    ASSUME AuctionInv, Leave
    PROVE  AuctionInv'
<1>1. /\ phase = "finalize" /\ phase' = "finalize" /\ cursor # NULL /\ cursor' = NULL
      /\ now' = now /\ ordersIndex' = ordersIndex /\ takes' = takes /\ balances' = balances
      /\ native' = native /\ treasury' = treasury /\ visited' = visited
      /\ served' = served /\ sold' = sold
      /\ orders' = orders \/ orders' = [orders EXCEPT ![cursor.id] = NULL]
  BY DEF Leave, ledger
<1>2. /\ TypeOK /\ treasury \in Nat /\ orders \in OrderBook
      /\ treasury >= Endowment + Deposits(orders) /\ Deposits(orders) \in Nat
      /\ Endowment \in Nat
  BY Typed
<1>3. cursor.id \in Ids /\ orders[cursor.id] # NULL
  BY <1>1, <1>2 DEF TypeOK, AuctionInv, CursorBehind
<1>4. /\ orders' \in OrderBook /\ treasury' >= Endowment + Deposits(orders')
      /\ \A i \in Ids : orders'[i] = orders[i] \/ orders'[i] = NULL
  <2>1. CASE orders' = orders
    BY <1>1, <1>2, <2>1
  <2>2. CASE orders' = [orders EXCEPT ![cursor.id] = NULL]
    <3>1. /\ orders' \in OrderBook /\ orders[cursor.id].deposit \in Nat
          /\ Deposits(orders) = Deposits(orders') + orders[cursor.id].deposit
      BY <1>2, <1>3, <2>2, DepositDropped
    <3>2. Deposits(orders') \in Nat
      BY <3>1, DepositFacts
    <3>3. \A i \in Ids : orders'[i] = orders[i] \/ orders'[i] = NULL
      BY <1>2, <2>2 DEF OrderBook
    <3> QED
      BY <1>1, <1>2, <3>1, <3>2, <3>3
  <2> QED
    BY <1>1, <2>1, <2>2
<1>5. TypeOK'
  BY <1>1, <1>2, <1>4 DEF TypeOK, OrderBook
<1>6. ServedVisited' /\ HighestBidFirst'
  BY <1>1 DEF AuctionInv, ServedVisited, HighestBidFirst
<1>7. CursorBehind' /\ TakesLocked'
  BY <1>1 DEF CursorBehind, TakesLocked
<1>8. NothingAhead' /\ SellersNoted'
  BY <1>1, <1>4 DEF AuctionInv, NothingAhead, SellersNoted
<1>9. DepositsBacked'
  BY <1>4 DEF DepositsBacked, Deposits, DepositOf, OpenOrders, Open
<1> QED
  BY <1>5, <1>6, <1>7, <1>8, <1>9 DEF AuctionInv

LEMMA EndKeeps ==
    ASSUME AuctionInv, EndFinalize
    PROVE  AuctionInv'
<1>1. /\ cursor = NULL /\ cursor' = NULL /\ takes' = [id \in Ids |-> <<>>] /\ phase' = "open"
      /\ now' = now + 1 /\ visited' = {} /\ served' = <<>> /\ ordersIndex' = ordersIndex
      /\ orders' = orders /\ balances' = balances /\ native' = native
      /\ treasury' = treasury /\ sold' = sold
  BY DEF EndFinalize, Iterating, ledger
<1>2. TypeOK'
  BY <1>1, Typed DEF TypeOK
<1>3. ServedVisited' /\ CursorBehind' /\ HighestBidFirst'
  BY <1>1 DEF ServedVisited, CursorBehind, HighestBidFirst
<1>4. NothingAhead' /\ SellersNoted'
  BY <1>1 DEF AuctionInv, NothingAhead, SellersNoted
<1>5. DepositsBacked'
  BY <1>1 DEF AuctionInv, DepositsBacked, OpenOrders
<1>6. ASSUME NEW w \in Wallets \ sold'
      PROVE  LockedOf(takes', orders', w) <= balances'[w].reserved
  <2>1. LockedOf(takes', orders', w) = 0
    BY <1>1, LockedNone
  <2>2. balances'[w].reserved \in Nat
    BY <1>1, Typed, BookEntries
  <2> QED
    BY <2>1, <2>2
<1>7. TakesLocked'
  BY <1>6 DEF TakesLocked, LockedOf, QuotesOf, QuoteIn, PendingOf, PendingTakes, QuoteOf
<1> QED
  BY <1>2, <1>3, <1>4, <1>5, <1>7 DEF AuctionInv

-----------------------------------------------------------------------------
(* The theorems.                                                           *)

LEMMA AuctionBegins == Init => AuctionInv
<1> SUFFICES ASSUME Init PROVE AuctionInv
  OBVIOUS
<1>1. TypeOK
  BY ParameterTypes DEF Init, TypeOK, Balance
<1>2. ServedVisited /\ CursorBehind /\ HighestBidFirst
  BY DEF Init, ServedVisited, CursorBehind, HighestBidFirst
<1>3. NothingAhead /\ SellersNoted
  BY DEF Init, NothingAhead, SellersNoted
<1>4. DepositsBacked
  <2>1. Open(orders) = {}
    BY DEF Init, Open
  <2>2. DOMAIN DepositOf(orders) = {}
    BY <2>1 DEF DepositOf
  <2>3. Deposits(orders) = 0
    BY <2>2, SumOfNone DEF Deposits, SumFunction
  <2> QED
    BY <2>3, BackedIs, ParameterTypes DEF Init
<1>5. TakesLocked
  <2>1. ASSUME NEW w \in Wallets \ sold PROVE LockedOf(takes, orders, w) <= balances[w].reserved
    <3>1. LockedOf(takes, orders, w) = 0
      BY LockedNone DEF Init
    <3>2. balances[w].reserved = 0
      BY DEF Init
    <3> QED
      BY <3>1, <3>2
  <2> QED
    BY <2>1, LockedIs
<1> QED
  BY <1>1, <1>2, <1>3, <1>4, <1>5 DEF AuctionInv

LEMMA AuctionStays == AuctionInv /\ [Next]_vars => AuctionInv'
<1> SUFFICES ASSUME AuctionInv, [Next]_vars PROVE AuctionInv'
  OBVIOUS
<1>1. CASE \E u \in Accounts : SellerCall(u)
  <2>1. PICK u \in Accounts : SellerCall(u)
    BY <1>1
  <2> QED
    BY <2>1, AskKeeps, AskFails, LiquidateKeeps DEF SellerCall
<1>2. CASE \E u \in Accounts : TakerCall(u)
  BY <1>2, TakeKeeps DEF TakerCall
<1>3. CASE BeginFinalize
  BY <1>3, BeginKeeps
<1>4. CASE OnFinalize
  BY <1>4, VisitKeeps, RefundKeeps, FillKeeps, LeaveKeeps, EndKeeps DEF OnFinalize
<1>5. CASE UNCHANGED vars
  <2>1. /\ TypeOK' /\ ServedVisited' /\ CursorBehind' /\ HighestBidFirst'
    BY <1>5 DEF vars, AuctionInv, TypeOK, ServedVisited, CursorBehind, HighestBidFirst
  <2>2. NothingAhead' /\ SellersNoted' /\ DepositsBacked'
    BY <1>5 DEF vars, AuctionInv, NothingAhead, SellersNoted, DepositsBacked, OpenOrders
  <2>3. TakesLocked'
    BY <1>5 DEF vars, AuctionInv, TakesLocked, PendingTakes, QuoteOf
  <2> QED
    BY <2>1, <2>2, <2>3 DEF AuctionInv
<1> QED
  BY <1>1, <1>2, <1>3, <1>4, <1>5 DEF Next

LEMMA AuctionInvariant == Spec => []AuctionInv
BY AuctionBegins, AuctionStays, PTL DEF Spec

(* Every storage item of the auction keeps its type: no balance and no     *)
(* amount left of an order goes below zero, whatever exchange_reserved     *)
(* and unreserve were asked to move.                                       *)
THEOREM AuctionTypesKept == Spec => []TypeOK
<1>1. AuctionInv => TypeOK
  BY DEF AuctionInv
<1> QED
  BY <1>1, AuctionInvariant, PTL

(* The pallet's account holds the deposits of all open orders on top of    *)
(* its endowment, also after asks that paid and failed, and after          *)
(* liquidations that could not be paid out.                                *)
THEOREM DepositsStayBacked == Spec => []DepositsBacked
<1>1. AuctionInv => DepositsBacked
  BY DEF AuctionInv
<1> QED
  BY <1>1, AuctionInvariant, PTL

(* While calls run, a wallet that never backed an order has reserved the   *)
(* quotes of all its pending takes at once.                                *)
THEOREM TakesStayLocked == Spec => []TakesLocked
<1>1. AuctionInv => TakesLocked
  BY DEF AuctionInv
<1> QED
  BY <1>1, AuctionInvariant, PTL

(* on_finalize serves the bids of an order by falling limit, and one bid   *)
(* gets something only when all the bids before it got what they asked.    *)
THEOREM BestBidsFirst == Spec => []HighestBidFirst
<1>1. AuctionInv => HighestBidFirst
  BY DEF AuctionInv
<1> QED
  BY <1>1, AuctionInvariant, PTL
=============================================================================
