----------------------------- MODULE Votes_proofs -----------------------------
(***************************************************************************)
(* Proofs about Votes: type correctness, that only ballots of those        *)
(* present count, that majorities decide, that a kick hits the accused,    *)
(* and that clients hear of the end of a vote; for any number of slots,    *)
(* machines, votes and watched clients.                                    *)
(***************************************************************************)
EXTENDS Votes, FiniteSetTheorems, TLAPS

(* Induction up to a number, for a set: the numbers below the first one    *)
(* missing would all have a successor among them, in one place less.       *)
LEMMA SetInduction ==
  ASSUME NEW n \in Nat, NEW S, 0 \in S, \A k \in 0 .. n : k # n /\ k \in S => k + 1 \in S
  PROVE  \A k \in 0 .. n : k \in S
<1> SUFFICES ASSUME NEW m \in 0 .. n, m \notin S PROVE FALSE
  OBVIOUS
<1> DEFINE T == S \cap (0 .. m)
           f == [k \in T |-> k + 1]
<1>1. IsFiniteSet(0 .. m)
  BY FS_Interval
<1>2. T \in SUBSET (0 .. m)
  OBVIOUS
<1>3. IsFiniteSet(T) /\ 0 \in T
  BY <1>1, <1>2, FS_Subset
<1>4. IsFiniteSet(T \ {0}) /\ Cardinality(T \ {0}) = Cardinality(T) - 1
      /\ Cardinality(T) \in Nat
  BY <1>3, FS_RemoveElement, FS_CardinalityType
<1>5. \A k \in T : k + 1 \in T \ {0}
  OBVIOUS
<1>6. f \in [T -> T \ {0}]
  BY <1>5
<1>7. \A x, y \in T : f[x] = f[y] => x = y
  OBVIOUS
<1> HIDE DEF f, T
<1>8. Cardinality(T \ {0}) < Cardinality(T)
  BY <1>4
<1>9. \E x, y \in T : x # y /\ f[x] = f[y]
  BY <1>3, <1>4, <1>6, <1>8, FS_PigeonHole
<1> QED
  BY <1>7, <1>9

(* The recursion of AfterLooks is well defined.                            *)
LEMMA LooksDefined ==
  ASSUME NEW w, Len(w.items) \in Nat
  PROVE  LET n == Len(w.items) IN
         /\ AfterLooks(w)[0] = w
         /\ \A k \in 1 .. n :
              AfterLooks(w)[k] = Evaluated(AfterLooks(w)[k - 1], n + 1 - k)
<1> DEFINE n == Len(w.items)
           Upto(m, g) == g = [k \in 0 .. m |-> IF k = 0 THEN w ELSE Evaluated(g[k - 1], n + 1 - k)]
           S == {m \in 0 .. n : \E g : Upto(m, g)}
<1>0. n \in Nat
  OBVIOUS
<1> HIDE DEF n
<1>1. 0 \in S
  <2> DEFINE g == [k \in 0 .. 0 |-> w]
  <2>1. g = [k \in 0 .. 0 |-> IF k = 0 THEN w ELSE Evaluated(g[k - 1], n + 1 - k)]
    OBVIOUS
  <2> HIDE DEF g
  <2>2. \E f : Upto(0, f)
    BY <2>1
  <2> HIDE DEF Upto
  <2> QED
    BY <1>0, <2>2
<1>2. ASSUME NEW m \in 0 .. n, m # n, m \in S PROVE m + 1 \in S
  <2>1. PICK g : Upto(m, g)
    BY <1>2
  <2> DEFINE h == [k \in 0 .. m + 1 |-> IF k = m + 1 THEN Evaluated(g[m], n + 1 - k) ELSE g[k]]
  <2>2. \A k \in 0 .. m : g[k] = IF k = 0 THEN w ELSE Evaluated(g[k - 1], n + 1 - k)
    BY <1>0, <2>1
  <2>3. ASSUME NEW k \in 0 .. m + 1
        PROVE  h[k] = IF k = 0 THEN w ELSE Evaluated(h[k - 1], n + 1 - k)
    <3>1. CASE k = m + 1
      BY <1>0, <3>1
    <3>2. CASE k \in 0 .. m
      BY <1>0, <2>2, <3>2
    <3> QED
      BY <1>0, <3>1, <3>2
  <2>4. h = [k \in 0 .. m + 1 |-> h[k]]
    OBVIOUS
  <2> HIDE DEF h
  <2>5. Upto(m + 1, h)
    BY <2>3, <2>4
  <2>6. \E f : Upto(m + 1, f)
    BY <2>5
  <2>7. m + 1 \in 0 .. n
    BY <1>0, <1>2
  <2> HIDE DEF Upto
  <2> QED
    BY <2>6, <2>7
<1> HIDE DEF S
<1>3. n \in S
  <2>1. \A m \in 0 .. n : m # n /\ m \in S => m + 1 \in S
    BY <1>2
  <2>2. \A k \in 0 .. n : k \in S
    BY <1>0, <1>1, <2>1, SetInduction
  <2> QED
    BY <1>0, <2>2
<1> USE DEF S
<1>4. PICK g : Upto(n, g)
  BY <1>3
<1>5. AfterLooks(w) = CHOOSE f : Upto(n, f)
  BY DEF AfterLooks, n
<1>6. Upto(n, AfterLooks(w))
  BY <1>4, <1>5
<1>7. DOMAIN AfterLooks(w) = 0 .. n
  BY <1>6
<1> DEFINE a == AfterLooks(w)
<1>8. \A k \in 0 .. n : a[k] = IF k = 0 THEN w ELSE Evaluated(a[k - 1], n + 1 - k)
  BY <1>0, <1>6
<1> QED
  BY <1>0, <1>8 DEF n

-----------------------------------------------------------------------------
(* The server's state as a record.                                         *)
Servers == [seats : [Slots -> Seats], items : Seq(Items), told : SUBSET (News \cup Changes),
            passed : SUBSET [item : Items, machines : SUBSET Machines]]

(* The machines in some seats.                                             *)
Here(st) == {st[s].machine : s \in {t \in Slots : st[t] # None}}

(* Item belongs to those who are there.                                    *)
Fine(st, item) ==
  /\ item.pro \cup item.con \subseteq Here(st)
  /\ item.pro \cap item.con = {}
  /\ item.suggestor \in Here(st) \cup {None}
  /\ IsFiniteSet(item.asked) /\ Cardinality(item.asked) <= item.total
  /\ item.suspect # 0 =>
       st[item.suspect] # None /\ st[item.suspect].machine = item.accused
  /\ item.machine \in {item.accused, None}

(* A vote was accepted for good reasons, and hit whom it was about.        *)
Just(p) ==
  /\ Cardinality(p.item.pro) > Cardinality(p.item.con) + Bias
  /\ p.item.age = 0 =>
       2 * Cardinality(p.item.pro) > Cardinality(p.item.asked) + Bias
  /\ p.machines \subseteq {p.item.accused}

(* A vote is open, or clients are told that it is not.                     *)
Known(w, id) ==
  (\E k \in DOMAIN w.items : w.items[k].id = id) \/ Change(id, TRUE) \in w.told

Sound(w) ==
  /\ w \in Servers
  /\ \A k \in DOMAIN w.items : Fine(w.seats, w.items[k])
  /\ \A p \in w.passed : Just(p)
  /\ \A id \in Ids : Announce(id) \notin w.told
  /\ \A id \in Ids : Change(id, FALSE) \in w.told => Known(w, id)

(* What a client has heard of is open, or the end is to come, or is lost.  *)
Covered(s, id) ==
  \/ \E k \in DOMAIN items : items[k].id = id
  \/ Change(id, TRUE) \in mail[s]
  \/ id \in overtaken[s]
HeardOf(s, id) ==
  \/ Announce(id) \in mail[s]
  \/ Change(id, FALSE) \in mail[s]
  \/ [id |-> id, expired |-> FALSE] \in shown[s]
ClientsInv ==
  \A s \in Watched :
    /\ seats[s] = None => shown[s] = {} /\ mail[s] = {}
    /\ \A id \in Ids : HeardOf(s, id) => Covered(s, id)

Inv ==
  /\ TypeOK
  /\ \A k \in DOMAIN items : Fine(seats, items[k])
  /\ \A p \in passed : Just(p)
  /\ ClientsInv

-----------------------------------------------------------------------------
(* Counting.                                                               *)
LEMMA ImageCount ==
  ASSUME NEW S, IsFiniteSet(S), NEW f, DOMAIN f = S
  PROVE  LET T == {f[x] : x \in S}
         IN  IsFiniteSet(T) /\ Cardinality(T) \in Nat /\ Cardinality(T) <= Cardinality(S)
<1> DEFINE T == {f[x] : x \in S}
           g == [x \in S |-> f[x]]
<1>1. g \in Surjection(S, T)
  BY DEF Surjection
<1> HIDE DEF g, T
<1>2. IsFiniteSet(T) /\ Cardinality(T) <= Cardinality(S)
  BY <1>1, FS_Surjection
<1>3. Cardinality(T) \in Nat
  BY <1>2, FS_CardinalityType
<1> QED
  BY <1>2, <1>3 DEF T

LEMMA SlotsFinite ==
  /\ MaxClients \in Nat /\ IsFiniteSet(Slots) /\ Cardinality(Slots) = MaxClients
  /\ \A s \in Slots : Cardinality(Slots \ {s}) = MaxClients - 1
<1>1. MaxClients \in Nat
  BY VotesAssumption
<1>2. IsFiniteSet(Slots) /\ Cardinality(Slots) = MaxClients
  BY <1>1, FS_Interval DEF Slots
<1> QED
  BY <1>1, <1>2, FS_RemoveElement

LEMMA HereFinite ==
  ASSUME NEW st
  PROVE  IsFiniteSet(Here(st))
<1> DEFINE C == {t \in Slots : st[t] # None}
           f == [s \in C |-> st[s].machine]
<1>1. C \in SUBSET Slots
  OBVIOUS
<1>2. IsFiniteSet(C)
  BY <1>1, SlotsFinite, FS_Subset
<1>3. Here(st) = {f[x] : x \in C}
  BY DEF Here
<1>4. DOMAIN f = C
  OBVIOUS
<1> HIDE DEF C, f
<1> QED
  BY <1>2, <1>3, <1>4, ImageCount

LEMMA VotersCount ==
  ASSUME NEW w, NEW S \in SUBSET Slots
  PROVE  /\ IsFiniteSet(VotersIn(w, S)) /\ Cardinality(VotersIn(w, S)) \in Nat
         /\ Cardinality(VotersIn(w, S)) <= Cardinality(S)
<1> DEFINE f == [s \in S |-> Voter(w, s)]
           T == {f[s] : s \in S}
<1>1. IsFiniteSet(S) /\ DOMAIN f = S
  BY SlotsFinite, FS_Subset
<1>2. VotersIn(w, S) \in SUBSET T
  BY DEF VotersIn
<1>3. Cardinality(S) \in Nat
  BY <1>1, FS_CardinalityType
<1> HIDE DEF f
<1>4. IsFiniteSet(T) /\ Cardinality(T) \in Nat /\ Cardinality(T) <= Cardinality(S)
  BY <1>1, ImageCount
<1> HIDE DEF T
<1>5. IsFiniteSet(VotersIn(w, S)) /\ Cardinality(VotersIn(w, S)) <= Cardinality(T)
  BY <1>2, <1>4, FS_Subset
<1>6. Cardinality(VotersIn(w, S)) \in Nat
  BY <1>5, FS_CardinalityType
<1> QED
  BY <1>3, <1>4, <1>5, <1>6

(* The number of voters of a vote is not less than of those asked.         *)
LEMMA TotalCounts ==
  ASSUME NEW w, NEW s \in Slots
  PROVE  /\ TotalOf(w, s) \in 1 .. MaxClients
         /\ IsFiniteSet(VotersIn(w, Slots))
         /\ Cardinality(VotersIn(w, Slots)) <= TotalOf(w, s)
<1> DEFINE R == VotersIn(w, Slots \ {s})
           A == VotersIn(w, Slots)
<1>1. Slots \ {s} \in SUBSET Slots /\ Slots \in SUBSET Slots
  OBVIOUS
<1>2. /\ IsFiniteSet(R) /\ Cardinality(R) \in Nat
      /\ Cardinality(R) <= MaxClients - 1
  BY <1>1, VotersCount, SlotsFinite
<1>3. IsFiniteSet(A) /\ Cardinality(A) \in Nat
  BY <1>1, VotersCount
<1>4. A \in SUBSET (R \cup {Voter(w, s)})
  BY DEF VotersIn
<1> HIDE DEF A, R
<1>5. /\ IsFiniteSet(R \cup {Voter(w, s)})
      /\ Cardinality(R \cup {Voter(w, s)}) <= Cardinality(R) + 1
  BY <1>2, FS_AddElement
<1>6. Cardinality(R \cup {Voter(w, s)}) \in Nat
  BY <1>5, FS_CardinalityType
<1>7. Cardinality(A) <= Cardinality(R) + 1
  BY <1>2, <1>3, <1>4, <1>5, <1>6, FS_Subset
<1>8. TotalOf(w, s) = 1 + Cardinality(R)
  BY DEF TotalOf, R
<1> QED
  BY <1>2, <1>3, <1>7, <1>8, SlotsFinite DEF A

-----------------------------------------------------------------------------
(* Seats.                                                                  *)
LEMMA SeatFacts ==
  ASSUME NEW st \in [Slots -> Seats], NEW s \in Slots, st[s] # None
  PROVE  /\ st[s] \in [machine : Machines, playing : BOOLEAN]
         /\ st[s].machine \in Machines /\ st[s].machine \in Here(st)
         /\ st[s].machine # None
<1>1. st[s] \in [machine : Machines, playing : BOOLEAN]
  BY DEF Seats
<1> QED
  BY <1>1, VotesAssumption DEF Here

LEMMA VoterFacts ==
  ASSUME NEW w \in Servers, NEW s \in Slots
  PROVE  /\ Voter(w, s) \in (Machines \cap Here(w.seats)) \cup {None}
         /\ Voter(w, s) # None => Voter(w, s) = w.seats[s].machine /\ w.seats[s] # None
<1>1. w.seats \in [Slots -> Seats]
  BY DEF Servers
<1> QED
  BY <1>1, SeatFacts DEF Voter

-----------------------------------------------------------------------------
(* Clients are taken out of the game.                                      *)
LEMMA RemovedSound ==
  ASSUME NEW w, Sound(w), NEW S \in SUBSET Connected(w)
  PROVE  LET v == Removed(w, S) IN
         /\ Sound(v) /\ Len(v.items) = Len(w.items)
         /\ \A id \in Ids : Known(w, id) => Known(v, id)
<1> DEFINE v == Removed(w, S)
           M == MachinesOf(w, S)
           n == Len(w.items)
<1>1. /\ w \in Servers /\ w.seats \in [Slots -> Seats] /\ w.items \in Seq(Items)
      /\ n \in Nat /\ DOMAIN w.items = 1 .. n
      /\ S \subseteq Slots
  BY DEF Sound, Servers, Connected
<1>2. /\ v.seats = [s \in Slots |-> IF s \in S THEN None ELSE w.seats[s]]
      /\ v.items = [k \in 1 .. n |-> Unobserved(Without(w.items[k], M), S)]
      /\ v.told = w.told /\ v.passed = w.passed
      /\ v = [w EXCEPT !.seats = v.seats, !.items = v.items]
  BY <1>1 DEF Removed, Servers
<1> HIDE DEF v
<1>3. v.seats \in [Slots -> Seats]
  BY <1>1, <1>2 DEF Seats
<1>4. Here(w.seats) \ M \subseteq Here(v.seats)
  BY <1>1, <1>2 DEF Here, MachinesOf
<1>5. ASSUME NEW k \in 1 .. n
      PROVE  /\ v.items[k] \in Items /\ v.items[k].id = w.items[k].id
             /\ Fine(v.seats, v.items[k])
  <2> DEFINE i == w.items[k]
             j == v.items[k]
  <2>1. i \in Items /\ Fine(w.seats, i)
    BY <1>1 DEF Sound
  <2>2. j = Unobserved(Without(i, M), S)
    BY <1>2
  <2> HIDE DEF i, j
  <2>3. /\ j.pro = i.pro \ M /\ j.con = i.con \ M
        /\ j.suggestor = IF i.suggestor \in M THEN None ELSE i.suggestor
        /\ j.suspect = IF i.suspect \in S THEN 0 ELSE i.suspect
        /\ j.id = i.id /\ j.machine = i.machine /\ j.total = i.total /\ j.age = i.age
        /\ j.asked = i.asked /\ j.accused = i.accused
    BY <2>1, <2>2 DEF Unobserved, Without, Items
  <2>4. j \in Items
    BY <2>1, <2>2 DEF Unobserved, Without, Items
  <2>5. Fine(v.seats, j)
    <3>1. j.suspect # 0 => v.seats[j.suspect] = w.seats[i.suspect]
      BY <1>2, <2>1, <2>3 DEF Items
    <3> QED
      BY <1>4, <2>1, <2>3, <3>1 DEF Fine
  <2> QED
    BY <2>3, <2>4, <2>5 DEF i, j
<1>6. /\ v.items \in Seq(Items) /\ Len(v.items) = n /\ DOMAIN v.items = 1 .. n
  <2>1. v.items \in [1 .. n -> Items]
    BY <1>2, <1>5
  <2> QED
    BY <1>1, <2>1
<1>7. v \in Servers
  BY <1>1, <1>2, <1>3, <1>6 DEF Servers
<1>8. \A id \in Ids : Known(w, id) => Known(v, id)
  BY <1>1, <1>2, <1>5, <1>6 DEF Known
<1>9. Sound(v)
  BY <1>2, <1>5, <1>6, <1>7, <1>8 DEF Sound
<1> QED
  BY <1>6, <1>8, <1>9 DEF v

(* An accepted vote has a majority, even when ballots have gone since.     *)
LEMMA MajorityCounts ==
  ASSUME NEW st, NEW item \in Items, Fine(st, item), Passes(item)
  PROVE  /\ Cardinality(item.pro) > Cardinality(item.con) + Bias
         /\ item.age = 0 =>
              2 * Cardinality(item.pro) > Cardinality(item.asked) + Bias
<1>1. item.pro \in SUBSET Here(st) /\ item.con \in SUBSET Here(st)
  BY DEF Fine
<1>2. IsFiniteSet(item.pro) /\ IsFiniteSet(item.con) /\ IsFiniteSet(item.asked)
  BY <1>1, HereFinite, FS_Subset DEF Fine
<1>3. /\ Cardinality(item.pro) \in Nat /\ Cardinality(item.con) \in Nat
      /\ Cardinality(item.asked) \in Nat
  BY <1>2, FS_CardinalityType
<1>4. Bias \in Nat /\ item.total \in Nat /\ item.age \in Nat
  BY VotesAssumption DEF Items
<1> DEFINE p == Cardinality(item.pro)
           c == Cardinality(item.con)
           a == Cardinality(item.asked)
<1>5. /\ ~ (c + Bias >= p /\ (c + Bias) * 2 >= item.total + Bias - item.age)
      /\ p >= c + Bias /\ p * 2 > item.total + Bias - item.age
      /\ a <= item.total
  BY DEF Passes, Rejected, Accepted, Pro, ConAdjusted, TotalAdjusted, Fine
<1> HIDE DEF p, c, a
<1>6. p \in Nat /\ c \in Nat /\ a \in Nat
  BY <1>3 DEF p, c, a
<1>7. p > c + Bias /\ (item.age = 0 => 2 * p > a + Bias)
  BY <1>4, <1>5, <1>6
<1> QED
  BY <1>7 DEF p, c, a

(* Whom a vote hits are clients of the machine it was about.               *)
LEMMA CulpritsAccused ==
  ASSUME NEW w, Sound(w), NEW item \in Items, Fine(w.seats, item)
  PROVE  /\ Culprits(w, item) \subseteq Connected(w)
         /\ MachinesOf(w, Culprits(w, item)) \subseteq Machines \cap {item.accused}
<1>1. w.seats \in [Slots -> Seats]
  BY DEF Sound, Servers
<1>2. ASSUME NEW s \in Culprits(w, item)
      PROVE  /\ s \in Slots /\ w.seats[s] # None
             /\ w.seats[s].machine = item.accused
  <2>1. CASE item.suspect # 0
    BY <1>2, <2>1 DEF Culprits, Connected, Fine
  <2>2. CASE item.suspect = 0
    <3>1. s \in Slots /\ w.seats[s] # None /\ w.seats[s].machine = item.machine
      BY <1>2, <2>2 DEF Culprits, Connected
    <3>2. item.machine # None
      BY <1>1, <3>1, SeatFacts
    <3> QED
      BY <3>1, <3>2 DEF Fine
  <2> QED
    BY <2>1, <2>2
<1>3. \A s \in Culprits(w, item) : w.seats[s].machine \in Machines
  BY <1>1, <1>2, SeatFacts
<1> QED
  BY <1>2, <1>3 DEF Connected, MachinesOf

(* An accepted vote throws its culprits out.                               *)
LEMMA ExecutedSound ==
  ASSUME NEW w, Sound(w), NEW item \in Items, Fine(w.seats, item), Passes(item)
  PROVE  LET v == Executed(w, item) IN
         /\ Sound(v) /\ Len(v.items) = Len(w.items)
         /\ \A id \in Ids : Known(w, id) => Known(v, id)
<1> DEFINE C == Culprits(w, item)
           r == Removed(w, C)
           record == [item |-> item, machines |-> MachinesOf(w, C)]
           v == [r EXCEPT !.passed = @ \cup {record}]
<1>1. C \in SUBSET Connected(w) /\ MachinesOf(w, C) \subseteq Machines \cap {item.accused}
  BY CulpritsAccused
<1>2. v = Executed(w, item)
  BY DEF Executed
<1>3. Just(record)
  BY <1>1, MajorityCounts DEF Just
<1>4. record \in [item : Items, machines : SUBSET Machines]
  BY <1>1
<1> HIDE DEF C
<1>5. /\ Sound(r) /\ Len(r.items) = Len(w.items)
      /\ \A id \in Ids : Known(w, id) => Known(r, id)
  BY <1>1, RemovedSound
<1> HIDE DEF r, record
<1>6. r \in Servers
  BY <1>5 DEF Sound
<1>7. /\ v.seats = r.seats /\ v.items = r.items /\ v.told = r.told
      /\ v.passed = r.passed \cup {record} /\ v \in Servers
  BY <1>4, <1>6 DEF Servers
<1> HIDE DEF v
<1>8. Sound(v) /\ \A id \in Ids : Known(r, id) => Known(v, id)
  BY <1>3, <1>5, <1>7 DEF Sound, Known
<1> QED
  BY <1>2, <1>5, <1>7, <1>8

(* A vote is over.                                                         *)
LEMMA DeletedSound ==
  ASSUME NEW w, Sound(w), NEW k \in DOMAIN w.items
  PROVE  LET v == Deleted(w, k) IN
         /\ Sound(v) /\ Len(v.items) = Len(w.items) - 1
         /\ \A id \in Ids : Known(w, id) => Known(v, id)
<1> DEFINE v == Deleted(w, k)
           n == Len(w.items)
           moved == [w.items EXCEPT ![k] = w.items[n]]
           c == Change(w.items[k].id, TRUE)
<1>1. /\ w \in Servers /\ w.items \in Seq(Items) /\ n \in Nat
      /\ DOMAIN w.items = 1 .. n /\ k \in 1 .. n
  BY DEF Sound, Servers
<1>2. moved \in Seq(Items) /\ Len(moved) = n
      /\ \A j \in 1 .. n : moved[j] = IF j = k THEN w.items[n] ELSE w.items[j]
  BY <1>1
<1>3. w.items[k] \in Items
  BY <1>1
<1>4. c \in Changes /\ c.expired = TRUE /\ c.new = FALSE
  BY <1>3 DEF Changes, Change, Items
<1>5. /\ v.seats = w.seats /\ v.passed = w.passed
      /\ v.items = SubSeq(moved, 1, Len(moved) - 1) /\ v.told = w.told \cup {c}
      /\ v = [w EXCEPT !.items = v.items, !.told = v.told]
  BY <1>1 DEF Deleted, Front, Last, Servers
<1> HIDE DEF v, moved
<1>6. /\ v.items \in Seq(Items) /\ Len(v.items) = n - 1 /\ DOMAIN v.items = 1 .. n - 1
      /\ \A j \in 1 .. n - 1 : v.items[j] = moved[j]
  BY <1>1, <1>2, <1>5
<1>7. v \in Servers
  BY <1>1, <1>4, <1>5, <1>6 DEF Servers
<1>8. \A j \in 1 .. n - 1 : v.items[j] = IF j = k THEN w.items[n] ELSE w.items[j]
  BY <1>1, <1>2, <1>6
<1>9. \A j \in DOMAIN v.items : Fine(v.seats, v.items[j])
  <2>1. \A j \in 1 .. n : Fine(w.seats, w.items[j])
    BY <1>1 DEF Sound
  <2>2. \A j \in 1 .. n - 1 : \E i \in 1 .. n : v.items[j] = w.items[i]
    BY <1>1, <1>8
  <2> QED
    BY <1>5, <1>6, <2>1, <2>2
<1>10. ASSUME NEW id \in Ids, Known(w, id) PROVE Known(v, id)
  <2>1. CASE Change(id, TRUE) \in w.told
    BY <1>5, <2>1 DEF Known
  <2>2. ASSUME NEW j \in 1 .. n, w.items[j].id = id PROVE Known(v, id)
    <3>1. CASE j = k
      BY <1>5, <2>2, <3>1 DEF Known
    <3>2. CASE j # k /\ j = n
      <4>1. k \in 1 .. n - 1 /\ v.items[k] = w.items[n]
        BY <1>1, <1>8, <3>2
      <4> QED
        BY <1>6, <2>2, <3>2, <4>1 DEF Known
    <3>3. CASE j # k /\ j # n
      <4>1. j \in 1 .. n - 1 /\ v.items[j] = w.items[j]
        BY <1>1, <1>8, <3>3
      <4> QED
        BY <1>6, <2>2, <4>1 DEF Known
    <3> QED
      BY <3>1, <3>2, <3>3
  <2> QED
    BY <1>1, <1>10, <2>1, <2>2 DEF Known
<1>11. \A id \in Ids : Announce(id) # c /\ Change(id, FALSE) # c
  BY <1>4 DEF Announce, Change
<1>12. Sound(v)
  BY <1>5, <1>7, <1>9, <1>10, <1>11 DEF Sound
<1> QED
  BY <1>6, <1>10, <1>12 DEF v

(* One vote is looked at: it stays, or it ends.                            *)
LEMMA EvaluatedSound ==
  ASSUME NEW w, Sound(w), NEW k \in DOMAIN w.items
  PROVE  LET v == Evaluated(w, k) IN
         /\ Sound(v) /\ Len(v.items) \in Len(w.items) - 1 .. Len(w.items)
         /\ \A id \in Ids : Known(w, id) => Known(v, id)
<1> DEFINE n == Len(w.items)
           item == w.items[k]
           told == [w EXCEPT !.told = @ \cup {Change(item.id, FALSE)}]
           done == IF Passes(item) THEN Executed(told, item) ELSE told
           v == IF Ends(item) THEN Deleted(done, k) ELSE told
<1>1. v = Evaluated(w, k)
  BY DEF Evaluated
<1>2. /\ w \in Servers /\ w.items \in Seq(Items) /\ n \in Nat
      /\ DOMAIN w.items = 1 .. n /\ k \in 1 .. n
      /\ item \in Items /\ Fine(w.seats, item)
  BY DEF Sound, Servers
<1>3. Change(item.id, FALSE) \in Changes /\ Change(item.id, FALSE).expired = FALSE
      /\ Change(item.id, FALSE).new = FALSE
  BY <1>2 DEF Changes, Change, Items
<1>4. /\ told.seats = w.seats /\ told.items = w.items /\ told.passed = w.passed
      /\ told.told = w.told \cup {Change(item.id, FALSE)} /\ told \in Servers
  BY <1>2, <1>3 DEF Servers
<1> HIDE DEF told
<1>5. \A id \in Ids : Announce(id) # Change(item.id, FALSE)
  BY DEF Announce, Change
<1>6. \A id \in Ids : Known(w, id) => Known(told, id)
  BY <1>4 DEF Known
<1>7. ASSUME NEW id \in Ids, Change(id, FALSE) \in told.told PROVE Known(told, id)
  <2>1. CASE Change(id, FALSE) \in w.told
    BY <1>6, <2>1 DEF Sound
  <2>2. CASE Change(id, FALSE) = Change(item.id, FALSE)
    <3>1. id = item.id
      BY <2>2 DEF Change
    <3> QED
      BY <1>2, <1>4, <3>1 DEF Known
  <2> QED
    BY <1>4, <1>7, <2>1, <2>2
<1>8. Sound(told)
  BY <1>4, <1>5, <1>7 DEF Sound
<1> HIDE DEF item
<1>9. /\ Sound(done) /\ Len(done.items) = n
      /\ \A id \in Ids : Known(w, id) => Known(done, id)
  <2>1. CASE Passes(item)
    BY <1>2, <1>4, <1>6, <1>8, <2>1, ExecutedSound
  <2>2. CASE ~ Passes(item)
    BY <1>4, <1>6, <1>8, <2>2
  <2> QED
    BY <2>1, <2>2
<1>10. k \in DOMAIN done.items
  <2>1. done.items \in Seq(Items)
    BY <1>9 DEF Sound, Servers
  <2> HIDE DEF done
  <2> QED
    BY <1>2, <1>9, <2>1
<1> HIDE DEF done
<1>11. CASE Ends(item)
  BY <1>1, <1>2, <1>9, <1>10, <1>11, DeletedSound
<1>12. CASE ~ Ends(item)
  BY <1>1, <1>2, <1>4, <1>6, <1>8, <1>12
<1> QED
  BY <1>11, <1>12

(* The look at all votes: the list gets no longer, and each of its places  *)
(* is still there when its turn comes.                                     *)
LEMMA AllEvaluatedSound ==
  ASSUME NEW w, Sound(w)
  PROVE  LET v == AllEvaluated(w) IN
         /\ Sound(v) /\ Len(v.items) \in 0 .. Len(w.items)
         /\ \A id \in Ids : Known(w, id) => Known(v, id)
<1> DEFINE n == Len(w.items)
           after == AfterLooks(w)
           Good(k, v) == /\ Sound(v) /\ Len(v.items) \in n - k .. n
                         /\ \A id \in Ids : Known(w, id) => Known(v, id)
           S == {k \in 0 .. n : Good(k, after[k])}
<1>1. n \in Nat
  BY DEF Sound, Servers
<1>2. /\ after[0] = w
      /\ \A k \in 1 .. n : after[k] = Evaluated(after[k - 1], n + 1 - k)
  BY <1>1, LooksDefined
<1> HIDE DEF after, n
<1>3. Good(0, after[0])
  BY <1>1, <1>2 DEF n
<1>4. ASSUME NEW k \in 0 .. n, k # n, Good(k, after[k])
      PROVE  Good(k + 1, after[k + 1])
  <2> DEFINE u == after[k]
             v == after[k + 1]
  <2>1. v = Evaluated(u, n - k)
    <3>1. k + 1 \in 1 .. n /\ (k + 1) - 1 = k /\ n + 1 - (k + 1) = n - k
      BY <1>1, <1>4
    <3> QED
      BY <1>2, <3>1
  <2>2. Sound(u) /\ Len(u.items) \in n - k .. n
    BY <1>4
  <2>3. n - k \in DOMAIN u.items
    <3>1. u.items \in Seq(Items)
      BY <2>2 DEF Sound, Servers
    <3> HIDE DEF u
    <3>2. Len(u.items) \in Nat /\ DOMAIN u.items = 1 .. Len(u.items)
      BY <3>1
    <3> QED
      BY <1>1, <1>4, <2>2, <3>2
  <2>4. \A id \in Ids : Known(w, id) => Known(u, id)
    BY <1>4
  <2> HIDE DEF u, v
  <2>5. /\ Sound(v) /\ Len(v.items) \in Len(u.items) - 1 .. Len(u.items)
        /\ \A id \in Ids : Known(u, id) => Known(v, id)
    BY <2>1, <2>2, <2>3, EvaluatedSound
  <2>6. Len(v.items) \in n - (k + 1) .. n
    BY <1>1, <2>2, <2>5
  <2>7. Good(k + 1, v)
    BY <2>4, <2>5, <2>6
  <2> QED
    BY <2>7 DEF v
<1> HIDE DEF Good
<1>5. 0 \in S /\ \A k \in 0 .. n : k # n /\ k \in S => k + 1 \in S
  BY <1>1, <1>3, <1>4
<1> HIDE DEF S
<1>6. \A k \in 0 .. n : k \in S
  BY <1>1, <1>5, SetInduction
<1>7. n \in S
  BY <1>1, <1>6
<1>8. Good(n, after[n])
  BY <1>7 DEF S
<1>9. after[n] = AllEvaluated(w)
  BY DEF AllEvaluated, after, n
<1> QED
  BY <1>1, <1>8, <1>9 DEF Good, n

-----------------------------------------------------------------------------
(* From the variables to the record and back.                              *)
LEMMA ServerSound ==
  ASSUME Inv
  PROVE  /\ Sound(Server)
         /\ Server.seats = seats /\ Server.items = items /\ Server.told = {}
         /\ Server.passed = {}
<1>1. /\ Server.seats = seats /\ Server.items = items /\ Server.told = {}
      /\ Server.passed = {}
  BY DEF Server
<1>2. Server \in Servers
  BY DEF Inv, TypeOK, Servers, Server
<1> QED
  BY <1>1, <1>2 DEF Inv, Sound

(* Messages of different kinds differ, and those of different votes.       *)
LEMMA Kinds ==
  /\ \A i, j \in Ids, b \in BOOLEAN : Announce(i) # Change(j, b)
  /\ \A i, j \in Ids : Announce(i) = Announce(j) => i = j
  /\ \A i, j \in Ids : Change(i, FALSE) # Change(j, TRUE)
  /\ \A i, j \in Ids, b \in BOOLEAN : Change(i, b) = Change(j, b) => i = j
  /\ \A i \in Ids, b \in BOOLEAN : Change(i, b) \notin News
  /\ \A i \in Ids : Announce(i) \in News
BY DEF Announce, Change, News

(* What Become makes of the clients and the server.                        *)
LEMMA BecomeInv ==
  ASSUME Inv, NEW w, Sound(w), Len(w.items) <= MaxVotes,
         \A id \in Ids : Known(Server, id) => Known(w, id),
         NEW news \in [Watched -> SUBSET News],
         \A s \in Watched, id \in Ids : Announce(id) \in news[s] => Known(w, id),
         Become(w, news), lastId' \in 0 .. MaxItems
  PROVE  Inv'
<1>1. /\ Server.items = items /\ Server.told = {}
      /\ seats \in [Slots -> Seats]
      /\ mail \in [Watched -> SUBSET (News \cup Changes)]
      /\ shown \in [Watched -> SUBSET [id : Ids, expired : BOOLEAN]]
      /\ overtaken \in [Watched -> SUBSET Ids]
  BY ServerSound DEF Inv, TypeOK
<1>2. /\ w.seats \in [Slots -> Seats] /\ w.items \in Seq(Items)
      /\ w.told \subseteq News \cup Changes
      /\ w.passed \subseteq [item : Items, machines : SUBSET Machines]
  BY DEF Sound, Servers
<1>3. /\ seats' = w.seats /\ items' = w.items /\ passed' = w.passed
      /\ mail' = [s \in Watched |->
                    IF w.seats[s] = None THEN {}
                    ELSE [t \in Watched |-> mail[t] \cup w.told \cup news[t]][s]]
      /\ shown' = [s \in Watched |-> IF w.seats[s] = None THEN {} ELSE shown[s]]
      /\ overtaken' = [s \in Watched |-> IF w.seats[s] = None THEN {} ELSE overtaken[s]]
  BY DEF Become
<1>4. \A s \in Watched :
        mail'[s] = IF w.seats[s] = None THEN {} ELSE mail[s] \cup w.told \cup news[s]
  BY <1>3
<1>5. TypeOK'
  <2>1. mail' \in [Watched -> SUBSET (News \cup Changes)]
    BY <1>1, <1>2, <1>3
  <2>2. shown' \in [Watched -> SUBSET [id : Ids, expired : BOOLEAN]]
    BY <1>1, <1>3
  <2>3. overtaken' \in [Watched -> SUBSET Ids]
    BY <1>1, <1>3
  <2> QED
    BY <1>2, <1>3, <2>1, <2>2, <2>3 DEF TypeOK
<1>6. ASSUME NEW s \in Watched, NEW id \in Ids, HeardOf(s, id)'
      PROVE  Covered(s, id)'
  <2>1. w.seats[s] # None
    BY <1>3, <1>4, <1>6 DEF HeardOf
  <2>2. /\ mail'[s] = mail[s] \cup w.told \cup news[s]
        /\ shown'[s] = shown[s] /\ overtaken'[s] = overtaken[s]
    BY <1>3, <1>4, <2>1
  <2>3. CASE Known(w, id)
    BY <1>3, <2>2, <2>3 DEF Known, Covered
  <2>4. CASE HeardOf(s, id)
    <3>1. Covered(s, id)
      BY <2>4 DEF Inv, ClientsInv
    <3>2. CASE \E k \in DOMAIN items : items[k].id = id
      BY <1>1, <2>3, <3>2 DEF Known
    <3>3. CASE Change(id, TRUE) \in mail[s] \/ id \in overtaken[s]
      BY <2>2, <3>3 DEF Covered
    <3> QED
      BY <3>1, <3>2, <3>3 DEF Covered
  <2>5. CASE Announce(id) \in w.told \cup news[s] \/ Change(id, FALSE) \in w.told \cup news[s]
    <3>1. Change(id, FALSE) \notin news[s] /\ Announce(id) \notin w.told
      BY Kinds DEF Sound
    <3> QED
      BY <2>3, <2>5, <3>1 DEF Sound
  <2> QED
    BY <1>6, <2>2, <2>4, <2>5 DEF HeardOf
<1>7. ClientsInv'
  BY <1>3, <1>4, <1>6 DEF ClientsInv
<1> QED
  BY <1>3, <1>5, <1>7 DEF Inv, Sound

(* Steps that leave the clients alone and keep the votes.                  *)
SameVotes ==
  /\ items' \in Seq(Items) /\ DOMAIN items' = DOMAIN items
  /\ Len(items') = Len(items)
  /\ \A k \in DOMAIN items : items'[k].id = items[k].id /\ Fine(seats', items'[k])

(* Then all is well with them.                                             *)
LEMMA ServerOnly ==
  ASSUME Inv, SameVotes, seats' \in [Slots -> Seats], passed' = {},
         \A s \in Slots : seats'[s] = None => seats[s] = None,
         UNCHANGED <<lastId, client, overtaken>>
  PROVE  Inv'
<1>1. TypeOK'
  BY DEF Inv, TypeOK, SameVotes, client
<1>2. ASSUME NEW s \in Watched, NEW id \in Ids, HeardOf(s, id)'
      PROVE  Covered(s, id)'
  <2>1. HeardOf(s, id)
    BY <1>2 DEF HeardOf, client
  <2>2. Covered(s, id)
    BY <2>1 DEF Inv, ClientsInv
  <2> QED
    BY <2>2 DEF Covered, SameVotes, client
<1>3. ClientsInv'
  <2>1. \A s \in Watched : s \in Slots
    BY VotesAssumption
  <2> QED
    BY <1>2, <2>1 DEF Inv, ClientsInv, client
<1> QED
  BY <1>1, <1>3 DEF Inv, SameVotes

(* More machines, or the same ones, are as good for a vote.                *)
LEMMA FineKept ==
  ASSUME NEW st, NEW tu, NEW item \in Items, Fine(st, item),
         Here(st) \subseteq Here(tu),
         \A s \in Slots : st[s] # None =>
            tu[s] # None /\ tu[s].machine = st[s].machine
  PROVE  Fine(tu, item)
BY DEF Fine, Items

LEMMA HereKept ==
  ASSUME NEW st, NEW tu,
         \A s \in Slots : st[s] # None =>
            tu[s] # None /\ tu[s].machine = st[s].machine
  PROVE  Here(st) \subseteq Here(tu)
<1>1. ASSUME NEW m \in Here(st) PROVE m \in Here(tu)
  <2>1. PICK s \in Slots : st[s] # None /\ m = st[s].machine
    BY <1>1 DEF Here
  <2> QED
    BY <2>1 DEF Here
<1> QED
  BY <1>1

(* A client takes a free seat and is told of all votes.                    *)
LEMMA LoginInv ==
  ASSUME Inv, NEW s \in Slots, NEW m \in Machines, Login(s, m)
  PROVE  Inv'
<1> DEFINE seat == [machine |-> m, playing |-> s \notin MayWatch]
<1>1. /\ seats[s] = None /\ seats' = [seats EXCEPT ![s] = seat]
      /\ mail' = [t \in Watched |->
           IF t = s THEN {Announce(items[k].id) : k \in DOMAIN items} ELSE mail[t]]
      /\ passed' = {} /\ UNCHANGED <<items, lastId, shown, overtaken>>
  BY DEF Login
<1>2. /\ seats \in [Slots -> Seats] /\ items \in Seq(Items)
      /\ mail \in [Watched -> SUBSET (News \cup Changes)]
  BY DEF Inv, TypeOK
<1>3. seat \in Seats /\ seat # None
  <2>1. seat \in [machine : Machines, playing : BOOLEAN]
    OBVIOUS
  <2> HIDE DEF seat
  <2>2. seat # None
    <3>1. CASE seat = None
      BY <2>1, <3>1, VotesAssumption
    <3> QED
      BY <3>1
  <2> QED
    BY <2>1, <2>2 DEF Seats
<1> HIDE DEF seat
<1>4. /\ seats' \in [Slots -> Seats]
      /\ \A t \in Slots : seats[t] # None => seats'[t] = seats[t]
  BY <1>1, <1>2, <1>3
<1>5. \A k \in DOMAIN items : items[k] \in Items
  BY <1>2
<1>6. \A k \in DOMAIN items : items[k].id \in Ids
  BY <1>5 DEF Items
<1>7. \A k \in DOMAIN items : Announce(items[k].id) \in News
  BY <1>6, Kinds
<1>8. mail' \in [Watched -> SUBSET (News \cup Changes)]
  BY <1>1, <1>2, <1>7
<1>9. TypeOK'
  BY <1>1, <1>4, <1>8 DEF Inv, TypeOK
<1>10. \A k \in DOMAIN items : Fine(seats', items[k])
  <2>1. Here(seats) \subseteq Here(seats')
    BY <1>4, HereKept
  <2> QED
    BY <1>4, <1>5, <2>1, FineKept DEF Inv
<1>11. ASSUME NEW t \in Watched, NEW id \in Ids, HeardOf(t, id)'
       PROVE  Covered(t, id)'
  <2>1. CASE t # s
    BY <1>1, <1>11, <2>1 DEF HeardOf, Covered, Inv, ClientsInv
  <2>2. CASE t = s
    <3>1. shown'[t] = {}
      BY <1>1, <2>2 DEF Inv, ClientsInv
    <3>2. Change(id, FALSE) \notin mail'[t]
      BY <1>1, <1>6, <2>2, Kinds
    <3>3. Announce(id) \in mail'[t]
      BY <1>11, <3>1, <3>2 DEF HeardOf
    <3>4. PICK k \in DOMAIN items : Announce(id) = Announce(items[k].id)
      BY <1>1, <2>2, <3>3
    <3>5. items[k].id = id
      BY <1>6, <3>4, Kinds
    <3> QED
      BY <1>1, <3>5 DEF Covered
  <2> QED
    BY <2>1, <2>2
<1>12. ClientsInv'
  <2>1. \A t \in Watched : t \in Slots
    BY VotesAssumption
  <2>2. \A t \in Watched : seats'[t] = None => seats[t] = None /\ t # s
    BY <1>1, <1>2, <1>3, <1>4, <2>1
  <2>3. \A t \in Watched : t # s => mail'[t] = mail[t]
    BY <1>1
  <2> QED
    BY <1>1, <1>11, <2>2, <2>3 DEF Inv, ClientsInv
<1> QED
  BY <1>1, <1>9, <1>10, <1>12 DEF Inv

(* Players start or stop to play.                                          *)
LEMMA PlayInv ==
  ASSUME Inv, NEW s \in Slots, Play(s) \/ Watch(s)
  PROVE  Inv'
<1>1. /\ seats \in [Slots -> Seats] /\ items \in Seq(Items)
      /\ \A k \in DOMAIN items : items[k] \in Items /\ Fine(seats, items[k])
  BY DEF Inv, TypeOK
<1>2. PICK b \in BOOLEAN : seats' = [seats EXCEPT ![s].playing = b]
  BY DEF Play, Watch
<1>3. /\ seats[s] # None /\ passed' = {}
      /\ UNCHANGED <<items, lastId, client, overtaken>>
  BY DEF Play, Watch
<1>4. seats[s] \in [machine : Machines, playing : BOOLEAN]
  BY <1>1, <1>3, SeatFacts
<1>5. /\ seats'[s] \in [machine : Machines, playing : BOOLEAN]
      /\ seats'[s].machine = seats[s].machine
      /\ \A t \in Slots \ {s} : seats'[t] = seats[t]
      /\ seats' \in [Slots -> Seats]
  BY <1>1, <1>2, <1>4 DEF Seats
<1>6. \A t \in Slots : seats[t] # None =>
         seats'[t] # None /\ seats'[t].machine = seats[t].machine
  <2>1. seats'[s] # None
    <3>1. CASE seats'[s] = None
      BY <1>4, <1>5, <3>1, VotesAssumption
    <3> QED
      BY <3>1
  <2> QED
    BY <1>5, <2>1
<1>7. Here(seats) \subseteq Here(seats')
  BY <1>6, HereKept
<1>8. SameVotes
  BY <1>1, <1>3, <1>6, <1>7, FineKept DEF SameVotes
<1>9. \A t \in Slots : seats'[t] = None => seats[t] = None
  BY <1>6
<1> QED
  BY <1>3, <1>5, <1>8, <1>9, ServerOnly

(* One of a client's players leaves, and its machine's ballots with it.    *)
LEMMA PlayerLeavesInv ==
  ASSUME Inv, NEW s \in Slots, PlayerLeaves(s)
  PROVE  Inv'
<1> DEFINE M == MachinesOf(Server, {s})
           n == Len(items)
           left(k) == Without(items[k], M)
<1>1. /\ seats \in [Slots -> Seats] /\ items \in Seq(Items)
      /\ n \in Nat /\ DOMAIN items = 1 .. n
      /\ \A k \in 1 .. n : items[k] \in Items /\ Fine(seats, items[k])
  BY DEF Inv, TypeOK
<1>2. /\ Withdrawn(Server, {s}).items = [k \in 1 .. n |-> left(k)]
      /\ Server.seats = seats
  BY <1>1 DEF Withdrawn, Server
<1>3. PICK accused \in BOOLEAN :
        items' = [k \in 1 .. n |-> IF accused THEN Unobserved(left(k), {s}) ELSE left(k)]
  BY <1>2 DEF PlayerLeaves
<1>4. seats[s] # None /\ passed' = {} /\ UNCHANGED <<seats, lastId, client, overtaken>>
  BY DEF PlayerLeaves
<1>5. M = {seats[s].machine}
  BY <1>2 DEF MachinesOf
<1>6. seats[s].machine \in Machines /\ seats[s].machine # None
  BY <1>1, <1>4, SeatFacts
<1> HIDE DEF M
<1>7. ASSUME NEW k \in 1 .. n
      PROVE  items'[k] \in Items /\ items'[k].id = items[k].id /\ Fine(seats, items'[k])
  <2> DEFINE i == items[k]
             j == items'[k]
  <2>1. i \in Items /\ Fine(seats, i)
    BY <1>1
  <2>2. j = IF accused THEN Unobserved(Without(i, M), {s}) ELSE Without(i, M)
    BY <1>3
  <2> HIDE DEF i, j
  <2>3. /\ j.pro = i.pro \ M /\ j.con = i.con \ M
        /\ j.suggestor = IF i.suggestor \in M THEN None ELSE i.suggestor
        /\ j.suspect \in {0, i.suspect}
        /\ j.id = i.id /\ j.machine = i.machine /\ j.total = i.total /\ j.age = i.age
        /\ j.asked = i.asked /\ j.accused = i.accused
    BY <2>1, <2>2 DEF Unobserved, Without, Items
  <2>4. j \in Items
    BY <2>1, <2>2 DEF Unobserved, Without, Items
  <2>5. Fine(seats, j)
    BY <2>1, <2>3 DEF Fine
  <2> QED
    BY <2>3, <2>4, <2>5 DEF i, j
<1>8. items' \in [1 .. n -> Items]
  BY <1>3, <1>7
<1>9. items' \in Seq(Items) /\ Len(items') = n /\ DOMAIN items' = 1 .. n
  BY <1>1, <1>8
<1>10. SameVotes
  BY <1>1, <1>4, <1>7, <1>9 DEF SameVotes
<1> QED
  BY <1>1, <1>4, <1>10, ServerOnly

(* A vote grows older.                                                     *)
LEMMA AgeInv ==
  ASSUME Inv, NEW k, Age(k)
  PROVE  Inv'
<1>1. /\ k \in DOMAIN items /\ items[k].age < MaxAge
      /\ items' = [items EXCEPT ![k].age = @ + 1] /\ passed' = {}
      /\ UNCHANGED <<seats, lastId, client, overtaken>>
  BY DEF Age
<1>2. /\ seats \in [Slots -> Seats] /\ items \in Seq(Items)
      /\ \A j \in DOMAIN items : items[j] \in Items /\ Fine(seats, items[j])
  BY DEF Inv, TypeOK
<1> DEFINE i == items[k]
           j == [i EXCEPT !.age = @ + 1]
<1>3. i \in Items /\ MaxAge \in Nat
  BY <1>1, <1>2, VotesAssumption
<1>4. items' = [items EXCEPT ![k] = j]
  BY <1>1
<1>5. i.age < MaxAge /\ Fine(seats, i)
  BY <1>1, <1>2
<1> HIDE DEF i
<1>6. j \in Items /\ j.id = i.id
  BY <1>3, <1>5 DEF Items
<1>7. Fine(seats, j)
  BY <1>3, <1>5 DEF Fine, Items
<1> HIDE DEF j
<1>8. SameVotes
  BY <1>1, <1>2, <1>4, <1>6, <1>7 DEF SameVotes, i
<1> QED
  BY <1>1, <1>2, <1>8, ServerOnly

-----------------------------------------------------------------------------
(* Steps that the server does as a whole.                                  *)
LEMMA NoNewsFits ==
  /\ NoNews \in [Watched -> SUBSET News]
  /\ \A s \in Watched : NoNews[s] = {}
BY DEF NoNews

(* A client leaves, with all that is its machine's.                        *)
LEMMA LeaveInv ==
  ASSUME Inv, NEW s \in Slots, Leave(s)
  PROVE  Inv'
<1>1. seats[s] # None /\ Become(Removed(Server, {s}), NoNews) /\ lastId' = lastId
  BY DEF Leave
<1>2. Sound(Server) /\ {s} \in SUBSET Connected(Server) /\ Server.items = items
  BY <1>1, ServerSound DEF Connected
<1> DEFINE v == Removed(Server, {s})
<1>3. /\ Sound(v) /\ Len(v.items) = Len(items)
      /\ \A id \in Ids : Known(Server, id) => Known(v, id)
  BY <1>2, RemovedSound
<1>4. Len(v.items) <= MaxVotes /\ lastId' \in 0 .. MaxItems
  BY <1>1, <1>3 DEF Inv, TypeOK
<1> HIDE DEF v
<1> QED
  BY <1>1, <1>3, <1>4, NoNewsFits, BecomeInv DEF v

(* A ballot, by a voter or nobody.                                         *)
LEMMA BallotSound ==
  ASSUME Inv, NEW s \in Slots, NEW id \in Ids, NEW accept \in BOOLEAN
  PROVE  LET v == Count(s, id, accept) IN
         /\ Sound(v) /\ Len(v.items) <= MaxVotes
         /\ \A i \in Ids : Known(Server, i) => Known(v, i)
<1> DEFINE K == {k \in DOMAIN items : items[k].id = id}
           m == Voter(Server, s)
           n == Len(items)
<1>1. /\ Sound(Server) /\ Server.seats = seats /\ Server.items = items
      /\ Server.told = {} /\ Server.passed = {}
  BY ServerSound
<1>2. /\ items \in Seq(Items) /\ n \in Nat /\ n <= MaxVotes
      /\ DOMAIN items = 1 .. n /\ MaxVotes \in Nat
  BY VotesAssumption DEF Inv, TypeOK
<1>3. CASE K = {}
  BY <1>1, <1>2, <1>3 DEF Count
<1>4. CASE K # {}
  <2> DEFINE k == CHOOSE k \in K : TRUE
             w == IF m = None THEN Server
                  ELSE [Server EXCEPT !.items[k] = WithBallot(@, m, accept)]
  <2>1. Count(s, id, accept) = Evaluated(w, k)
    BY <1>4 DEF Count
  <2>2. k \in 1 .. n
    BY <1>2, <1>4
  <2> HIDE DEF k
  <2>3. /\ Sound(w) /\ Len(w.items) = n /\ DOMAIN w.items = 1 .. n
        /\ \A i \in Ids : Known(Server, i) => Known(w, i)
    <3>1. CASE m = None
      BY <1>1, <1>2, <3>1
    <3>2. CASE m # None
      <4> DEFINE i == items[k]
                 j == WithBallot(i, m, accept)
      <4>1. i \in Items /\ Fine(seats, i)
        BY <1>2, <2>2 DEF Inv
      <4>2. m \in Machines \cap Here(seats)
        <5>1. Server \in Servers
          BY <1>1 DEF Sound
        <5> QED
          BY <1>1, <3>2, <5>1, VoterFacts
      <4>3. w = [Server EXCEPT !.items = [items EXCEPT ![k] = j]]
        BY <1>1, <3>2 DEF Server
      <4> HIDE DEF i, m
      <4>4. /\ j \in Items /\ j.id = i.id
        BY <4>1, <4>2 DEF WithBallot, Items
      <4>5. Fine(seats, j)
        BY <4>1, <4>2 DEF WithBallot, Items, Fine
      <4> HIDE DEF w, j
      <4> DEFINE new == [items EXCEPT ![k] = j]
      <4>61. new \in Seq(Items)
        BY <1>2, <2>2, <4>4
      <4>62. Server \in Servers
        BY <1>1 DEF Sound
      <4> HIDE DEF new
      <4>63. w = [Server EXCEPT !.items = new]
        BY <4>3 DEF new
      <4>64. w.items = new /\ w.seats = seats /\ w.told = {} /\ w.passed = {} /\ w \in Servers
        BY <1>1, <4>61, <4>62, <4>63 DEF Servers
      <4>6. /\ w.seats = seats /\ w.items = [items EXCEPT ![k] = j]
            /\ w.told = {} /\ w.passed = {} /\ w \in Servers
        BY <4>64 DEF new
      <4>7. \A l \in 1 .. n : Fine(seats, w.items[l]) /\ w.items[l].id = items[l].id
        BY <1>2, <2>2, <4>4, <4>5, <4>6 DEF Inv, i
      <4>8. DOMAIN w.items = 1 .. n /\ Len(w.items) = n
        BY <1>2, <4>6
      <4> QED
        BY <1>1, <1>2, <4>6, <4>7, <4>8 DEF Sound, Known
    <3> QED
      BY <3>1, <3>2
  <2> HIDE DEF w
  <2>4. k \in DOMAIN w.items
    BY <2>2, <2>3
  <2>5. LET v == Evaluated(w, k) IN
        /\ Sound(v) /\ Len(v.items) \in n - 1 .. n
        /\ \A i \in Ids : Known(w, i) => Known(v, i)
    BY <2>3, <2>4, EvaluatedSound
  <2> QED
    BY <1>2, <2>1, <2>3, <2>5
<1> QED
  BY <1>3, <1>4

(* A ballot arrives.                                                       *)
LEMMA ReceiveBallotInv ==
  ASSUME Inv, NEW s \in Slots, NEW id \in Ids, NEW accept \in BOOLEAN,
         ReceiveBallot(s, id, accept)
  PROVE  Inv'
<1>1. Become(Count(s, id, accept), NoNews) /\ lastId' = lastId
  BY DEF ReceiveBallot
<1> DEFINE v == Count(s, id, accept)
<1>2. /\ Sound(v) /\ Len(v.items) <= MaxVotes
      /\ \A i \in Ids : Known(Server, i) => Known(v, i)
  BY BallotSound
<1>3. lastId' \in 0 .. MaxItems
  BY <1>1 DEF Inv, TypeOK
<1> HIDE DEF v
<1> QED
  BY <1>1, <1>2, <1>3, NoNewsFits, BecomeInv DEF v

(* A new vote is fair to whom it is about, and counts all it asks.         *)
LEMMA NewItemSound ==
  ASSUME NEW w, Sound(w), NEW s \in Slots, NEW t \in Slots, lastId \in 0 .. MaxItems - 1,
         Voter(w, s) # None, w.seats[t] # None
  PROVE  LET v == [w EXCEPT !.items = Append(@, NewItem(w, s, t))] IN
         /\ Sound(v) /\ Len(v.items) = Len(w.items) + 1
         /\ \A id \in Ids : Known(w, id) => Known(v, id)
         /\ lastId + 1 \in Ids /\ Known(v, lastId + 1)
<1> DEFINE i == NewItem(w, s, t)
           n == Len(w.items)
           new == Append(w.items, i)
           v == [w EXCEPT !.items = Append(@, i)]
<1>1. /\ w \in Servers /\ w.seats \in [Slots -> Seats] /\ w.items \in Seq(Items)
      /\ n \in Nat /\ DOMAIN w.items = 1 .. n
  BY DEF Sound, Servers
<1>2. MaxItems \in Nat /\ lastId + 1 \in Ids /\ MaxAge \in Nat
  BY VotesAssumption DEF Ids
<1>3. /\ Voter(w, s) \in Machines \cap Here(w.seats)
      /\ Voter(w, t) \in {w.seats[t].machine, None}
      /\ Voter(w, t) \in Machines \cup {None}
      /\ w.seats[t].machine \in Machines
  BY <1>1, VoterFacts, SeatFacts
<1>4. /\ TotalOf(w, s) \in 1 .. MaxClients
      /\ IsFiniteSet(VotersIn(w, Slots))
      /\ Cardinality(VotersIn(w, Slots)) <= TotalOf(w, s)
  BY TotalCounts
<1>5. VotersIn(w, Slots) \subseteq Machines
  BY <1>1, VoterFacts DEF VotersIn
<1>6. i = [id |-> lastId + 1, suggestor |-> Voter(w, s), suspect |-> t,
           machine |-> Voter(w, t), pro |-> {Voter(w, s)}, con |-> {},
           total |-> TotalOf(w, s), age |-> 0,
           asked |-> VotersIn(w, Slots), accused |-> w.seats[t].machine]
  BY DEF NewItem
<1>7. v.items = new /\ v.seats = w.seats /\ v.told = w.told /\ v.passed = w.passed
      /\ v = [w EXCEPT !.items = new]
  BY <1>1 DEF Servers
<1> HIDE DEF i, v
<1>8. i \in Items /\ i.id = lastId + 1
  BY <1>2, <1>3, <1>4, <1>5, <1>6 DEF Items
<1>9. Fine(w.seats, i)
  BY <1>3, <1>4, <1>6 DEF Fine
<1>10. /\ new \in Seq(Items) /\ Len(new) = n + 1 /\ DOMAIN new = 1 .. n + 1
       /\ new[n + 1] = i /\ \A k \in 1 .. n : new[k] = w.items[k]
  BY <1>1, <1>8
<1> HIDE DEF new, n
<1>11. v \in Servers
  BY <1>1, <1>7, <1>10 DEF Servers
<1>12. \A k \in 1 .. n + 1 : Fine(w.seats, new[k])
  <2>1. \A k \in 1 .. n : Fine(w.seats, w.items[k])
    BY <1>1 DEF Sound
  <2>2. \A k \in 1 .. n + 1 : k \in 1 .. n \/ k = n + 1
    BY <1>1
  <2> QED
    BY <1>9, <1>10, <2>1, <2>2
<1>13. \A id \in Ids : Known(w, id) => Known(v, id)
  <2>1. \A k \in 1 .. n : k \in 1 .. n + 1
    BY <1>1
  <2> QED
    BY <1>1, <1>7, <1>10, <2>1 DEF Known
<1>14. Known(v, lastId + 1)
  <2>1. n + 1 \in 1 .. n + 1
    BY <1>1
  <2> QED
    BY <1>7, <1>8, <1>10, <2>1 DEF Known
<1>15. Sound(v)
  BY <1>7, <1>10, <1>11, <1>12, <1>13 DEF Sound
<1> QED
  BY <1>2, <1>7, <1>10, <1>13, <1>14, <1>15 DEF v, n, i

(* All votes are looked at; then there may be a new one.                   *)
LEMMA ProposeInv ==
  ASSUME Inv, NEW s \in Slots, NEW t \in Slots, Propose(s, t)
  PROVE  Inv'
<1> DEFINE w == AllEvaluated(Server)
           new == [w EXCEPT !.items = Append(@, NewItem(w, s, t))]
           v == Evaluated(new, Len(w.items) + 1)
           news == [u \in Watched |-> IF u \in Informed(w, s)
                                      THEN {Announce(lastId + 1)} ELSE {}]
<1>1. \/ Become(w, NoNews) /\ UNCHANGED lastId
      \/ /\ lastId < MaxItems /\ MayPropose(w, Voter(Server, s))
         /\ Voter(w, s) # None /\ w.seats[t] # None
         /\ lastId' = lastId + 1 /\ Become(v, news)
  BY DEF Propose
<1>2. Sound(Server) /\ Server.items = items /\ Len(items) \in Nat
      /\ Len(items) <= MaxVotes /\ lastId \in 0 .. MaxItems
      /\ MaxItems \in Nat /\ MaxVotes \in Nat
  BY ServerSound, VotesAssumption DEF Inv, TypeOK
<1>3. /\ Sound(w) /\ Len(w.items) \in 0 .. Len(items)
      /\ \A id \in Ids : Known(Server, id) => Known(w, id)
  BY <1>2, AllEvaluatedSound
<1> HIDE DEF w
<1>4. CASE Become(w, NoNews) /\ UNCHANGED lastId
  <2>1. Len(w.items) <= MaxVotes /\ lastId' \in 0 .. MaxItems
    BY <1>2, <1>3, <1>4
  <2> QED
    BY <1>3, <1>4, <2>1, NoNewsFits, BecomeInv
<1>5. CASE /\ lastId < MaxItems /\ MayPropose(w, Voter(Server, s))
           /\ Voter(w, s) # None /\ w.seats[t] # None
           /\ lastId' = lastId + 1 /\ Become(v, news)
  <2>1. lastId \in 0 .. MaxItems - 1 /\ lastId' \in 0 .. MaxItems
    BY <1>2, <1>5
  <2>2. /\ Sound(new) /\ Len(new.items) = Len(w.items) + 1
        /\ \A id \in Ids : Known(w, id) => Known(new, id)
        /\ lastId + 1 \in Ids /\ Known(new, lastId + 1)
    BY <1>3, <1>5, <2>1, NewItemSound
  <2> HIDE DEF new
  <2>3. Len(w.items) + 1 \in DOMAIN new.items
    <3>1. new.items \in Seq(Items)
      BY <2>2 DEF Sound, Servers
    <3> QED
      BY <1>3, <2>2, <3>1
  <2>4. /\ Sound(v) /\ Len(v.items) \in Len(w.items) .. Len(w.items) + 1
        /\ \A id \in Ids : Known(new, id) => Known(v, id)
    <3>1. LET e == Evaluated(new, Len(w.items) + 1) IN
          /\ Sound(e) /\ Len(e.items) \in Len(new.items) - 1 .. Len(new.items)
          /\ \A id \in Ids : Known(new, id) => Known(e, id)
      BY <2>2, <2>3, EvaluatedSound
    <3> QED
      BY <1>2, <1>3, <2>2, <3>1
  <2>5. Len(w.items) < MaxVotes
    BY <1>5 DEF MayPropose
  <2>6. Len(v.items) <= MaxVotes
    BY <1>2, <1>3, <2>4, <2>5
  <2>7. \A id \in Ids : Known(Server, id) => Known(v, id)
    BY <1>3, <2>2, <2>4
  <2>8. news \in [Watched -> SUBSET News]
    BY <2>2, Kinds
  <2>9. \A u \in Watched, id \in Ids : Announce(id) \in news[u] => Known(v, id)
    BY <2>2, <2>4, Kinds
  <2> HIDE DEF v, news
  <2> QED
    BY <1>5, <2>1, <2>4, <2>6, <2>7, <2>8, <2>9, BecomeInv
<1> QED
  BY <1>1, <1>4, <1>5

-----------------------------------------------------------------------------
(* The clients' own steps.                                                 *)
ClientOnly(s) ==
  /\ passed' = {} /\ UNCHANGED <<seats, items, lastId>>
  /\ mail' \in [Watched -> SUBSET (News \cup Changes)]
  /\ shown' \in [Watched -> SUBSET [id : Ids, expired : BOOLEAN]]
  /\ overtaken' \in [Watched -> SUBSET Ids]
  /\ \A t \in Watched \ {s} :
       mail'[t] = mail[t] /\ shown'[t] = shown[t] /\ overtaken'[t] = overtaken[t]

LEMMA ClientOnlyInv ==
  ASSUME Inv, NEW s \in Watched, ClientOnly(s),
         seats[s] = None => shown'[s] = {} /\ mail'[s] = {},
         \A id \in Ids : HeardOf(s, id)' => Covered(s, id)'
  PROVE  Inv'
<1>1. TypeOK'
  BY DEF Inv, TypeOK, ClientOnly
<1>2. ASSUME NEW t \in Watched \ {s}, NEW id \in Ids, HeardOf(t, id)'
      PROVE  Covered(t, id)'
  <2>1. HeardOf(t, id)
    BY <1>2 DEF HeardOf, ClientOnly
  <2>2. Covered(t, id)
    BY <2>1 DEF Inv, ClientsInv
  <2> QED
    BY <2>2 DEF Covered, ClientOnly
<1>3. \A t \in Watched \ {s} : seats'[t] = None => shown'[t] = {} /\ mail'[t] = {}
  BY DEF Inv, ClientsInv, ClientOnly
<1>4. ClientsInv'
  BY <1>2, <1>3 DEF ClientsInv, ClientOnly
<1> QED
  BY <1>1, <1>4 DEF Inv, ClientOnly

LEMMA ClientTypes ==
  ASSUME Inv, NEW s \in Watched
  PROVE  /\ mail \in [Watched -> SUBSET (News \cup Changes)]
         /\ shown \in [Watched -> SUBSET [id : Ids, expired : BOOLEAN]]
         /\ overtaken \in [Watched -> SUBSET Ids]
         /\ seats[s] = None => shown[s] = {} /\ mail[s] = {}
         /\ \A id \in Ids : HeardOf(s, id) => Covered(s, id)
BY DEF Inv, TypeOK, ClientsInv

LEMMA RemainingShown ==
  ASSUME NEW s \in Watched, NEW r \in Remaining(s)
  PROVE  r \subseteq shown[s]
BY DEF Remaining

(* A client may drop votes from its list.                                  *)
LEMMA LessShownInv ==
  ASSUME Inv, NEW s \in Watched, NEW r \in SUBSET shown[s],
         shown' = [shown EXCEPT ![s] = r], passed' = {},
         UNCHANGED <<seats, items, lastId, mail, overtaken>>
  PROVE  Inv'
<1>1. ClientOnly(s)
  BY ClientTypes DEF ClientOnly
<1>2. shown'[s] = r
  BY ClientTypes
<1>3. \A id \in Ids : HeardOf(s, id)' => HeardOf(s, id)
  BY <1>2 DEF HeardOf
<1>4. \A id \in Ids : Covered(s, id) => Covered(s, id)'
  BY DEF Covered
<1> QED
  BY <1>1, <1>2, <1>3, <1>4, ClientTypes, ClientOnlyInv

(* A client hears of a new vote.                                           *)
LEMMA ReceiveNewInv ==
  ASSUME Inv, NEW s \in Watched, NEW id \in Ids, ReceiveNew(s, id)
  PROVE  Inv'
<1>1. PICK r \in Remaining(s) :
        shown' = [shown EXCEPT ![s] = r \cup {[id |-> id, expired |-> FALSE]}]
  BY DEF ReceiveNew
<1>2. /\ Announce(id) \in mail[s] /\ passed' = {}
      /\ mail' = [mail EXCEPT ![s] = @ \ {Announce(id)}]
      /\ UNCHANGED <<seats, items, lastId, overtaken>>
  BY DEF ReceiveNew
<1>3. r \subseteq shown[s]
  BY RemainingShown
<1>4. [id |-> id, expired |-> FALSE] \in [id : Ids, expired : BOOLEAN]
  OBVIOUS
<1>5. /\ shown'[s] = r \cup {[id |-> id, expired |-> FALSE]}
      /\ mail'[s] = mail[s] \ {Announce(id)} /\ ClientOnly(s)
  BY <1>1, <1>2, <1>3, <1>4, ClientTypes DEF ClientOnly
<1>6. \A i \in Ids : HeardOf(s, i)' => HeardOf(s, i)
  BY <1>2, <1>3, <1>5 DEF HeardOf
<1>7. \A i \in Ids : Covered(s, i) => Covered(s, i)'
  BY <1>2, <1>5, Kinds DEF Covered
<1>8. seats[s] # None
  <2>1. mail[s] # {}
    BY <1>2
  <2> QED
    BY <2>1 DEF Inv, ClientsInv
<1> QED
  BY <1>5, <1>6, <1>7, <1>8, ClientTypes, ClientOnlyInv

(* A client hears of a change, or of the end, of a vote.                   *)
LEMMA ReceiveChangeInv ==
  ASSUME Inv, NEW s \in Watched, NEW id \in Ids, NEW expired \in BOOLEAN,
         ReceiveChange(s, id, expired)
  PROVE  Inv'
<1> DEFINE mark(i) == IF i.id = id THEN [i EXCEPT !.expired = expired] ELSE i
<1>1. /\ Change(id, expired) \in mail[s] /\ passed' = {}
      /\ mail' = [mail EXCEPT ![s] = @ \ {Change(id, expired)}]
      /\ shown' = [shown EXCEPT ![s] = {mark(i) : i \in @}]
      /\ overtaken' = IF expired /\ {Announce(id), Change(id, FALSE)} \cap mail[s] # {}
                      THEN [overtaken EXCEPT ![s] = @ \cup {id}] ELSE overtaken
      /\ UNCHANGED <<seats, items, lastId>>
  BY DEF ReceiveChange
<1>2. \A i \in shown[s] : mark(i) \in [id : Ids, expired : BOOLEAN]
  BY ClientTypes
<1>3. /\ shown'[s] = {mark(i) : i \in shown[s]}
      /\ mail'[s] = mail[s] \ {Change(id, expired)}
      /\ overtaken[s] \subseteq overtaken'[s]
      /\ ClientOnly(s)
  <2>1. {mark(i) : i \in shown[s]} \subseteq [id : Ids, expired : BOOLEAN]
    BY <1>2
  <2> DEFINE marked == {mark(i) : i \in shown[s]}
  <2> HIDE DEF mark
  <2>2. shown' = [shown EXCEPT ![s] = marked]
    BY <1>1 DEF mark
  <2> HIDE DEF marked
  <2>3. marked \subseteq [id : Ids, expired : BOOLEAN]
    BY <2>1 DEF marked
  <2>4. shown'[s] = marked /\ shown' \in [Watched -> SUBSET [id : Ids, expired : BOOLEAN]]
        /\ \A t \in Watched \ {s} : shown'[t] = shown[t]
    BY <2>2, <2>3, ClientTypes
  <2>5. /\ mail'[s] = mail[s] \ {Change(id, expired)}
        /\ mail' \in [Watched -> SUBSET (News \cup Changes)]
        /\ \A t \in Watched \ {s} : mail'[t] = mail[t]
    BY <1>1, ClientTypes
  <2>6. /\ overtaken[s] \subseteq overtaken'[s]
        /\ overtaken' \in [Watched -> SUBSET Ids]
        /\ \A t \in Watched \ {s} : overtaken'[t] = overtaken[t]
    BY <1>1, ClientTypes
  <2>7. ClientOnly(s)
    BY <1>1, <2>4, <2>5, <2>6 DEF ClientOnly
  <2> QED
    BY <2>4, <2>5, <2>6, <2>7 DEF marked
<1>4. ASSUME NEW j \in Ids, j # id, HeardOf(s, j)'
      PROVE  Covered(s, j)'
  <2>1. HeardOf(s, j)
    <3>1. ASSUME [id |-> j, expired |-> FALSE] \in shown'[s]
          PROVE  [id |-> j, expired |-> FALSE] \in shown[s]
      <4>1. PICK i \in shown[s] : [id |-> j, expired |-> FALSE] = mark(i)
        BY <1>3, <3>1
      <4>2. i \in [id : Ids, expired : BOOLEAN]
        BY ClientTypes
      <4>3. CASE i.id = id
        BY <1>4, <4>1, <4>2, <4>3
      <4>4. CASE i.id # id
        BY <4>1, <4>4
      <4> QED
        BY <4>3, <4>4
    <3> QED
      BY <1>3, <1>4, <3>1 DEF HeardOf
  <2>2. Covered(s, j)
    BY <2>1, ClientTypes
  <2>3. Change(j, TRUE) # Change(id, expired)
    BY <1>4, Kinds DEF Change
  <2> QED
    BY <1>1, <1>3, <2>2, <2>3 DEF Covered
<1>5. CASE expired = FALSE
  <2>1. Covered(s, id)
    BY <1>1, <1>5, ClientTypes DEF HeardOf
  <2>2. Change(id, TRUE) # Change(id, expired)
    BY <1>5, Kinds
  <2>3. Covered(s, id)'
    BY <1>1, <1>3, <2>1, <2>2 DEF Covered
  <2>4. /\ shown[s] = {} => shown'[s] = {}
        /\ mail[s] = {} => mail'[s] = {}
    BY <1>3
  <2> QED
    BY <1>1, <1>3, <1>4, <2>3, <2>4, ClientTypes, ClientOnlyInv
<1>6. CASE expired = TRUE
  <2>1. ASSUME HeardOf(s, id)' PROVE Covered(s, id)'
    <3>1. [id |-> id, expired |-> FALSE] \notin shown'[s]
      <4>1. ASSUME NEW i \in shown[s], [id |-> id, expired |-> FALSE] = mark(i)
            PROVE FALSE
        <5>1. i \in [id : Ids, expired : BOOLEAN]
          BY ClientTypes
        <5>2. CASE i.id = id
          <6>1. mark(i).expired = TRUE
            BY <1>6, <5>1, <5>2
          <6> QED
            BY <4>1, <6>1
        <5>3. CASE i.id # id
          BY <4>1, <5>3
        <5> QED
          BY <5>2, <5>3
      <4> QED
        BY <1>3, <4>1
    <3>2. {Announce(id), Change(id, FALSE)} \cap mail[s] # {}
      BY <1>3, <2>1, <3>1 DEF HeardOf
    <3>3. id \in overtaken'[s]
      BY <1>1, <1>6, <3>2, ClientTypes
    <3> QED
      BY <3>3 DEF Covered
  <2>2. /\ shown[s] = {} => shown'[s] = {}
        /\ mail[s] = {} => mail'[s] = {}
    BY <1>3
  <2> QED
    BY <1>3, <1>4, <2>1, <2>2, ClientTypes, ClientOnlyInv
<1> QED
  BY <1>5, <1>6

-----------------------------------------------------------------------------
(* The theorems.                                                           *)
LEMMA InitInv == Init => Inv
<1> SUFFICES ASSUME Init PROVE Inv
  OBVIOUS
<1>1. items = <<>> /\ items \in Seq(Items) /\ Len(items) = 0 /\ DOMAIN items = {}
  BY DEF Init
<1>2. MaxItems \in Nat /\ MaxVotes \in Nat
  BY VotesAssumption
<1>3. TypeOK
  BY <1>1, <1>2 DEF Init, TypeOK, Seats
<1>4. ClientsInv
  BY DEF Init, ClientsInv, HeardOf
<1> QED
  BY <1>1, <1>3, <1>4 DEF Init, Inv

LEMMA ClientStepInv ==
  ASSUME Inv, ClientStep
  PROVE  Inv'
<1>1. PICK s \in Watched :
        \/ Look(s)
        \/ \E i \in shown[s] : Vote(s, i)
        \/ \E id \in Ids :
             \/ ReceiveNew(s, id)
             \/ \E expired \in BOOLEAN : ReceiveChange(s, id, expired)
  BY DEF ClientStep
<1>2. CASE Look(s)
  <2>1. PICK r \in Remaining(s) : shown' = [shown EXCEPT ![s] = r]
    BY <1>2 DEF Look
  <2>2. r \in SUBSET shown[s]
    BY RemainingShown
  <2> QED
    BY <1>2, <2>1, <2>2, LessShownInv DEF Look
<1>3. ASSUME NEW i \in shown[s], Vote(s, i) PROVE Inv'
  <2>1. shown' = [shown EXCEPT ![s] = shown[s] \ {i}]
    BY <1>3 DEF Vote
  <2> QED
    BY <1>3, <2>1, LessShownInv DEF Vote
<1> QED
  BY <1>1, <1>2, <1>3, ReceiveNewInv, ReceiveChangeInv

LEMMA InvStep == Inv /\ [Next]_vars => Inv'
<1> SUFFICES ASSUME Inv, [Next]_vars PROVE Inv'
  OBVIOUS
<1>1. CASE ComeOrGo
  BY <1>1, LoginInv, PlayInv, PlayerLeavesInv, LeaveInv DEF ComeOrGo
<1>2. CASE Proposal
  BY <1>2, ProposeInv DEF Proposal
<1>3. CASE Aging
  BY <1>3, AgeInv DEF Aging
<1>4. CASE ClientStep
  BY <1>4, ClientStepInv
<1>5. CASE \E s \in Slots, id \in Ids, accept \in BOOLEAN : ReceiveBallot(s, id, accept)
  BY <1>5, ReceiveBallotInv
<1>6. CASE UNCHANGED vars
  BY <1>6 DEF vars, client, history, Inv, TypeOK, ClientsInv, HeardOf, Covered
<1> QED
  BY <1>1, <1>2, <1>3, <1>4, <1>5, <1>6 DEF Next

LEMMA InvAlways == Spec => []Inv
BY InitInv, InvStep, PTL DEF Spec

(* The types of all variables, and the length of the list of votes, which  *)
(* AcceptNewVote limits.                                                   *)
THEOREM TypeCorrect == Spec => []TypeOK
<1>1. Inv => TypeOK
  BY DEF Inv
<1> QED
  BY <1>1, InvAlways, PTL

(* Only ballots of machines that are there count, whoever is thrown out    *)
(* while the server looks at all votes (RemoveVoterCompletely).            *)
THEOREM BallotsStand == Spec => []BallotsOfThosePresent
<1>1. Inv => BallotsOfThosePresent
  BY ServerSound DEF Inv, Fine, Here, BallotsOfThosePresent, Present, Connected
<1> QED
  BY <1>1, InvAlways, PTL

(* Majorities decide, although the voters of a vote are counted once, when *)
(* it is announced (eVoteItem::Evaluate, ReBroadcast).                     *)
THEOREM MajorityRules == Spec => []MajorityDecides
<1>1. Inv => MajorityDecides
  BY DEF Inv, Just, MajorityDecides
<1> QED
  BY <1>1, InvAlways, PTL

(* A kick hits the machine of the accused and no other, even if he has     *)
(* left and somebody else has his slot (eVoteItemKick::DoExecuteHarm).     *)
THEOREM OnlyTheAccused == Spec => []KickHitsTheAccused
<1>1. Inv => KickHitsTheAccused
  BY DEF Inv, Just, KickHitsTheAccused
<1> QED
  BY <1>1, InvAlways, PTL

(* What a client shows as open is open, or it will hear of the end, or the *)
(* end has overtaken older news of it (eVoteItemServerControlled).         *)
THEOREM ClientsHearOfTheEnd == Spec => []ShownIsOpen
<1>1. Inv => ShownIsOpen
  <2> SUFFICES ASSUME Inv, NEW s \in Watched, NEW i \in shown[s], ~ i.expired
               PROVE  \/ \E k \in DOMAIN items : items[k].id = i.id
                      \/ Change(i.id, TRUE) \in mail[s]
                      \/ i.id \in overtaken[s]
    BY DEF ShownIsOpen
  <2>1. i \in [id : Ids, expired : BOOLEAN]
    BY ClientTypes
  <2>2. i = [id |-> i.id, expired |-> FALSE] /\ i.id \in Ids
    BY <2>1
  <2>3. HeardOf(s, i.id)
    BY <2>2 DEF HeardOf
  <2>4. Covered(s, i.id)
    BY <2>2, <2>3, ClientTypes
  <2> QED
    BY <2>4 DEF Covered
<1> QED
  BY <1>1, InvAlways, PTL
===============================================================================
