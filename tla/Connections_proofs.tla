-------------------------- MODULE Connections_proofs --------------------------
(***************************************************************************)
(* Proofs about the clients of a server: the version it agrees on with     *)
(* them and the watched settings (VersionControl), and the slots it gives  *)
(* them (LoginSlots, instantiated as LS with the same number of slots).    *)
(*                                                                         *)
(* The first part follows an update of the version down to the updates     *)
(* nested in it.  Whatever a nested update does is described by relations  *)
(* on the server's states (Step, Moves, Updated); these compose, and by    *)
(* induction on how deep updates nest, all of them do what Updated says    *)
(* and, while their assertion holds, none runs out of levels.              *)
(***************************************************************************)
EXTENDS VersionControl, SlotLimits, FiniteSetTheorems, SequenceTheorems, TLAPS

(* The other constants and variables of LoginSlots.                        *)
CONSTANTS Machines, SoftLimit, MaxAttempts, MaxGrants, MaxKicks, Patient, Heard

VARIABLES lastPeers, sameIP, grants, accepts, denials, logouts

LS == INSTANCE LoginSlots

-----------------------------------------------------------------------------

(* Induction up to a bound.                                                *)
LEMMA SetInduction ==
  ASSUME NEW n \in Nat, NEW S, 0 \in S,
         \A k \in 0 .. n : k # n /\ k \in S => k + 1 \in S
  PROVE  \A k \in 0 .. n : k \in S
<1> SUFFICES ASSUME NEW m \in 0 .. n, m \notin S PROVE FALSE
  OBVIOUS
<1> DEFINE T == S \cap (0 .. m)
           f == [k \in T |-> k + 1]
<1>1. IsFiniteSet(0 .. m)
  BY FS_Interval
<1>2. T \in SUBSET (0 .. m)
  OBVIOUS
<1>3. IsFiniteSet(T) /\ 0 \in T
  BY <1>1, <1>2, FS_Subset
<1>4. IsFiniteSet(T \ {0}) /\ Cardinality(T \ {0}) = Cardinality(T) - 1
      /\ Cardinality(T) \in Nat
  BY <1>3, FS_RemoveElement, FS_CardinalityType
<1>5. \A k \in T : k + 1 \in T \ {0}
  OBVIOUS
<1>6. f \in [T -> T \ {0}]
  BY <1>5
<1>7. \A x, y \in T : f[x] = f[y] => x = y
  OBVIOUS
<1> HIDE DEF f, T
<1>8. Cardinality(T \ {0}) < Cardinality(T)
  BY <1>4
<1>9. \E x, y \in T : x # y /\ f[x] = f[y]
  BY <1>3, <1>4, <1>6, <1>8, FS_PigeonHole
<1> QED
  BY <1>7, <1>9

-----------------------------------------------------------------------------
(* The range the server itself supports.                                   *)
Own(s) == AdaptVersion(s, Native(s))

(* What the constants are.                                                 *)
LEMMA ConstantsTyped ==
  /\ MaxClients \in Nat /\ MaxClients > 0 /\ Slots = 1 .. MaxClients
  /\ Followed \subseteq Slots
  /\ Len(ItemList) \in Nat
  /\ \A k \in 1 .. Len(ItemList) : ItemList[k] \in Items
  /\ \A x \in Items : \E k \in 1 .. Len(ItemList) : x = ItemList[k]
  /\ Top \in Nat
  /\ \A x \in Items : Introduced[x] \in 0 .. Top
  /\ Default \in Values
  /\ MaxNesting \in Nat /\ MaxNesting > 0
BY VersionAssumption DEF Slots, Items, Default, MaxNesting

(* The native range is one, and not empty.                                 *)
LEMMA NativeTyped ==
  ASSUME NEW s \in Servers
  PROVE  /\ Native(s) \in Ranges
         /\ Native(s).min <= Native(s).max
         /\ Native(s).min = s.minVersion
BY ConstantsTyped DEF Native, Servers, Ranges, Larger, Smaller

(* Some version among these is the largest one.                            *)
LEMMA Largest ==
  ASSUME NEW a \in 0 .. Top, NEW B \in SUBSET Items
  PROVE  \E m \in {a} \cup {Introduced[x] : x \in B} :
           \A x \in B : m >= Introduced[x] /\ m >= a
<1> DEFINE T == {a} \cup {Introduced[x] : x \in B}
           S == {k \in 0 .. Top : \E t \in T : t >= k}
<1>1. T \subseteq 0 .. Top /\ Top \in Nat
  BY ConstantsTyped
<1>2. SUFFICES ASSUME \A m \in T : \E t \in T : t > m
               PROVE  FALSE
  <2>1. PICK m \in T : \A t \in T : ~ t > m
    BY <1>2
  <2>2. \A t \in T : m >= t
    BY <1>1, <2>1
  <2>3. \A x \in B : m >= Introduced[x] /\ m >= a
    BY <2>2
  <2> QED
    BY <2>3
<1>3. a \in T
  OBVIOUS
<1> HIDE DEF T
<1>4. 0 \in S
  BY <1>1, <1>3
<1>5. \A k \in 0 .. Top : k # Top /\ k \in S => k + 1 \in S
  <2> SUFFICES ASSUME NEW k \in 0 .. Top, k # Top, k \in S PROVE k + 1 \in S
    OBVIOUS
  <2>1. PICK t \in T : t >= k
    OBVIOUS
  <2>2. PICK r \in T : r > t
    BY <1>2
  <2>3. r >= k + 1 /\ k + 1 \in 0 .. Top
    BY <1>1, <2>1, <2>2
  <2> QED
    BY <2>3
<1> HIDE DEF S
<1>6. Top \in S
  BY <1>1, <1>4, <1>5, SetInduction
<1>7. PICK t \in T : t >= Top
  BY <1>6 DEF S
<1>8. PICK r \in T : r > t
  BY <1>2
<1> QED
  BY <1>1, <1>7, <1>8

(* What the blocking settings in use leave of it is a range, is not empty  *)
(* unless the assertion fails, and fits these settings.                    *)
LEMMA OwnTyped ==
  ASSUME NEW s \in Servers
  PROVE  /\ Own(s) \in Ranges
         /\ \A x \in Blocking(s) : Introduced[x] <= Own(s).min
         /\ CanAdaptVersion(s, Native(s)) => Own(s).min <= Own(s).max
<1> DEFINE n == Native(s)
           M == {n.min} \cup {Introduced[x] : x \in Blocking(s)}
           P(m) == \A x \in Blocking(s) : m >= Introduced[x] /\ m >= n.min
           c == CHOOSE m \in M : P(m)
<1>1. n \in Ranges /\ n.min \in 0 .. Top /\ n.min <= n.max
  BY NativeTyped DEF Ranges
<1>2. Blocking(s) \in SUBSET Items
  BY DEF Blocking
<1>3. \E m \in M : P(m)
  BY <1>1, <1>2, Largest
<1>4. Own(s) = [n EXCEPT !.min = c]
  BY DEF Own, AdaptVersion
<1>5. c \in M /\ P(c)
  <2> HIDE DEF P, M
  <2> QED
    BY <1>3
<1> HIDE DEF c, n
<1>6. c \in 0 .. Top
  BY <1>1, <1>2, <1>5, ConstantsTyped
<1>7. Own(s) \in Ranges /\ Own(s).min = c /\ Own(s).max = n.max
  BY <1>1, <1>4, <1>6 DEF Ranges
<1>8. CanAdaptVersion(s, Native(s)) => c <= n.max
  BY <1>1, <1>2, <1>5 DEF CanAdaptVersion, n
<1> QED
  BY <1>5, <1>7, <1>8, <1>2, ConstantsTyped

(* It depends on the limits and the blocking settings in use only.         *)
LEMMA OwnSame ==
  ASSUME NEW s, NEW t,
         s.minVersion = t.minVersion, s.maxVersion = t.maxVersion,
         Blocking(s) = Blocking(t)
  PROVE  Own(s) = Own(t)
<1>1. Native(s) = Native(t)
  BY DEF Native
<1> QED
  BY <1>1 DEF Own, AdaptVersion

-----------------------------------------------------------------------------
(* The recursions are well defined.                                        *)

(* The loop over the slots, turn by turn.                                  *)
LEMMA MergedTurns ==
  ASSUME NEW u, NEW s, NEW native, NEW mk
  PROVE  /\ Merged(u, s, native, mk)[0] = [server |-> s, range |-> native]
         /\ \A k \in 1 .. MaxClients :
              Merged(u, s, native, mk)[k] =
                MergeClient(u, Merged(u, s, native, mk)[k - 1], native,
                            MaxClients + 1 - k, mk)
<1> DEFINE z == [server |-> s, range |-> native]
           Turn(k, p) == MergeClient(u, p, native, MaxClients + 1 - k, mk)
           Upto(m, g) == g = [k \in 0 .. m |-> IF k = 0 THEN z ELSE Turn(k, g[k - 1])]
           S == {m \in 0 .. MaxClients : \E g : Upto(m, g)}
<1>0. MaxClients \in Nat
  BY ConstantsTyped
<1>1. Merged(u, s, native, mk) = CHOOSE g : g = [k \in 0 .. MaxClients |->
              IF k = 0 THEN [server |-> s, range |-> native]
                ELSE MergeClient(u, g[k - 1], native, MaxClients + 1 - k, mk)]
  BY DEF Merged
<1>2. Merged(u, s, native, mk) = CHOOSE g : Upto(MaxClients, g)
  BY <1>1
<1>3. \A k, p : Turn(k, p) = MergeClient(u, p, native, MaxClients + 1 - k, mk)
  OBVIOUS
<1>4. z = [server |-> s, range |-> native]
  OBVIOUS
<1> HIDE DEF Turn, z
<1>5. 0 \in S
  <2> DEFINE g == [k \in 0 .. 0 |-> z]
  <2>1. g = [k \in 0 .. 0 |-> IF k = 0 THEN z ELSE Turn(k, g[k - 1])]
    OBVIOUS
  <2> HIDE DEF g
  <2>2. \E f : Upto(0, f)
    BY <2>1
  <2> HIDE DEF Upto
  <2> QED
    BY <1>0, <2>2
<1>6. ASSUME NEW m \in 0 .. MaxClients, m # MaxClients, m \in S PROVE m + 1 \in S
  <2>1. PICK g : Upto(m, g)
    BY <1>6
  <2> DEFINE h == [k \in 0 .. m + 1 |-> IF k = m + 1 THEN Turn(k, g[m]) ELSE g[k]]
  <2>2. \A k \in 0 .. m : g[k] = IF k = 0 THEN z ELSE Turn(k, g[k - 1])
    BY <1>0, <2>1
  <2>3. ASSUME NEW k \in 0 .. m + 1
        PROVE  h[k] = IF k = 0 THEN z ELSE Turn(k, h[k - 1])
    <3>1. CASE k = m + 1
      BY <1>0, <3>1
    <3>2. CASE k \in 0 .. m
      BY <1>0, <2>2, <3>2
    <3> QED
      BY <1>0, <3>1, <3>2
  <2>4. h = [k \in 0 .. m + 1 |-> h[k]]
    OBVIOUS
  <2> HIDE DEF h
  <2>5. Upto(m + 1, h)
    BY <2>3, <2>4
  <2>6. \E f : Upto(m + 1, f)
    BY <2>5
  <2>7. m + 1 \in 0 .. MaxClients
    BY <1>0, <1>6
  <2> HIDE DEF Upto
  <2> QED
    BY <2>6, <2>7
<1> HIDE DEF Upto
<1>7. MaxClients \in S
  <2> HIDE DEF S
  <2>1. \A m \in 0 .. MaxClients : m # MaxClients /\ m \in S => m + 1 \in S
    BY <1>6
  <2>2. \A m \in 0 .. MaxClients : m \in S
    BY <1>0, <1>5, <2>1, SetInduction
  <2> QED
    BY <1>0, <2>2
<1>8. Upto(MaxClients, Merged(u, s, native, mk))
  BY <1>2, <1>7
<1> DEFINE r == Merged(u, s, native, mk)
<1>9. Upto(MaxClients, r)
  BY <1>8
<1> HIDE DEF r
<1> USE DEF Upto
<1>10. \A k \in 0 .. MaxClients : r[k] = IF k = 0 THEN z ELSE Turn(k, r[k - 1])
  BY <1>0, <1>9
<1>11. r[0] = z /\ \A k \in 1 .. MaxClients : r[k] = Turn(k, r[k - 1])
  BY <1>0, <1>10
<1> QED
  BY <1>3, <1>4, <1>11 DEF r

(* The loop over the settings, turn by turn.                               *)
LEMMA AdaptedTurns ==
  ASSUME NEW u, NEW s, NEW max, NEW mk
  PROVE  /\ Adapted(u, s, max, mk)[0] = s
         /\ \A k \in 1 .. Len(ItemList) :
              Adapted(u, s, max, mk)[k] =
                AdaptItem(u, Adapted(u, s, max, mk)[k - 1], ItemList[k], max, mk)
<1> DEFINE z == s
           Turn(k, p) == AdaptItem(u, p, ItemList[k], max, mk)
           Upto(m, g) == g = [k \in 0 .. m |-> IF k = 0 THEN z ELSE Turn(k, g[k - 1])]
           S == {m \in 0 .. Len(ItemList) : \E g : Upto(m, g)}
<1>0. Len(ItemList) \in Nat
  BY ConstantsTyped
<1>1. Adapted(u, s, max, mk) = CHOOSE g : g = [k \in 0 .. Len(ItemList) |->
              IF k = 0 THEN s ELSE AdaptItem(u, g[k - 1], ItemList[k], max, mk)]
  BY DEF Adapted
<1>2. Adapted(u, s, max, mk) = CHOOSE g : Upto(Len(ItemList), g)
  BY <1>1
<1>3. \A k, p : Turn(k, p) = AdaptItem(u, p, ItemList[k], max, mk)
  OBVIOUS
<1>4. z = s
  OBVIOUS
<1> HIDE DEF Turn, z
<1>5. 0 \in S
  <2> DEFINE g == [k \in 0 .. 0 |-> z]
  <2>1. g = [k \in 0 .. 0 |-> IF k = 0 THEN z ELSE Turn(k, g[k - 1])]
    OBVIOUS
  <2> HIDE DEF g
  <2>2. \E f : Upto(0, f)
    BY <2>1
  <2> HIDE DEF Upto
  <2> QED
    BY <1>0, <2>2
<1>6. ASSUME NEW m \in 0 .. Len(ItemList), m # Len(ItemList), m \in S PROVE m + 1 \in S
  <2>1. PICK g : Upto(m, g)
    BY <1>6
  <2> DEFINE h == [k \in 0 .. m + 1 |-> IF k = m + 1 THEN Turn(k, g[m]) ELSE g[k]]
  <2>2. \A k \in 0 .. m : g[k] = IF k = 0 THEN z ELSE Turn(k, g[k - 1])
    BY <1>0, <2>1
  <2>3. ASSUME NEW k \in 0 .. m + 1
        PROVE  h[k] = IF k = 0 THEN z ELSE Turn(k, h[k - 1])
    <3>1. CASE k = m + 1
      BY <1>0, <3>1
    <3>2. CASE k \in 0 .. m
      BY <1>0, <2>2, <3>2
    <3> QED
      BY <1>0, <3>1, <3>2
  <2>4. h = [k \in 0 .. m + 1 |-> h[k]]
    OBVIOUS
  <2> HIDE DEF h
  <2>5. Upto(m + 1, h)
    BY <2>3, <2>4
  <2>6. \E f : Upto(m + 1, f)
    BY <2>5
  <2>7. m + 1 \in 0 .. Len(ItemList)
    BY <1>0, <1>6
  <2> HIDE DEF Upto
  <2> QED
    BY <2>6, <2>7
<1> HIDE DEF Upto
<1>7. Len(ItemList) \in S
  <2> HIDE DEF S
  <2>1. \A m \in 0 .. Len(ItemList) : m # Len(ItemList) /\ m \in S => m + 1 \in S
    BY <1>6
  <2>2. \A m \in 0 .. Len(ItemList) : m \in S
    BY <1>0, <1>5, <2>1, SetInduction
  <2> QED
    BY <1>0, <2>2
<1>8. Upto(Len(ItemList), Adapted(u, s, max, mk))
  BY <1>2, <1>7
<1> DEFINE r == Adapted(u, s, max, mk)
<1>9. Upto(Len(ItemList), r)
  BY <1>8
<1> HIDE DEF r
<1> USE DEF Upto
<1>10. \A k \in 0 .. Len(ItemList) : r[k] = IF k = 0 THEN z ELSE Turn(k, r[k - 1])
  BY <1>0, <1>9
<1>11. r[0] = z /\ \A k \in 1 .. Len(ItemList) : r[k] = Turn(k, r[k - 1])
  BY <1>0, <1>10
<1> QED
  BY <1>3, <1>4, <1>11 DEF r

(* Updates, by how deep they may nest.                                     *)
LEMMA UpdateLevels ==
  /\ Updates[0] = [c \in Servers \X BOOLEAN |-> [c[1] EXCEPT !.failed = TRUE]]
  /\ \A k \in 1 .. MaxNesting :
              Updates[k] = [c \in Servers \X BOOLEAN |-> UpdateWith(Updates[k - 1], c[1], c[2])]
<1> DEFINE z == [c \in Servers \X BOOLEAN |-> [c[1] EXCEPT !.failed = TRUE]]
           Turn(k, p) == [c \in Servers \X BOOLEAN |-> UpdateWith(p, c[1], c[2])]
           Upto(m, g) == g = [k \in 0 .. m |-> IF k = 0 THEN z ELSE Turn(k, g[k - 1])]
           S == {m \in 0 .. MaxNesting : \E g : Upto(m, g)}
<1>0. MaxNesting \in Nat
  BY ConstantsTyped
<1>1. Updates = CHOOSE g : g = [k \in 0 .. MaxNesting |->
              IF k = 0 THEN [c \in Servers \X BOOLEAN |-> [c[1] EXCEPT !.failed = TRUE]]
                ELSE [c \in Servers \X BOOLEAN |-> UpdateWith(g[k - 1], c[1], c[2])]]
  BY DEF Updates
<1>2. Updates = CHOOSE g : Upto(MaxNesting, g)
  BY <1>1
<1>3. \A k, p : Turn(k, p) = [c \in Servers \X BOOLEAN |-> UpdateWith(p, c[1], c[2])]
  OBVIOUS
<1>4. z = [c \in Servers \X BOOLEAN |-> [c[1] EXCEPT !.failed = TRUE]]
  OBVIOUS
<1> HIDE DEF Turn, z
<1>5. 0 \in S
  <2> DEFINE g == [k \in 0 .. 0 |-> z]
  <2>1. g = [k \in 0 .. 0 |-> IF k = 0 THEN z ELSE Turn(k, g[k - 1])]
    OBVIOUS
  <2> HIDE DEF g
  <2>2. \E f : Upto(0, f)
    BY <2>1
  <2> HIDE DEF Upto
  <2> QED
    BY <1>0, <2>2
<1>6. ASSUME NEW m \in 0 .. MaxNesting, m # MaxNesting, m \in S PROVE m + 1 \in S
  <2>1. PICK g : Upto(m, g)
    BY <1>6
  <2> DEFINE h == [k \in 0 .. m + 1 |-> IF k = m + 1 THEN Turn(k, g[m]) ELSE g[k]]
  <2>2. \A k \in 0 .. m : g[k] = IF k = 0 THEN z ELSE Turn(k, g[k - 1])
    BY <1>0, <2>1
  <2>3. ASSUME NEW k \in 0 .. m + 1
        PROVE  h[k] = IF k = 0 THEN z ELSE Turn(k, h[k - 1])
    <3>1. CASE k = m + 1
      BY <1>0, <3>1
    <3>2. CASE k \in 0 .. m
      BY <1>0, <2>2, <3>2
    <3> QED
      BY <1>0, <3>1, <3>2
  <2>4. h = [k \in 0 .. m + 1 |-> h[k]]
    OBVIOUS
  <2> HIDE DEF h
  <2>5. Upto(m + 1, h)
    BY <2>3, <2>4
  <2>6. \E f : Upto(m + 1, f)
    BY <2>5
  <2>7. m + 1 \in 0 .. MaxNesting
    BY <1>0, <1>6
  <2> HIDE DEF Upto
  <2> QED
    BY <2>6, <2>7
<1> HIDE DEF Upto
<1>7. MaxNesting \in S
  <2> HIDE DEF S
  <2>1. \A m \in 0 .. MaxNesting : m # MaxNesting /\ m \in S => m + 1 \in S
    BY <1>6
  <2>2. \A m \in 0 .. MaxNesting : m \in S
    BY <1>0, <1>5, <2>1, SetInduction
  <2> QED
    BY <1>0, <2>2
<1>8. Upto(MaxNesting, Updates)
  BY <1>2, <1>7
<1> DEFINE r == Updates
<1>9. Upto(MaxNesting, r)
  BY <1>8
<1> HIDE DEF r
<1> USE DEF Upto
<1>10. \A k \in 0 .. MaxNesting : r[k] = IF k = 0 THEN z ELSE Turn(k, r[k - 1])
  BY <1>0, <1>9
<1>11. r[0] = z /\ \A k \in 1 .. MaxNesting : r[k] = Turn(k, r[k - 1])
  BY <1>0, <1>10
<1> QED
  BY <1>3, <1>4, <1>11 DEF r

-----------------------------------------------------------------------------
(* What every update does, whatever the state: it ends in a state of the   *)
(* right type, and does not forget that an assertion has failed.           *)
Keeps(s, t) == t \in Servers /\ (s.failed => t.failed)
Total(u) == \A s \in Servers, mk \in BOOLEAN : Keeps(s, u[<<s, mk>>])

(* A state with a message for some clients.                                *)
LEMMA PostSettingsEffect ==
  ASSUME NEW s \in Servers, NEW slots, NEW items
  PROVE  LET t == PostSettings(s, slots, items) IN
         /\ t \in Servers
         /\ t.version = s.version /\ t.current = s.current
         /\ t.minVersion = s.minVersion /\ t.maxVersion = s.maxVersion
         /\ t.value = s.value /\ t.saved = s.saved
         /\ t.nonDefault = s.nonDefault /\ t.reverted = s.reverted
         /\ t.versions = s.versions
         /\ t.kicked = s.kicked /\ t.failed = s.failed
         /\ \A i \in Followed, x \in Items :
              t.settings[i][x] =
                IF i \in slots /\ Connected(s, i) /\ x \in items
                THEN Append(s.settings[i][x], s.value[x]) ELSE s.settings[i][x]
<1> DEFINE q == [i \in Followed |-> [x \in Items |->
                   IF i \in Receivers(s, slots) /\ x \in items
                   THEN Append(s.settings[i][x], s.value[x]) ELSE s.settings[i][x]]]
           t == PostSettings(s, slots, items)
<1>1. t = [s EXCEPT !.settings = q]
  BY DEF PostSettings
<1>2. q \in [Followed -> [Items -> Seq(Values)]]
  <2>1. \A i \in Followed, x \in Items :
          s.settings[i][x] \in Seq(Values) /\ s.value[x] \in Values
    BY DEF Servers
  <2>2. \A i \in Followed, x \in Items : Append(s.settings[i][x], s.value[x]) \in Seq(Values)
    BY <2>1
  <2> QED
    BY <2>1, <2>2
<1>3. \A i \in Followed, x \in Items :
        q[i][x] = IF i \in slots /\ Connected(s, i) /\ x \in items
                  THEN Append(s.settings[i][x], s.value[x]) ELSE s.settings[i][x]
  BY DEF Receivers
<1> HIDE DEF q, t
<1>4. /\ t \in Servers
      /\ t.version = s.version /\ t.current = s.current
      /\ t.minVersion = s.minVersion /\ t.maxVersion = s.maxVersion
      /\ t.value = s.value /\ t.saved = s.saved
      /\ t.nonDefault = s.nonDefault /\ t.reverted = s.reverted
      /\ t.versions = s.versions
      /\ t.kicked = s.kicked /\ t.failed = s.failed
  BY <1>1, <1>2 DEF Servers
<1>5. t.settings = q
  BY <1>1 DEF Servers
<1> QED
  BY <1>3, <1>4, <1>5 DEF t

(* The same with a version.                                                *)
LEMMA PostVersionEffect ==
  ASSUME NEW s \in Servers, NEW slots
  PROVE  LET t == PostVersion(s, slots) IN
         /\ t \in Servers
         /\ t.version = s.version /\ t.current = s.current
         /\ t.minVersion = s.minVersion /\ t.maxVersion = s.maxVersion
         /\ t.value = s.value /\ t.saved = s.saved
         /\ t.nonDefault = s.nonDefault /\ t.reverted = s.reverted
         /\ t.settings = s.settings
         /\ t.kicked = s.kicked /\ t.failed = s.failed
<1> DEFINE q == [i \in Followed |-> IF i \in Receivers(s, slots)
                                    THEN Append(s.versions[i], s.current) ELSE s.versions[i]]
           t == PostVersion(s, slots)
<1>1. t = [s EXCEPT !.versions = q]
  BY DEF PostVersion
<1>2. q \in [Followed -> Seq(Ranges)]
  <2>1. \A i \in Followed : s.versions[i] \in Seq(Ranges) /\ s.current \in Ranges
    BY DEF Servers
  <2>2. \A i \in Followed : Append(s.versions[i], s.current) \in Seq(Ranges)
    BY <2>1
  <2> QED
    BY <2>1, <2>2
<1> HIDE DEF q, t
<1> QED
  BY <1>1, <1>2 DEF Servers, t

(* A client that is gone.                                                  *)
LEMMA DisconnectedEffect ==
  ASSUME NEW s \in Servers, NEW i \in Slots
  PROVE  LET t == Disconnected(s, i) IN
         /\ t \in Servers
         /\ \A j \in Slots : t.version[j] = IF j = i THEN Nobody ELSE s.version[j]
         /\ t.current = s.current
         /\ t.minVersion = s.minVersion /\ t.maxVersion = s.maxVersion
         /\ t.value = s.value /\ t.saved = s.saved
         /\ t.nonDefault = s.nonDefault /\ t.reverted = s.reverted
         /\ t.kicked = s.kicked /\ t.failed = s.failed
         /\ \A j \in Followed : j # i => t.settings[j] = s.settings[j]
<1> DEFINE q == [j \in Followed |-> IF j = i THEN [x \in Items |-> <<>>] ELSE s.settings[j]]
           r == [j \in Followed |-> IF j = i THEN <<>> ELSE s.versions[j]]
           v == [s.version EXCEPT ![i] = Nobody]
           t == Disconnected(s, i)
<1>1. t = [s EXCEPT !.version = v, !.settings = q, !.versions = r]
  BY DEF Disconnected
<1>2. q \in [Followed -> [Items -> Seq(Values)]] /\ r \in [Followed -> Seq(Ranges)]
  BY DEF Servers
<1>3. v \in [Slots -> Ranges \cup {Nobody}]
      /\ \A j \in Slots : v[j] = IF j = i THEN Nobody ELSE s.version[j]
  BY DEF Servers
<1>4. \A j \in Followed : j # i => q[j] = s.settings[j]
  OBVIOUS
<1> HIDE DEF q, r, v, t
<1> QED
  BY <1>1, <1>2, <1>3, <1>4 DEF Servers, t

(* The operators of an update, one by one.                                 *)
LEMMA WatcherChangeKeeps ==
  ASSUME NEW u, Total(u), NEW s \in Servers, NEW x \in Items,
         NEW b \in BOOLEAN, NEW mk \in BOOLEAN
  PROVE  Keeps(s, WatcherChange(u, s, x, b, mk))
<1> DEFINE a == [s EXCEPT !.nonDefault[x] = b]
<1>1. a \in Servers /\ a.failed = s.failed
  BY DEF Servers
<1> HIDE DEF a
<1>2. Keeps(a, u[<<a, mk>>])
  BY <1>1 DEF Total
<1>3. CASE b = s.nonDefault[x]
  BY <1>3 DEF WatcherChange, Keeps
<1>4. CASE b # s.nonDefault[x]
  <2>1. WatcherChange(u, s, x, b, mk) = u[<<a, mk>>]
    BY <1>4 DEF WatcherChange, a
  <2> QED
    BY <1>1, <1>2, <2>1 DEF Keeps
<1> QED
  BY <1>3, <1>4

(* The watcher and the message of a setting that was set.                  *)
LEMMA CheckChangeKeeps ==
  ASSUME NEW u, Total(u), NEW s \in Servers, NEW x \in Items, NEW mk \in BOOLEAN
  PROVE  Keeps(s, CheckChange(u, s, x, mk))
<1> DEFINE w == WatcherChange(u, s, x, s.value[x] # Default, mk)
<1>1. Keeps(s, w)
  BY WatcherChangeKeeps
<1>2. CheckChange(u, s, x, mk) = PostSettings(w, Slots, {x})
  BY DEF CheckChange
<1> HIDE DEF w
<1> QED
  BY <1>1, <1>2, PostSettingsEffect DEF Keeps

(* A setting that is given a value.                                        *)
LEMMA SetValueKeeps ==
  ASSUME NEW u, Total(u), NEW s \in Servers, NEW x \in Items, NEW v \in Values,
         NEW mk \in BOOLEAN
  PROVE  Keeps(s, SetValue(u, s, x, v, mk))
<1> DEFINE a == [s EXCEPT !.value[x] = v]
<1>1. a \in Servers /\ a.failed = s.failed
  BY DEF Servers
<1>2. SetValue(u, s, x, v, mk) = s \/ SetValue(u, s, x, v, mk) = CheckChange(u, a, x, mk)
  BY DEF SetValue
<1> HIDE DEF a
<1>3. Keeps(a, CheckChange(u, a, x, mk))
  BY <1>1, CheckChangeKeeps
<1> QED
  BY <1>1, <1>2, <1>3 DEF Keeps

(* One turn of the loop over the settings.                                 *)
LEMMA AdaptItemKeeps ==
  ASSUME NEW u, Total(u), NEW s \in Servers, NEW x \in Items, NEW max,
         NEW mk \in BOOLEAN
  PROVE  Keeps(s, AdaptItem(u, s, x, max, mk))
<1>1. CASE ToRevert(s, x, max)
  <2> DEFINE a == [s EXCEPT !.reverted[x] = TRUE, !.saved[x] = s.value[x]]
             w == WatcherChange(u, a, x, FALSE, mk)
  <2>1. a \in Servers /\ a.failed = s.failed
    BY DEF Servers
  <2>2. AdaptItem(u, s, x, max, mk) = SetValue(u, w, x, Default, mk)
    BY <1>1 DEF AdaptItem, RevertItem
  <2> HIDE DEF a
  <2>3. Keeps(a, w)
    BY <2>1, WatcherChangeKeeps
  <2> HIDE DEF w
  <2>4. Keeps(w, SetValue(u, w, x, Default, mk))
    BY <2>3, SetValueKeeps, ConstantsTyped DEF Keeps
  <2> QED
    BY <2>1, <2>2, <2>3, <2>4 DEF Keeps
<1>2. CASE ~ ToRevert(s, x, max) /\ ToRestore(s, x, max)
  <2> DEFINE a == [s EXCEPT !.reverted[x] = FALSE]
  <2>1. a \in Servers /\ a.failed = s.failed /\ s.saved[x] \in Values
    BY DEF Servers
  <2>2. AdaptItem(u, s, x, max, mk) = SetValue(u, a, x, s.saved[x], mk)
    BY <1>2 DEF AdaptItem, RestoreItem
  <2> HIDE DEF a
  <2>3. Keeps(a, SetValue(u, a, x, s.saved[x], mk))
    BY <2>1, SetValueKeeps
  <2> QED
    BY <2>1, <2>2, <2>3 DEF Keeps
<1>3. CASE ~ ToRevert(s, x, max) /\ ~ ToRestore(s, x, max)
  BY <1>3 DEF AdaptItem, Keeps
<1> QED
  BY <1>1, <1>2, <1>3

(* The loop over the settings.                                             *)
LEMMA AdaptedKeeps ==
  ASSUME NEW u, Total(u), NEW s \in Servers, NEW max, NEW mk \in BOOLEAN
  PROVE  \A k \in 0 .. Len(ItemList) : Keeps(s, Adapted(u, s, max, mk)[k])
<1> DEFINE n == Len(ItemList)
           a == Adapted(u, s, max, mk)
           S == {k \in 0 .. n : Keeps(s, a[k])}
<1>0. n \in Nat /\ \A k \in 1 .. n : ItemList[k] \in Items
  BY ConstantsTyped
<1>1. a[0] = s /\ \A k \in 1 .. n : a[k] = AdaptItem(u, a[k - 1], ItemList[k], max, mk)
  BY AdaptedTurns
<1> HIDE DEF a, n
<1>2. 0 \in S
  BY <1>0, <1>1 DEF Keeps
<1>3. ASSUME NEW k \in 0 .. n, k # n, k \in S PROVE k + 1 \in S
  <2>1. k + 1 \in 1 .. n /\ (k + 1) - 1 = k
    BY <1>0, <1>3
  <2>2. a[k + 1] = AdaptItem(u, a[k], ItemList[k + 1], max, mk)
    BY <1>1, <2>1
  <2>3. Keeps(s, a[k])
    BY <1>3
  <2>4. Keeps(a[k], a[k + 1])
    BY <1>0, <2>1, <2>2, <2>3, AdaptItemKeeps DEF Keeps
  <2>5. Keeps(s, a[k + 1])
    BY <2>3, <2>4 DEF Keeps
  <2> QED
    BY <2>1, <2>5
<1> HIDE DEF S
<1>4. \A k \in 0 .. n : k \in S
  BY <1>0, <1>2, <1>3, SetInduction
<1> QED
  BY <1>4 DEF S, a, n

(* The part two ranges have in common.                                     *)
LEMMA MergeTyped ==
  ASSUME NEW a \in Ranges, NEW b \in Ranges
  PROVE  /\ Merge(a, b) \in Ranges
         /\ Merge(a, b).min >= a.min /\ Merge(a, b).min >= b.min
         /\ Merge(a, b).max <= a.max /\ Merge(a, b).max <= b.max
         /\ \A w \in Nat : /\ a.min <= w /\ w <= a.max /\ b.min <= w /\ w <= b.max
                           => Merge(a, b).min <= w /\ w <= Merge(a, b).max
BY ConstantsTyped DEF Merge, Ranges, Larger, Smaller

(* The version of a client that is connected is a range.                   *)
LEMMA ConnectedTyped ==
  ASSUME NEW s \in Servers, NEW i \in Slots, Connected(s, i)
  PROVE  s.version[i] \in Ranges
BY DEF Servers, Connected

(* The state after a kick, before the version is updated.                  *)
Kicked(s, i, t) ==
  /\ \A j \in Slots : t.version[j] = IF j = i THEN Nobody ELSE s.version[j]
  /\ t.minVersion = s.minVersion /\ t.maxVersion = s.maxVersion
  /\ t.value = s.value /\ t.saved = s.saved
  /\ t.nonDefault = s.nonDefault /\ t.reverted = s.reverted
  /\ t.kicked /\ t.failed = s.failed
  /\ \A j \in Followed : j # i => t.settings[j] = s.settings[j]

(* A kick does nothing, or goes on with a nested update.                   *)
LEMMA KickEffect ==
  ASSUME NEW u, NEW s \in Servers, NEW i \in Slots, NEW mk \in BOOLEAN
  PROVE  \/ ~ mk /\ Kick(u, s, i, mk) = s
         \/ mk /\ \E t \in Servers : Kicked(s, i, t) /\ Kick(u, s, i, mk) = u[<<t, FALSE>>]
<1> DEFINE a == [s EXCEPT !.kicked = TRUE]
           t == Disconnected(a, i)
<1>1. /\ a \in Servers
      /\ a.version = s.version
      /\ a.minVersion = s.minVersion /\ a.maxVersion = s.maxVersion
      /\ a.value = s.value /\ a.saved = s.saved
      /\ a.nonDefault = s.nonDefault /\ a.reverted = s.reverted
      /\ a.settings = s.settings
      /\ a.kicked /\ a.failed = s.failed
  BY DEF Servers
<1>2. CASE ~ mk
  BY <1>2 DEF Kick
<1>3. CASE mk
  <2>1. Kick(u, s, i, mk) = u[<<t, FALSE>>]
    BY <1>3 DEF Kick
  <2> HIDE DEF a
  <2>2. a \in Servers
    BY <1>1
  <2>3. t \in Servers /\ Kicked(a, i, t)
    <3>1. t.kicked
      BY <1>1, <2>2, DisconnectedEffect
    <3> QED
      BY <2>2, <3>1, DisconnectedEffect DEF Kicked
  <2> HIDE DEF t
  <2>4. Kicked(s, i, t)
    BY <1>1, <2>3 DEF Kicked
  <2> QED
    BY <1>3, <2>1, <2>3, <2>4
<1> QED
  BY <1>2, <1>3

(* Both are fine.                                                          *)
LEMMA KickKeeps ==
  ASSUME NEW u, Total(u), NEW s \in Servers, NEW i \in Slots, NEW mk \in BOOLEAN
  PROVE  Keeps(s, Kick(u, s, i, mk))
<1>1. CASE Kick(u, s, i, mk) = s
  BY <1>1 DEF Keeps
<1>2. ASSUME NEW t \in Servers, Kick(u, s, i, mk) = u[<<t, FALSE>>], Kicked(s, i, t)
      PROVE  Keeps(s, Kick(u, s, i, mk))
  BY <1>2 DEF Total, Keeps, Kicked
<1> QED
  BY <1>1, <1>2, KickEffect

(* One turn of the loop over the slots: the client does not count, its     *)
(* version is merged, or the loop starts over.                             *)
LEMMA MergeClientCases ==
  ASSUME NEW u, NEW m, NEW native, NEW i, NEW mk
  PROVE  LET t == MergeClient(u, m, native, i, mk) IN
         \/ ~ Connected(m.server, i) /\ t = m
         \/ /\ Connected(m.server, i) /\ Compatible(m.range, m.server.version[i])
            /\ t.server = m.server /\ t.range = Merge(m.range, m.server.version[i])
         \/ /\ Connected(m.server, i) /\ ~ Compatible(m.range, m.server.version[i])
            /\ t.server = Kick(u, m.server, i, mk) /\ t.range = native
BY DEF MergeClient

(* What holds of the range and of the server throughout the loop.          *)
Partial(s, m) ==
  /\ Keeps(s, m.server)
  /\ m.range \in Ranges /\ m.range.min <= m.range.max
  /\ m.range.min >= Own(s).min /\ m.range.max <= Own(s).max

(* The slot that the loop visits in turn k.                                *)
LEMMA TurnSlot ==
  ASSUME NEW k \in 1 .. MaxClients
  PROVE  MaxClients + 1 - k \in Slots
BY ConstantsTyped

(* The loop over the slots, after any number of them.                      *)
LEMMA MergedKeeps ==
  ASSUME NEW u, Total(u), NEW s \in Servers, CanAdaptVersion(s, Native(s)),
         NEW mk \in BOOLEAN
  PROVE  \A k \in 0 .. MaxClients : Partial(s, Merged(u, s, Own(s), mk)[k])
<1> DEFINE n == MaxClients
           o == Own(s)
           a == Merged(u, s, o, mk)
           S == {k \in 0 .. n : Partial(s, a[k])}
<1>0. n \in Nat
  BY ConstantsTyped
<1>1. /\ a[0] = [server |-> s, range |-> o]
      /\ \A k \in 1 .. n : a[k] = MergeClient(u, a[k - 1], o, MaxClients + 1 - k, mk)
  BY MergedTurns
<1>2. o \in Ranges /\ o.min <= o.max
  BY OwnTyped
<1> HIDE DEF a, n
<1>3. 0 \in S
  BY <1>0, <1>1, <1>2 DEF Partial, Keeps, Ranges
<1>4. ASSUME NEW k \in 0 .. n, k # n, k \in S PROVE k + 1 \in S
  <2> DEFINE i == MaxClients + 1 - (k + 1)
             m == a[k]
             t == a[k + 1]
  <2>1. k + 1 \in 1 .. n /\ (k + 1) - 1 = k
    BY <1>0, <1>4
  <2>2. t = MergeClient(u, m, o, i, mk)
    BY <1>1, <2>1
  <2>3. i \in Slots
    BY <2>1, TurnSlot DEF n
  <2>4. Partial(s, m)
    BY <1>4
  <2> SUFFICES Partial(s, t)
    BY <2>1
  <2> HIDE DEF i, m, t
  <2>5. m.server \in Servers
    BY <2>4 DEF Partial, Keeps
  <2>6. CASE t = m
    BY <2>4, <2>6
  <2>7. CASE /\ Connected(m.server, i) /\ Compatible(m.range, m.server.version[i])
             /\ t.server = m.server /\ t.range = Merge(m.range, m.server.version[i])
    <3>1. m.server.version[i] \in Ranges
      BY <2>3, <2>5, <2>7, ConnectedTyped
    <3>2. t.range.min <= t.range.max
      BY <2>7 DEF Compatible
    <3> QED
      BY <1>2, <2>4, <2>7, <3>1, <3>2, MergeTyped DEF Partial, Ranges
  <2>8. CASE t.server = Kick(u, m.server, i, mk) /\ t.range = o
    <3>1. Keeps(m.server, t.server)
      BY <2>3, <2>5, <2>8, KickKeeps
    <3> QED
      BY <1>2, <2>4, <2>8, <3>1 DEF Partial, Keeps, Ranges
  <2> QED
    BY <2>2, <2>6, <2>7, <2>8, MergeClientCases
<1> HIDE DEF S
<1>5. \A k \in 0 .. n : k \in S
  BY <1>0, <1>3, <1>4, SetInduction
<1> QED
  BY <1>5 DEF S, a, n

(* A new range is stored; nothing else that matters here changes.          *)
LEMMA AnnounceEffect ==
  ASSUME NEW s \in Servers, NEW r \in Ranges
  PROVE  LET t == Announce(s, r) IN
         /\ t \in Servers /\ t.current = r
         /\ t.version = s.version
         /\ t.minVersion = s.minVersion /\ t.maxVersion = s.maxVersion
         /\ t.value = s.value /\ t.saved = s.saved
         /\ t.nonDefault = s.nonDefault /\ t.reverted = s.reverted
         /\ t.settings = s.settings
         /\ t.kicked = s.kicked /\ t.failed = s.failed
<1> DEFINE a == [s EXCEPT !.current = r]
<1>1. /\ a \in Servers /\ a.current = r
      /\ a.version = s.version
      /\ a.minVersion = s.minVersion /\ a.maxVersion = s.maxVersion
      /\ a.value = s.value /\ a.saved = s.saved
      /\ a.nonDefault = s.nonDefault /\ a.reverted = s.reverted
      /\ a.settings = s.settings
      /\ a.kicked = s.kicked /\ a.failed = s.failed
  BY DEF Servers
<1>2. CASE r = s.current
  BY <1>2 DEF Announce
<1>3. CASE r # s.current
  <2>1. Announce(s, r) = PostVersion(a, Slots)
    BY <1>3 DEF Announce
  <2> HIDE DEF a
  <2> QED
    BY <1>1, <2>1, PostVersionEffect
<1> QED
  BY <1>2, <1>3

(* An update by its parts, when the assertion holds.                       *)
LEMMA UpdateParts ==
  ASSUME NEW u, NEW s, CanAdaptVersion(s, Native(s)), NEW mk
  PROVE  LET m == Merged(u, s, Own(s), mk)[MaxClients]
             w == Adapted(u, m.server, m.range.max, mk)[Len(ItemList)]
         IN  UpdateWith(u, s, mk) = Announce(w, m.range)
BY DEF UpdateWith, MergeClients, OnVersionChange, Own

(* A whole update.                                                         *)
LEMMA UpdateWithKeeps ==
  ASSUME NEW u, Total(u), NEW s \in Servers, NEW mk \in BOOLEAN
  PROVE  Keeps(s, UpdateWith(u, s, mk))
<1>1. CASE ~ CanAdaptVersion(s, Native(s))
  BY <1>1 DEF UpdateWith, Keeps, Servers
<1>2. CASE CanAdaptVersion(s, Native(s))
  <2> DEFINE m == Merged(u, s, Own(s), mk)[MaxClients]
             w == Adapted(u, m.server, m.range.max, mk)[Len(ItemList)]
  <2>1. UpdateWith(u, s, mk) = Announce(w, m.range)
    BY <1>2, UpdateParts
  <2>2. Partial(s, m)
    BY <1>2, MergedKeeps, ConstantsTyped
  <2> HIDE DEF m
  <2>3. Keeps(m.server, w)
    BY <2>2, AdaptedKeeps, ConstantsTyped DEF Partial, Keeps
  <2> HIDE DEF w
  <2>4. w \in Servers /\ m.range \in Ranges
    BY <2>2, <2>3 DEF Partial, Keeps
  <2>5. /\ Announce(w, m.range) \in Servers
        /\ Announce(w, m.range).failed = w.failed
    BY <2>4, AnnounceEffect
  <2> QED
    BY <2>1, <2>2, <2>3, <2>5 DEF Partial, Keeps
<1> QED
  BY <1>1, <1>2

(* An update at some level, and what it is made of.                        *)
LEMMA UpdateLevel ==
  /\ \A s \in Servers, mk \in BOOLEAN : Updates[0][<<s, mk>>] = [s EXCEPT !.failed = TRUE]
  /\ \A n \in 0 .. MaxNesting : n # MaxNesting =>
       \A s \in Servers, mk \in BOOLEAN :
         Updates[n + 1][<<s, mk>>] = UpdateWith(Updates[n], s, mk)
<1>1. \A n \in 0 .. MaxNesting : n # MaxNesting => n + 1 \in 1 .. MaxNesting /\ (n + 1) - 1 = n
  BY ConstantsTyped
<1> DEFINE F == [c \in Servers \X BOOLEAN |-> [c[1] EXCEPT !.failed = TRUE]]
           G(p) == [c \in Servers \X BOOLEAN |-> UpdateWith(p, c[1], c[2])]
<1>2. \A s \in Servers, mk \in BOOLEAN : F[<<s, mk>>] = [s EXCEPT !.failed = TRUE]
  OBVIOUS
<1>3. \A p : \A s \in Servers, mk \in BOOLEAN : G(p)[<<s, mk>>] = UpdateWith(p, s, mk)
  OBVIOUS
<1>4. /\ Updates[0] = F
      /\ \A k \in 1 .. MaxNesting : Updates[k] = G(Updates[k - 1])
  BY UpdateLevels
<1> HIDE DEF F, G
<1>5. \A n \in 0 .. MaxNesting : n # MaxNesting => Updates[n + 1] = G(Updates[n])
  BY <1>1, <1>4
<1> QED
  BY <1>2, <1>3, <1>4, <1>5

(* All updates end in a typed state, and failures last.                    *)
LEMMA UpdatesTotal == \A n \in 0 .. MaxNesting : Total(Updates[n])
<1> DEFINE S == {n \in 0 .. MaxNesting : Total(Updates[n])}
<1>0. MaxNesting \in Nat
  BY ConstantsTyped
<1>1. 0 \in S
  <2>1. ASSUME NEW s \in Servers PROVE Keeps(s, [s EXCEPT !.failed = TRUE])
    BY DEF Keeps, Servers
  <2>2. Total(Updates[0])
    BY <2>1, UpdateLevel DEF Total
  <2> QED
    BY <1>0, <2>2
<1>2. ASSUME NEW n \in 0 .. MaxNesting, n # MaxNesting, n \in S PROVE n + 1 \in S
  <2>1. Total(Updates[n]) /\ n + 1 \in 0 .. MaxNesting
    BY <1>0, <1>2
  <2>2. \A s \in Servers, mk \in BOOLEAN : Keeps(s, UpdateWith(Updates[n], s, mk))
    BY <2>1, UpdateWithKeeps
  <2>3. Total(Updates[n + 1])
    BY <1>2, <2>2, UpdateLevel DEF Total
  <2> QED
    BY <2>1, <2>3
<1> HIDE DEF S
<1>3. \A n \in 0 .. MaxNesting : n \in S
  BY <1>0, <1>1, <1>2, SetInduction
<1> QED
  BY <1>3 DEF S

-----------------------------------------------------------------------------
(* What updates do to the settings and the clients.                        *)

(* A watcher knows about its setting; or the setting is about to go back   *)
(* to its default, and was saved.                                          *)
Known(s, x) == s.nonDefault[x] = (s.value[x] # Default)
Held(s, x) == ~ s.nonDefault[x] /\ s.saved[x] = s.value[x]

(* The states updates begin in: nothing else than that is pending, and     *)
(* only settings that are supposed to revert have reverted.                *)
Steady(s) ==
  \A x \in Items : /\ BehaviorOf[x] # "revert" => ~ s.reverted[x]
                   /\ Known(s, x) \/ Held(s, x)

(* What a client knows of a setting when the messages q have arrived.      *)
Says(q, v, d) == IF q = <<>> THEN d = v ELSE q[Len(q)] = v

(* What happens to one setting.                                            *)
StepItem(s, t, x) ==
  /\ BehaviorOf[x] # "revert" =>
       /\ t.nonDefault[x] = s.nonDefault[x]
       /\ t.value[x] = s.value[x] /\ t.reverted[x] = s.reverted[x]
  /\ Known(s, x) => Known(t, x)
  /\ Held(s, x) => Held(t, x) /\ t.value[x] = s.value[x]
  /\ \A i \in Followed, d \in Values :
       Connected(t, i) /\ Says(s.settings[i][x], s.value[x], d) =>
         Says(t.settings[i][x], t.value[x], d)

(* What happens in an update, or in part of one.                           *)
Step(s, t) ==
  /\ t.minVersion = s.minVersion /\ t.maxVersion = s.maxVersion
  /\ \A i \in Slots : t.version[i] \in {s.version[i], Nobody}
  /\ s.kicked => t.kicked
  /\ \A x \in Items : StepItem(s, t, x)

(* A version that suits everybody, so that nobody has to be kicked.        *)
Suits(s, w) ==
  /\ Own(s).min <= w /\ w <= Own(s).max
  /\ \A i \in Slots : Connected(s, i) =>
       s.version[i].min <= w /\ w <= s.version[i].max

Fit(s) == \E w \in Nat : Suits(s, w)

(* Everybody stays.                                                        *)
Stay(s, mk) == ~ mk \/ Fit(s)

(* The range that is agreed on then.                                       *)
Plain(s) == Merged(<<>>, s, Own(s), FALSE)
Agreed(s) == Plain(s)[MaxClients].range

(* A reverting setting is as it should be under this version.              *)
Right(s, x, max) ==
  BehaviorOf[x] = "revert" =>
    IF Introduced[x] <= max THEN ~ s.reverted[x]
    ELSE s.reverted[x] \/ ~ s.nonDefault[x]

(* The value the administrator meant a setting to have.                    *)
Meant(s, x) == IF s.reverted[x] THEN s.saved[x] ELSE s.value[x]

Clean(s, x) == s.reverted[x] => s.value[x] = Default

(* What happens to a setting while everybody stays.                        *)
Kept(s, t, x, max) ==
  /\ Meant(t, x) = Meant(s, x)
  /\ Clean(s, x) => Clean(t, x)
  /\ Introduced[x] <= max /\ ~ s.reverted[x] => ~ t.reverted[x]
  /\ Introduced[x] > max /\ s.reverted[x] => t.reverted[x]
  /\ Right(s, x, max) => Right(t, x, max)

(* What happens in a part of an update; st says that everybody stays.      *)
Moves(s, t, st) ==
  /\ Step(s, t)
  /\ st => /\ t.version = s.version /\ t.kicked = s.kicked
           /\ \A x \in Items : Kept(s, t, x, Agreed(s).max)

(* What has happened when an update is over.                               *)
Updated(s, t, mk) ==
  /\ Moves(s, t, Stay(s, mk))
  /\ t.current.min <= t.current.max
  /\ mk => \A i \in Slots : Connected(t, i) => t.version[i].max >= Own(s).min
  /\ mk => t.kicked \/ Fit(s)
  /\ Fit(s) => \A i \in Slots : Connected(s, i) =>
       s.version[i].min <= t.current.min /\ t.current.max <= s.version[i].max
  /\ Stay(s, mk) => /\ t.current = Agreed(s)
                    /\ \A x \in Items : Right(t, x, Agreed(s).max)

Sound(u) ==
  \A s \in Servers, mk \in BOOLEAN :
    Steady(s) => u[<<s, mk>>].failed \/ Updated(s, u[<<s, mk>>], mk)

(* What a step means for the blocking settings and the server's own range. *)
LEMMA StepOwn ==
  ASSUME NEW s, NEW t, Step(s, t)
  PROVE  Blocking(t) = Blocking(s) /\ Own(t) = Own(s)
<1>1. Blocking(t) = Blocking(s)
  BY DEF Step, StepItem, Blocking
<1> QED
  BY <1>1, OwnSame DEF Step

(* After a step, too, nothing but that is pending.                         *)
LEMMA StepSteady ==
  ASSUME NEW s, NEW t, Step(s, t), Steady(s)
  PROVE  Steady(t)
BY DEF Step, StepItem, Steady

(* Nothing at all is a step.                                               *)
LEMMA StepItself ==
  ASSUME NEW s
  PROVE  Step(s, s)
BY DEF Step, StepItem

(* Two steps make one.                                                     *)
LEMMA StepTwice ==
  ASSUME NEW s, NEW t, NEW v, Step(s, t), Step(t, v)
  PROVE  Step(s, v)
<1>1. \A i \in Slots : Connected(v, i) => Connected(t, i)
  BY DEF Step, Connected
<1>2. \A i \in Followed : Connected(v, i) => Connected(t, i)
  BY <1>1, ConstantsTyped
<1>3. ASSUME NEW x \in Items PROVE StepItem(s, v, x)
  <2>1. StepItem(s, t, x) /\ StepItem(t, v, x)
    BY DEF Step
  <2> QED
    BY <1>2, <2>1 DEF StepItem
<1>4. \A i \in Slots : v.version[i] \in {s.version[i], Nobody}
  BY DEF Step
<1> QED
  BY <1>3, <1>4 DEF Step

(* The loop over the slots when everybody stays does nothing but compute a *)
(* range, and this depends on the versions only.                           *)
LEMMA PlainSame ==
  ASSUME NEW s, NEW t, s.version = t.version, Own(s) = Own(t)
  PROVE  Agreed(s) = Agreed(t)
<1> DEFINE n == MaxClients
           e == <<>>
           no == FALSE
           a == Plain(s)
           b == Plain(t)
           S == {k \in 0 .. n : a[k].server = s /\ b[k].server = t /\ a[k].range = b[k].range}
<1>0. n \in Nat
  BY ConstantsTyped
<1>a. a = Merged(e, s, Own(s), no) /\ b = Merged(e, t, Own(t), no)
  BY DEF Plain
<1>b. ~ no
  OBVIOUS
<1> HIDE DEF a, b, e, no
<1>1. /\ a[0] = [server |-> s, range |-> Own(s)]
      /\ \A k \in 1 .. n : a[k] = MergeClient(e, a[k - 1], Own(s), MaxClients + 1 - k, no)
  BY <1>a, MergedTurns
<1>2. /\ b[0] = [server |-> t, range |-> Own(t)]
      /\ \A k \in 1 .. n : b[k] = MergeClient(e, b[k - 1], Own(t), MaxClients + 1 - k, no)
  BY <1>a, MergedTurns
<1> HIDE DEF n
<1>3. 0 \in S
  BY <1>0, <1>1, <1>2
<1>4. ASSUME NEW k \in 0 .. n, k # n, k \in S PROVE k + 1 \in S
  <2> DEFINE i == MaxClients + 1 - (k + 1)
  <2>1. k + 1 \in 1 .. n /\ (k + 1) - 1 = k
    BY <1>0, <1>4
  <2>2. /\ a[k + 1] = MergeClient(e, a[k], Own(s), i, no)
        /\ b[k + 1] = MergeClient(e, b[k], Own(t), i, no)
    BY <1>1, <1>2, <2>1
  <2> HIDE DEF i
  <2>3. a[k].server = s /\ b[k].server = t /\ a[k].range = b[k].range
    BY <1>4
  <2>4. /\ a[k + 1].server = s /\ b[k + 1].server = t
        /\ a[k + 1].range = b[k + 1].range
    <3>1. Kick(e, s, i, no) = s /\ Kick(e, t, i, no) = t
      BY <1>b DEF Kick
    <3> DEFINE m == a[k]
               r == b[k]
    <3>2. m.server = s /\ r.server = t /\ m.range = r.range
      BY <2>3
    <3>3. s.version[i] = t.version[i]
      OBVIOUS
    <3>4. /\ Connected(s, i) <=> Connected(t, i)
          /\ Compatible(m.range, s.version[i]) <=> Compatible(r.range, t.version[i])
      BY <3>2, <3>3 DEF Connected
    <3>5. /\ a[k + 1] = MergeClient(e, m, Own(s), i, no)
          /\ b[k + 1] = MergeClient(e, r, Own(t), i, no)
      BY <2>2
    <3> HIDE DEF m, r
    <3>6. CASE ~ Connected(s, i)
      BY <3>2, <3>4, <3>5, <3>6 DEF MergeClient
    <3>7. CASE Connected(s, i) /\ Compatible(m.range, s.version[i])
      BY <3>2, <3>3, <3>4, <3>5, <3>7 DEF MergeClient
    <3>8. CASE Connected(s, i) /\ ~ Compatible(m.range, s.version[i])
      BY <3>1, <3>2, <3>4, <3>5, <3>8 DEF MergeClient
    <3> QED
      BY <3>6, <3>7, <3>8
  <2> QED
    BY <2>1, <2>4
<1> HIDE DEF S
<1>5. n \in S
  BY <1>0, <1>3, <1>4, SetInduction
<1> QED
  BY <1>5 DEF S, Agreed, a, b, n

(* While everybody stays, whether everybody can stay and on what range     *)
(* depends on nothing that changes.                                        *)
LEMMA StaySame ==
  ASSUME NEW s, NEW t, s.version = t.version, Own(s) = Own(t)
  PROVE  /\ Agreed(s) = Agreed(t) /\ Fit(s) = Fit(t)
         /\ \A mk : Stay(s, mk) = Stay(t, mk)
<1>1. Fit(s) = Fit(t)
  BY DEF Fit, Suits, Connected
<1> QED
  BY <1>1, PlainSame DEF Stay

(* The same for parts of an update: nothing at all is one.                 *)
LEMMA MovesItself ==
  ASSUME NEW s, NEW st
  PROVE  Moves(s, s, st)
BY StepItself DEF Moves, Kept

(* Two of them make one.                                                   *)
LEMMA MovesTwice ==
  ASSUME NEW s, NEW t, NEW v, NEW st, Moves(s, t, st), Moves(t, v, st)
  PROVE  Moves(s, v, st)
<1>1. Step(s, v)
  BY StepTwice DEF Moves
<1>2. ASSUME st
      PROVE  /\ v.version = s.version /\ v.kicked = s.kicked
             /\ \A x \in Items : Kept(s, v, x, Agreed(s).max)
  <2>1. /\ t.version = s.version /\ t.kicked = s.kicked
        /\ \A x \in Items : Kept(s, t, x, Agreed(s).max)
    BY <1>2 DEF Moves
  <2>2. Own(s) = Own(t)
    BY StepOwn DEF Moves
  <2>3. Agreed(s) = Agreed(t)
    BY <1>2, <2>1, <2>2, StaySame
  <2>4. /\ v.version = t.version /\ v.kicked = t.kicked
        /\ \A x \in Items : Kept(t, v, x, Agreed(s).max)
    BY <1>2, <2>3 DEF Moves
  <2> QED
    BY <2>1, <2>4 DEF Kept
<1> QED
  BY <1>1, <1>2 DEF Moves

-----------------------------------------------------------------------------
(* One turn of the loop over the settings.                                 *)

SameItem(s, t, x) ==
  /\ t.value[x] = s.value[x] /\ t.saved[x] = s.saved[x]
  /\ t.nonDefault[x] = s.nonDefault[x] /\ t.reverted[x] = s.reverted[x]
  /\ \A i \in Followed : t.settings[i][x] = s.settings[i][x]

(* Nothing but what belongs to one setting differs.                        *)
Around(s, t, x) ==
  /\ t.version = s.version /\ t.kicked = s.kicked
  /\ t.minVersion = s.minVersion /\ t.maxVersion = s.maxVersion
  /\ \A y \in Items : y # x => SameItem(s, t, y)

(* What else is the same then.                                             *)
LEMMA AroundSame ==
  ASSUME NEW s, NEW t, NEW x \in Items, BehaviorOf[x] = "revert", Around(s, t, x)
  PROVE  /\ Own(s) = Own(t) /\ Agreed(s) = Agreed(t) /\ Fit(s) = Fit(t)
         /\ \A mk : Stay(s, mk) = Stay(t, mk)
<1>1. Blocking(s) = Blocking(t)
  BY DEF Around, SameItem, Blocking
<1>2. Own(s) = Own(t)
  BY <1>1, OwnSame DEF Around
<1> QED
  BY <1>2, StaySame DEF Around

(* A setting that reverts is changed around a nested update.               *)
LEMMA OneItem ==
  ASSUME NEW s, NEW a, NEW b, NEW t, NEW x \in Items, NEW st,
         BehaviorOf[x] = "revert",
         Around(s, a, x), Moves(a, b, st), Around(b, t, x),
         StepItem(s, t, x),
         st => Kept(s, t, x, Agreed(s).max)
  PROVE  Moves(s, t, st)
<1>1. Agreed(s) = Agreed(a)
  BY AroundSame
<1>2. ASSUME NEW y \in Items PROVE StepItem(s, t, y)
  <2>1. CASE y = x
    BY <2>1
  <2>2. CASE y # x
    <3>1. SameItem(s, a, y) /\ SameItem(b, t, y) /\ StepItem(a, b, y)
      BY <2>2 DEF Around, Moves, Step
    <3>2. \A i : Connected(t, i) <=> Connected(b, i)
      BY DEF Around, Connected
    <3> QED
      BY <3>1, <3>2 DEF SameItem, StepItem, Known, Held
  <2> QED
    BY <2>1, <2>2
<1>3. Step(s, t)
  BY <1>2 DEF Step, Moves, Around
<1>4. ASSUME st
      PROVE  /\ t.version = s.version /\ t.kicked = s.kicked
             /\ \A y \in Items : Kept(s, t, y, Agreed(s).max)
  <2>1. /\ b.version = a.version /\ b.kicked = a.kicked
        /\ \A y \in Items : Kept(a, b, y, Agreed(s).max)
    BY <1>1, <1>4 DEF Moves
  <2>2. ASSUME NEW y \in Items PROVE Kept(s, t, y, Agreed(s).max)
    <3>1. CASE y = x
      BY <1>4, <3>1
    <3>2. CASE y # x
      <4>1. SameItem(s, a, y) /\ SameItem(b, t, y) /\ Kept(a, b, y, Agreed(s).max)
        BY <2>1, <3>2 DEF Around
      <4> QED
        BY <4>1 DEF SameItem, Kept, Meant, Clean, Right
    <3> QED
      BY <3>1, <3>2
  <2> QED
    BY <2>1, <2>2 DEF Around
<1> QED
  BY <1>3, <1>4 DEF Moves

(* Only settings that are supposed to revert do, for blocking ones never   *)
(* lie beyond the version that is agreed on.                               *)
LEMMA OnlyReverting ==
  ASSUME NEW s \in Servers, Steady(s), NEW x \in Items, NEW max \in Nat,
         \A y \in Blocking(s) : Introduced[y] <= max,
         ToRevert(s, x, max) \/ ToRestore(s, x, max)
  PROVE  BehaviorOf[x] = "revert"
<1>1. BehaviorOf[x] \in {"nothing", "revert", "block"} /\ Introduced[x] \in Nat
  BY VersionAssumption, ConstantsTyped
<1>2. s.reverted[x] \in BOOLEAN /\ s.nonDefault[x] \in BOOLEAN
  BY DEF Servers
<1> QED
  BY <1>1, <1>2 DEF Steady, ToRevert, ToRestore, Blocking

(* What comes of a change of a watcher.                                    *)
LEMMA WatcherMoves ==
  ASSUME NEW u, Total(u), Sound(u), NEW s \in Servers, NEW x \in Items,
         NEW b \in BOOLEAN, NEW mk \in BOOLEAN, NEW st,
         Steady([s EXCEPT !.nonDefault[x] = b]),
         st => Stay([s EXCEPT !.nonDefault[x] = b], mk)
  PROVE  LET w == WatcherChange(u, s, x, b, mk) IN
         w \in Servers /\ (w.failed \/ Moves([s EXCEPT !.nonDefault[x] = b], w, st))
<1> DEFINE e == [s EXCEPT !.nonDefault[x] = b]
           w == WatcherChange(u, s, x, b, mk)
<1>1. e \in Servers
  BY DEF Servers
<1>2. w \in Servers
  BY WatcherChangeKeeps DEF Keeps
<1>3. CASE b = s.nonDefault[x]
  <2>1. w = s
    BY <1>3 DEF WatcherChange
  <2>2. e = s
    BY <1>3 DEF Servers
  <2>3. Moves(e, w, st)
    BY <2>1, <2>2, MovesItself
  <2> QED
    BY <1>2, <2>3
<1>4. CASE b # s.nonDefault[x]
  <2>1. w = u[<<e, mk>>]
    BY <1>4 DEF WatcherChange
  <2> HIDE DEF e, w
  <2>2. Steady(e)
    BY DEF e
  <2>3. w.failed \/ Moves(e, w, Stay(e, mk))
    BY <1>1, <2>1, <2>2 DEF Sound, Updated
  <2>4. st => Stay(e, mk)
    BY DEF e
  <2>5. w.failed \/ Moves(e, w, st)
    BY <2>3, <2>4 DEF Moves
  <2> QED
    BY <1>2, <2>5 DEF e, w
<1> QED
  BY <1>3, <1>4

(* A value that is posted last is what a client gets to know.              *)
LEMMA SaysPosted ==
  ASSUME NEW q \in Seq(Values), NEW v \in Values, NEW d
  PROVE  Says(Append(q, v), v, d)
<1>1. /\ Len(Append(q, v)) = Len(q) + 1 /\ Append(q, v)[Len(q) + 1] = v
      /\ Append(q, v) # <<>>
  OBVIOUS
<1> QED
  BY <1>1 DEF Says

(* A setting reverts.                                                      *)
LEMMA RevertMoves ==
  ASSUME NEW u, Total(u), Sound(u), NEW s \in Servers, Steady(s), NEW x \in Items,
         NEW max \in Nat, NEW mk \in BOOLEAN, NEW st,
         BehaviorOf[x] = "revert", ToRevert(s, x, max),
         st => Stay(s, mk) /\ max = Agreed(s).max
  PROVE  LET t == RevertItem(u, s, x, mk) IN
         t.failed \/ (Moves(s, t, st) /\ Right(t, x, max))
<1> DEFINE p == [s EXCEPT !.reverted[x] = TRUE, !.saved[x] = s.value[x]]
           a == [p EXCEPT !.nonDefault[x] = FALSE]
           b == WatcherChange(u, p, x, FALSE, mk)
           c == [b EXCEPT !.value[x] = Default]
           t == RevertItem(u, s, x, mk)
<1>0. /\ Default \in Values /\ Followed \subseteq Slots
      /\ Introduced[x] \in Nat /\ Introduced[x] > max
      /\ ~ s.reverted[x] /\ s.nonDefault[x] = TRUE
  BY ConstantsTyped DEF ToRevert, Servers
<1>1. /\ p \in Servers /\ p.nonDefault[x] = TRUE
      /\ p.failed = s.failed
      /\ a \in Servers /\ Around(s, a, x)
      /\ a.reverted[x] = TRUE /\ a.nonDefault[x] = FALSE
      /\ a.value[x] = s.value[x] /\ a.saved[x] = s.value[x]
      /\ a.settings = s.settings
  <2>1. /\ p \in Servers /\ p.nonDefault = s.nonDefault /\ p.failed = s.failed
        /\ p.version = s.version /\ p.kicked = s.kicked
        /\ p.minVersion = s.minVersion /\ p.maxVersion = s.maxVersion
        /\ p.value = s.value /\ p.settings = s.settings
        /\ \A y \in Items : /\ p.reverted[y] = IF y = x THEN TRUE ELSE s.reverted[y]
                            /\ p.saved[y] = IF y = x THEN s.value[x] ELSE s.saved[y]
    BY DEF Servers
  <2> HIDE DEF p
  <2>2. /\ a \in Servers
        /\ a.version = p.version /\ a.kicked = p.kicked
        /\ a.minVersion = p.minVersion /\ a.maxVersion = p.maxVersion
        /\ a.value = p.value /\ a.settings = p.settings
        /\ a.reverted = p.reverted /\ a.saved = p.saved
        /\ \A y \in Items : a.nonDefault[y] = IF y = x THEN FALSE ELSE p.nonDefault[y]
    BY <2>1 DEF Servers
  <2> HIDE DEF a
  <2> QED
    BY <1>0, <2>1, <2>2 DEF Around, SameItem
<1> HIDE DEF p
<1>2. Steady(a)
  <2> HIDE DEF a
  <2> QED
    BY <1>1 DEF Steady, Known, Held, Around, SameItem
<1>S. st => Stay(a, mk)
  <2> HIDE DEF a
  <2> QED
    BY <1>1, AroundSame
<1>3. b \in Servers /\ (b.failed \/ Moves(a, b, st))
  BY <1>1, <1>2, <1>S, WatcherMoves
<1>4. t = SetValue(u, b, x, Default, mk)
  BY DEF RevertItem, p
<1> SUFFICES t.failed \/ (Moves(s, t, st) /\ Right(t, x, max))
  OBVIOUS
<1> HIDE DEF t, a, b
<1>5. t \in Servers /\ (b.failed => t.failed)
  BY <1>0, <1>3, <1>4, SetValueKeeps DEF Keeps
<1>6. CASE b.failed
  BY <1>5, <1>6
<1>7. CASE ~ b.failed
  <2>1. Moves(a, b, st)
    BY <1>3, <1>7
  <2>2. Held(a, x)
    BY <1>1 DEF Held
  <2>3. ~ b.nonDefault[x] /\ b.saved[x] = b.value[x] /\ b.value[x] = s.value[x]
    BY <1>1, <2>1, <2>2 DEF Moves, Step, StepItem, Held
  <2>4. Known(s, x)
    BY <1>0 DEF Steady, Held
  <2>5. s.value[x] # Default
    BY <1>0, <2>4 DEF Known
  <2>6. /\ c \in Servers /\ Around(b, c, x) /\ c.value[x] = Default
        /\ c.version = b.version
        /\ c.nonDefault = b.nonDefault /\ c.reverted = b.reverted /\ c.saved = b.saved
    BY <1>0, <1>3 DEF Servers, Around, SameItem
  <2>7. t = CheckChange(u, c, x, mk)
    BY <1>4, <2>3, <2>5 DEF SetValue
  <2> HIDE DEF c
  <2>8. b.nonDefault[x] = FALSE
    BY <1>3, <2>3 DEF Servers
  <2>9. WatcherChange(u, c, x, c.value[x] # Default, mk) = c
    BY <2>6, <2>8 DEF WatcherChange
  <2>10. t = PostSettings(c, Slots, {x})
    BY <2>7, <2>9 DEF CheckChange
  <2>11. /\ t.version = c.version /\ t.kicked = c.kicked
         /\ t.minVersion = c.minVersion /\ t.maxVersion = c.maxVersion
         /\ t.value = c.value /\ t.saved = c.saved
         /\ t.nonDefault = c.nonDefault /\ t.reverted = c.reverted
         /\ \A i \in Followed, y \in Items :
              t.settings[i][y] =
                IF i \in Slots /\ Connected(c, i) /\ y \in {x}
                THEN Append(c.settings[i][y], c.value[y]) ELSE c.settings[i][y]
    BY <2>6, <2>10, PostSettingsEffect
  <2>12. Around(b, t, x)
    BY <2>6, <2>11 DEF Around, SameItem
  <2>13. ASSUME NEW i \in Followed, NEW d, Connected(t, i)
         PROVE  Says(t.settings[i][x], t.value[x], d)
    <3>1. Connected(c, i)
      BY <2>11, <2>13 DEF Connected
    <3>2. t.settings[i][x] = Append(c.settings[i][x], c.value[x]) /\ t.value[x] = c.value[x]
      BY <1>0, <2>11, <3>1
    <3>3. c.settings[i][x] \in Seq(Values) /\ c.value[x] \in Values
      BY <2>6 DEF Servers
    <3> QED
      BY <3>2, <3>3, SaysPosted
  <2>14. StepItem(s, t, x)
    BY <1>0, <2>6, <2>8, <2>11, <2>13 DEF StepItem, Known, Held
  <2>15. ASSUME st PROVE Kept(s, t, x, Agreed(s).max)
    <3>1. Stay(a, mk) /\ Agreed(a).max = max
      BY <1>1, <2>15, AroundSame
    <3>2. Kept(a, b, x, max)
      BY <2>1, <2>15, <3>1 DEF Moves
    <3>3. b.reverted[x] /\ Meant(b, x) = s.value[x]
      BY <1>0, <1>1, <3>2 DEF Kept, Meant
    <3>4. b.saved[x] = s.value[x]
      BY <3>3 DEF Meant
    <3>5. t.reverted[x] /\ t.saved[x] = s.value[x] /\ t.value[x] = Default
      BY <2>6, <2>11, <3>3, <3>4
    <3>6. Meant(t, x) = Meant(s, x)
      BY <1>0, <3>5 DEF Meant
    <3> QED
      BY <1>0, <2>15, <3>5, <3>6 DEF Kept, Clean, Right
  <2>16. Moves(s, t, st)
    BY <1>1, <2>1, <2>12, <2>14, <2>15, OneItem
  <2>17. Right(t, x, max)
    BY <1>0, <2>6, <2>8, <2>11 DEF Right
  <2> QED
    BY <2>16, <2>17
<1> QED
  BY <1>6, <1>7

(* A setting gets its saved value back.                                    *)
LEMMA RestoreMoves ==
  ASSUME NEW u, Total(u), Sound(u), NEW s \in Servers, Steady(s), NEW x \in Items,
         NEW max \in Nat, NEW mk \in BOOLEAN, NEW st,
         BehaviorOf[x] = "revert", ToRestore(s, x, max),
         st => Stay(s, mk) /\ max = Agreed(s).max
  PROVE  LET t == RestoreItem(u, s, x, mk) IN
         t.failed \/ (Moves(s, t, st) /\ (st => Right(t, x, max)))
<1> DEFINE a == [s EXCEPT !.reverted[x] = FALSE]
           v == s.saved[x]
           nd == v # Default
           c == [a EXCEPT !.value[x] = v]
           e == [c EXCEPT !.nonDefault[x] = nd]
           w == WatcherChange(u, c, x, nd, mk)
           t == RestoreItem(u, s, x, mk)
<1>0. /\ Followed \subseteq Slots
      /\ Introduced[x] \in Nat /\ ~ Introduced[x] > max /\ Introduced[x] <= max
      /\ s.reverted[x] /\ v \in Values
  BY ConstantsTyped DEF ToRestore, Servers
<1> SUFFICES t.failed \/ (Moves(s, t, st) /\ (st => Right(t, x, max)))
  OBVIOUS
<1>1. /\ a \in Servers /\ Around(s, a, x) /\ a.reverted[x] = FALSE
      /\ a.version = s.version /\ a.kicked = s.kicked
      /\ a.minVersion = s.minVersion /\ a.maxVersion = s.maxVersion
      /\ a.value = s.value /\ a.saved = s.saved /\ a.nonDefault = s.nonDefault
      /\ a.settings = s.settings
      /\ \A y \in Items : a.reverted[y] = IF y = x THEN FALSE ELSE s.reverted[y]
  BY DEF Servers, Around, SameItem
<1>2. t = SetValue(u, a, x, v, mk)
  BY DEF RestoreItem
<1> HIDE DEF a, t
<1>3. CASE v = s.value[x]
  <2>1. t = a
    BY <1>1, <1>2, <1>3 DEF SetValue
  <2>2. StepItem(s, a, x)
    BY <1>1 DEF StepItem, Known, Held, Connected
  <2>3. Kept(s, a, x, max)
    BY <1>0, <1>1, <1>3 DEF Kept, Meant, Clean, Right
  <2>4. Around(a, a, x)
    BY DEF Around, SameItem
  <2>5. Moves(s, a, st)
    <3>1. st => Kept(s, a, x, Agreed(s).max)
      BY <2>3
    <3> QED
      BY <1>1, <2>2, <2>4, <3>1, MovesItself, OneItem
  <2>6. Right(a, x, max)
    BY <1>0, <1>1 DEF Right
  <2> QED
    BY <2>1, <2>5, <2>6
<1>4. CASE v # s.value[x]
  <2>1. /\ c \in Servers /\ c.value[x] = v
        /\ c.version = a.version /\ c.kicked = a.kicked
        /\ c.minVersion = a.minVersion /\ c.maxVersion = a.maxVersion
        /\ c.saved = a.saved /\ c.nonDefault = a.nonDefault
        /\ c.reverted = a.reverted /\ c.settings = a.settings
        /\ \A y \in Items : c.value[y] = IF y = x THEN v ELSE a.value[y]
    BY <1>0, <1>1 DEF Servers
  <2>2. t = CheckChange(u, c, x, mk)
    BY <1>1, <1>2, <1>4 DEF SetValue
  <2> HIDE DEF c, v
  <2>3. /\ e \in Servers /\ e.nonDefault[x] = nd
        /\ e.version = c.version /\ e.kicked = c.kicked
        /\ e.minVersion = c.minVersion /\ e.maxVersion = c.maxVersion
        /\ e.saved = c.saved /\ e.value = c.value
        /\ e.reverted = c.reverted /\ e.settings = c.settings
        /\ \A y \in Items : e.nonDefault[y] = IF y = x THEN nd ELSE c.nonDefault[y]
    BY <2>1 DEF Servers
  <2>4. nd \in BOOLEAN
    OBVIOUS
  <2>5. t = PostSettings(w, Slots, {x})
    BY <2>1, <2>2 DEF CheckChange
  <2> DEFINE f == [c EXCEPT !.nonDefault[x] = nd]
  <2>6. f = e
    OBVIOUS
  <2> HIDE DEF e
  <2>7. Around(s, e, x)
    BY <1>1, <2>1, <2>3 DEF Around, SameItem
  <2>8. Known(e, x) /\ e.value[x] = v
    BY <2>1, <2>3 DEF Known
  <2>9. Steady(e)
    <3>1. ASSUME NEW y \in Items, y # x
          PROVE  /\ BehaviorOf[y] # "revert" => ~ e.reverted[y]
                 /\ Known(e, y) \/ Held(e, y)
      BY <2>7, <3>1 DEF Steady, Around, SameItem, Known, Held
    <3> QED
      BY <2>8, <3>1 DEF Steady
  <2>10. w \in Servers /\ (w.failed \/ Moves(e, w, st))
    <3>1. Steady(f) /\ (st => Stay(f, mk))
      BY <2>6, <2>7, <2>9, AroundSame
    <3> HIDE DEF w, nd
    <3>2. WatcherChange(u, c, x, nd, mk) \in Servers /\
            (\/ WatcherChange(u, c, x, nd, mk).failed
             \/ Moves(f, WatcherChange(u, c, x, nd, mk), st))
      BY <2>1, <2>4, <3>1, WatcherMoves
    <3> QED
      BY <2>6, <3>2 DEF w
  <2> HIDE DEF w, f
  <2>11. /\ t \in Servers /\ t.failed = w.failed
         /\ t.version = w.version /\ t.kicked = w.kicked
         /\ t.minVersion = w.minVersion /\ t.maxVersion = w.maxVersion
         /\ t.value = w.value /\ t.saved = w.saved
         /\ t.nonDefault = w.nonDefault /\ t.reverted = w.reverted
         /\ \A i \in Followed, y \in Items :
              t.settings[i][y] =
                IF i \in Slots /\ Connected(w, i) /\ y \in {x}
                THEN Append(w.settings[i][y], w.value[y]) ELSE w.settings[i][y]
    BY <2>5, <2>10, PostSettingsEffect
  <2>12. CASE w.failed
    BY <2>11, <2>12
  <2>13. CASE ~ w.failed
    <3>1. Moves(e, w, st)
      BY <2>10, <2>13
    <3>2. Around(w, t, x)
      BY <2>11 DEF Around, SameItem
    <3>3. ASSUME NEW i \in Followed, NEW d, Connected(t, i)
          PROVE  Says(t.settings[i][x], t.value[x], d)
      <4>1. Connected(w, i)
        BY <2>11, <3>3 DEF Connected
      <4>2. t.settings[i][x] = Append(w.settings[i][x], w.value[x]) /\ t.value[x] = w.value[x]
        BY <1>0, <2>11, <4>1
      <4>3. w.settings[i][x] \in Seq(Values) /\ w.value[x] \in Values
        BY <2>10 DEF Servers
      <4> QED
        BY <4>2, <4>3, SaysPosted
    <3>4. Known(t, x)
      BY <2>8, <2>11, <3>1 DEF Known, Moves, Step, StepItem
    <3>5. ~ Held(s, x)
      BY <1>4 DEF Held, v
    <3>6. StepItem(s, t, x)
      BY <3>3, <3>4, <3>5 DEF StepItem
    <3>7. ASSUME st PROVE Kept(s, t, x, Agreed(s).max) /\ ~ t.reverted[x]
      <4>1. Stay(e, mk) /\ Agreed(e).max = max
        BY <2>7, <3>7, AroundSame
      <4>2. Kept(e, w, x, max)
        BY <3>1, <3>7, <4>1 DEF Moves
      <4>3. ~ e.reverted[x] /\ Meant(e, x) = v
        BY <1>1, <2>1, <2>3, <2>8 DEF Meant
      <4>4. ~ w.reverted[x] /\ Meant(w, x) = v
        BY <1>0, <4>2, <4>3 DEF Kept
      <4>5. ~ t.reverted[x] /\ Meant(t, x) = v
        BY <2>11, <4>4 DEF Meant
      <4>6. Meant(s, x) = v
        BY <1>0 DEF Meant, v
      <4> QED
        BY <1>0, <3>7, <4>5, <4>6 DEF Kept, Clean, Right
    <3>8. Moves(s, t, st)
      <4>1. st => Kept(s, t, x, Agreed(s).max)
        BY <3>7
      <4> QED
        BY <2>7, <3>1, <3>2, <3>6, <4>1, OneItem
    <3>9. st => Right(t, x, max)
      BY <1>0, <3>7 DEF Right
    <3> QED
      BY <3>8, <3>9
  <2> QED
    BY <2>12, <2>13
<1> QED
  BY <1>3, <1>4

(* One turn of the loop, whatever it does.                                 *)
LEMMA AdaptItemMoves ==
  ASSUME NEW u, Total(u), Sound(u), NEW s \in Servers, Steady(s), NEW x \in Items,
         NEW max \in Nat, NEW mk \in BOOLEAN, NEW st,
         \A y \in Blocking(s) : Introduced[y] <= max,
         st => Stay(s, mk) /\ max = Agreed(s).max
  PROVE  LET t == AdaptItem(u, s, x, max, mk) IN
         t.failed \/ (Moves(s, t, st) /\ (st => Right(t, x, max)))
<1>1. CASE ToRevert(s, x, max)
  <2>1. AdaptItem(u, s, x, max, mk) = RevertItem(u, s, x, mk)
    BY <1>1 DEF AdaptItem
  <2>2. BehaviorOf[x] = "revert"
    BY <1>1, OnlyReverting
  <2> QED
    BY <1>1, <2>1, <2>2, RevertMoves
<1>2. CASE ~ ToRevert(s, x, max) /\ ToRestore(s, x, max)
  <2>1. AdaptItem(u, s, x, max, mk) = RestoreItem(u, s, x, mk)
    BY <1>2 DEF AdaptItem
  <2>2. BehaviorOf[x] = "revert"
    BY <1>2, OnlyReverting
  <2> QED
    BY <1>2, <2>1, <2>2, RestoreMoves
<1>3. CASE ~ ToRevert(s, x, max) /\ ~ ToRestore(s, x, max)
  <2>1. AdaptItem(u, s, x, max, mk) = s
    BY <1>3 DEF AdaptItem
  <2>2. Right(s, x, max)
    <3>1. Introduced[x] \in Nat
      BY ConstantsTyped
    <3> QED
      BY <1>3, <3>1 DEF ToRevert, ToRestore, Right
  <2> QED
    BY <2>1, <2>2, MovesItself
<1> QED
  BY <1>1, <1>2, <1>3

(* The loop over the settings, OnVersionChange.                            *)
LEMMA AdaptedMoves ==
  ASSUME NEW u, Total(u), Sound(u), NEW s \in Servers, Steady(s),
         NEW max \in Nat, NEW mk \in BOOLEAN, NEW st,
         \A y \in Blocking(s) : Introduced[y] <= max,
         st => Stay(s, mk) /\ max = Agreed(s).max
  PROVE  LET t == Adapted(u, s, max, mk)[Len(ItemList)] IN
         t.failed \/ (Moves(s, t, st) /\ (st => \A x \in Items : Right(t, x, max)))
<1> DEFINE n == Len(ItemList)
           a == Adapted(u, s, max, mk)
           Good(k, t) == t.failed \/ (Moves(s, t, st) /\
             (st => \A j \in 1 .. k : Right(t, ItemList[j], max)))
           S == {k \in 0 .. n : Good(k, a[k])}
<1>0. /\ n \in Nat /\ \A k \in 1 .. n : ItemList[k] \in Items
      /\ \A x \in Items : \E k \in 1 .. n : x = ItemList[k]
  BY ConstantsTyped
<1>1. a[0] = s /\ \A k \in 1 .. n : a[k] = AdaptItem(u, a[k - 1], ItemList[k], max, mk)
  BY AdaptedTurns
<1>2. \A k \in 0 .. n : Keeps(s, a[k])
  BY AdaptedKeeps
<1> HIDE DEF a, n
<1>3. 0 \in S
  <2>1. Good(0, s)
    BY MovesItself
  <2> QED
    BY <1>0, <1>1, <2>1
<1>4. ASSUME NEW k \in 0 .. n, k # n, k \in S PROVE k + 1 \in S
  <2> DEFINE w == a[k]
             t == a[k + 1]
             x == ItemList[k + 1]
  <2>1. k + 1 \in 1 .. n /\ (k + 1) - 1 = k
    BY <1>0, <1>4
  <2>2. t = AdaptItem(u, w, x, max, mk) /\ x \in Items
    BY <1>0, <1>1, <2>1
  <2>3. Good(k, w) /\ w \in Servers /\ t \in Servers
    BY <1>2, <1>4, <2>1 DEF Keeps
  <2> SUFFICES Good(k + 1, t)
    BY <2>1
  <2> HIDE DEF w, t, x
  <2>4. CASE w.failed
    BY <2>2, <2>3, <2>4, AdaptItemKeeps DEF Keeps
  <2>5. CASE ~ w.failed
    <3>1. Moves(s, w, st)
      BY <2>3, <2>5
    <3>2. Steady(w) /\ Blocking(w) = Blocking(s) /\ Own(w) = Own(s)
      BY <3>1, StepSteady, StepOwn DEF Moves
    <3>3. st => Stay(w, mk) /\ Agreed(w) = Agreed(s) /\ max = Agreed(w).max
      <4>1. st => w.version = s.version
        BY <3>1 DEF Moves
      <4> QED
        BY <3>2, <4>1, StaySame
    <3>4. t.failed \/ (Moves(w, t, st) /\ (st => Right(t, x, max)))
      BY <2>2, <2>3, <3>2, <3>3, AdaptItemMoves
    <3>5. CASE t.failed
      BY <3>5
    <3>6. CASE ~ t.failed
      <4>1. Moves(w, t, st) /\ (st => Right(t, x, max))
        BY <3>4, <3>6
      <4>2. Moves(s, t, st)
        BY <3>1, <4>1, MovesTwice
      <4>3. ASSUME st, NEW j \in 1 .. k + 1 PROVE Right(t, ItemList[j], max)
        <5>1. CASE j = k + 1
          BY <4>1, <4>3, <5>1 DEF x
        <5>2. CASE j # k + 1
          <6>1. j \in 1 .. k /\ j \in 1 .. n
            BY <1>0, <5>2
          <6>2. Right(w, ItemList[j], max)
            BY <2>3, <2>5, <4>3, <6>1
          <6>3. Kept(w, t, ItemList[j], max)
            BY <1>0, <3>3, <4>1, <4>3, <6>1 DEF Moves
          <6> QED
            BY <6>2, <6>3 DEF Kept
        <5> QED
          BY <5>1, <5>2
      <4> QED
        BY <4>2, <4>3
    <3> QED
      BY <3>5, <3>6
  <2> QED
    BY <2>4, <2>5
<1> HIDE DEF S
<1>5. n \in S
  <2>1. \A k \in 0 .. n : k # n /\ k \in S => k + 1 \in S
    BY <1>4
  <2>2. \A k \in 0 .. n : k \in S
    BY <1>0, <1>3, <2>1, SetInduction
  <2> QED
    BY <1>0, <2>2
<1> QED
  BY <1>0, <1>5 DEF S, a, n

-----------------------------------------------------------------------------
(* The loop over the slots.                                                *)

(* What it takes to be compatible.                                         *)
LEMMA CompatibleMeans ==
  ASSUME NEW a \in Ranges, NEW b \in Ranges
  PROVE  /\ Compatible(a, b) => b.max >= a.min
         /\ \A w \in Nat : /\ a.min <= w /\ w <= a.max /\ b.min <= w /\ w <= b.max
                           => Compatible(a, b)
BY ConstantsTyped DEF Compatible, Merge, Ranges, Larger, Smaller

(* The range lies within those of the clients in the last k slots.         *)
Within(s, range, k) ==
  \A i \in Slots : i > MaxClients - k /\ Connected(s, i) =>
    s.version[i].min <= range.min /\ range.max <= s.version[i].max

(* The slots visited by then.                                              *)
LEMMA NextSlot ==
  ASSUME NEW k \in 0 .. MaxClients, k # MaxClients
  PROVE  LET j == MaxClients + 1 - (k + 1) IN
         /\ j \in Slots /\ k + 1 \in 1 .. MaxClients /\ (k + 1) - 1 = k
         /\ \A i \in Slots : i > MaxClients - (k + 1) <=> i = j \/ i > MaxClients - k
BY ConstantsTyped

(* The range after one more slot.                                          *)
LEMMA WithinNext ==
  ASSUME NEW s, NEW r \in Ranges, NEW t \in Ranges,
         NEW k \in 0 .. MaxClients, k # MaxClients,
         Within(s, r, k), r.min <= t.min, t.max <= r.max,
         \A i \in Slots : Connected(s, i) => s.version[i] \in Ranges,
         LET j == MaxClients + 1 - (k + 1) IN
         Connected(s, j) => s.version[j].min <= t.min /\ t.max <= s.version[j].max
  PROVE  Within(s, t, k + 1)
<1> SUFFICES ASSUME NEW i \in Slots, i > MaxClients - (k + 1), Connected(s, i)
             PROVE  s.version[i].min <= t.min /\ t.max <= s.version[i].max
  BY DEF Within
<1> DEFINE j == MaxClients + 1 - (k + 1)
<1>1. i = j \/ i > MaxClients - k
  BY NextSlot
<1>2. CASE i = j
  BY <1>2
<1>3. CASE i > MaxClients - k
  <2>1. s.version[i].min <= r.min /\ r.max <= s.version[i].max
    BY <1>3 DEF Within
  <2> QED
    BY <2>1, ConstantsTyped DEF Ranges
<1> QED
  BY <1>1, <1>2, <1>3

(* While everybody stays, the server stays as it is, and the range is what *)
(* it always is.                                                           *)
LEMMA MergedStays ==
  ASSUME NEW u, NEW s \in Servers, CanAdaptVersion(s, Native(s)), NEW mk \in BOOLEAN,
         Stay(s, mk)
  PROVE  LET m == Merged(u, s, Own(s), mk)[MaxClients] IN
         /\ m.server = s /\ m.range = Agreed(s)
         /\ Fit(s) => Within(s, m.range, MaxClients)
<1> DEFINE n == MaxClients
           o == Own(s)
           e == <<>>
           no == FALSE
           a == Merged(u, s, o, mk)
           b == Plain(s)
           Fine(w, k, r) == Suits(s, w) => r.min <= w /\ w <= r.max /\ Within(s, r, k)
           Good(k, p, q) == /\ p.server = s /\ q.server = s /\ p.range = q.range
                            /\ p.range \in Ranges
                            /\ \A w \in Nat : Fine(w, k, p.range)
           S == {k \in 0 .. n : Good(k, a[k], b[k])}
<1>0. n \in Nat
  BY ConstantsTyped
<1>a. b = Merged(e, s, o, no) /\ ~ no
  BY DEF Plain
<1>b. o \in Ranges
  BY OwnTyped
<1>c. \A i \in Slots : Connected(s, i) => s.version[i] \in Ranges
  BY ConnectedTyped
<1>d. \A w : Suits(s, w) => o.min <= w /\ w <= o.max
  BY DEF Suits
<1> HIDE DEF a, b, o, e, no
<1>1. /\ a[0] = [server |-> s, range |-> o]
      /\ \A k \in 1 .. n : a[k] = MergeClient(u, a[k - 1], o, MaxClients + 1 - k, mk)
  BY MergedTurns DEF a
<1>2. /\ b[0] = [server |-> s, range |-> o]
      /\ \A k \in 1 .. n : b[k] = MergeClient(e, b[k - 1], o, MaxClients + 1 - k, no)
  BY <1>a, MergedTurns
<1>3. 0 \in S
  <2>1. Within(s, o, 0)
    BY ConstantsTyped DEF Within
  <2>2. Good(0, a[0], b[0])
    BY <1>1, <1>2, <1>b, <1>d, <2>1
  <2> QED
    BY <1>0, <2>2
<1>4. ASSUME NEW k \in 0 .. n, k # n, k \in S PROVE k + 1 \in S
  <2> DEFINE i == MaxClients + 1 - (k + 1)
             p == a[k]
             q == b[k]
             x == a[k + 1]
             y == b[k + 1]
             r == p.range
             v == s.version[i]
  <2>1. /\ i \in Slots /\ k + 1 \in 1 .. n /\ (k + 1) - 1 = k
    BY <1>4, NextSlot
  <2>2. x = MergeClient(u, p, o, i, mk) /\ y = MergeClient(e, q, o, i, no)
    BY <1>1, <1>2, <2>1
  <2>3. Good(k, p, q)
    BY <1>4
  <2> SUFFICES Good(k + 1, x, y)
    BY <1>0, <2>1
  <2>4. ASSUME NEW t \in Ranges, NEW w \in Nat, Suits(s, w),
               r.min <= t.min, t.max <= r.max, t.min <= w, w <= t.max,
               Connected(s, i) => v.min <= t.min /\ t.max <= v.max
        PROVE  Fine(w, k + 1, t)
    <3>1. Within(s, r, k) /\ r \in Ranges
      BY <2>3, <2>4
    <3> HIDE DEF r
    <3>2. Within(s, t, k + 1)
      BY <1>4, <1>c, <2>4, <3>1, WithinNext DEF n
    <3> QED
      BY <2>4, <3>2
  <2> HIDE DEF x, y
  <2>5. p.server = s /\ q.server = s /\ q.range = r /\ r \in Ranges
        /\ \A w \in Nat : Fine(w, k, r)
    BY <2>3
  <2> HIDE DEF p, q, r, i
  <2>6. CASE ~ Connected(s, i)
    <3>1. x = p /\ y = q
      BY <2>2, <2>5, <2>6 DEF MergeClient
    <3>2. ASSUME NEW w \in Nat, Suits(s, w) PROVE Fine(w, k + 1, r)
      <4>1. r.min <= w /\ w <= r.max
        BY <2>5, <3>2
      <4>2. r.min <= r.min /\ r.max <= r.max
        BY <2>5, ConstantsTyped DEF Ranges
      <4> QED
        BY <2>4, <2>5, <2>6, <3>2, <4>1, <4>2
    <3>3. \A w \in Nat : Fine(w, k + 1, r)
      BY <3>2
    <3> HIDE DEF Fine
    <3> QED
      BY <2>5, <3>1, <3>3 DEF r
  <2>7. CASE Connected(s, i) /\ Compatible(r, v)
    <3> DEFINE t == Merge(r, v)
    <3>1. v \in Ranges
      BY <1>c, <2>1, <2>7
    <3>2. /\ x.server = s /\ y.server = s /\ x.range = t /\ y.range = t
      BY <2>2, <2>5, <2>7 DEF MergeClient, r
    <3> HIDE DEF v, t
    <3>3. /\ t \in Ranges /\ r.min <= t.min /\ t.max <= r.max
          /\ v.min <= t.min /\ t.max <= v.max
          /\ \A w \in Nat : /\ r.min <= w /\ w <= r.max /\ v.min <= w /\ w <= v.max
                            => t.min <= w /\ w <= t.max
      BY <2>5, <3>1, MergeTyped, ConstantsTyped DEF t, Ranges
    <3>4. ASSUME NEW w \in Nat, Suits(s, w) PROVE Fine(w, k + 1, t)
      <4>1. r.min <= w /\ w <= r.max
        BY <2>5, <3>4
      <4>2. v.min <= w /\ w <= v.max
        BY <2>1, <2>7, <3>4 DEF Suits, v
      <4>3. t.min <= w /\ w <= t.max
        BY <3>3, <4>1, <4>2
      <4> QED
        BY <2>4, <3>3, <3>4, <4>3
    <3>5. \A w \in Nat : Fine(w, k + 1, t)
      BY <3>4
    <3> HIDE DEF Fine
    <3> QED
      BY <3>2, <3>3, <3>5
  <2>8. CASE Connected(s, i) /\ ~ Compatible(r, v)
    <3>1. v \in Ranges
      BY <1>c, <2>1, <2>8
    <3>2. \A w \in Nat : ~ Suits(s, w)
      <4> SUFFICES ASSUME NEW w \in Nat, Suits(s, w) PROVE FALSE
        OBVIOUS
      <4>1. r.min <= w /\ w <= r.max
        BY <2>5
      <4>2. v.min <= w /\ w <= v.max
        BY <2>1, <2>8 DEF Suits
      <4> QED
        BY <2>5, <2>8, <3>1, <4>1, <4>2, CompatibleMeans
    <3>3. ~ mk
      BY <3>2 DEF Stay, Fit
    <3>4. Kick(u, s, i, mk) = s /\ Kick(e, s, i, no) = s
      BY <1>a, <3>3 DEF Kick
    <3>5. /\ x.server = s /\ y.server = s /\ x.range = o /\ y.range = o
      BY <2>2, <2>5, <2>8, <3>4 DEF MergeClient, r
    <3>6. \A w \in Nat : Fine(w, k + 1, o)
      BY <3>2
    <3> HIDE DEF Fine
    <3> QED
      BY <1>b, <3>5, <3>6
  <2> QED
    BY <2>6, <2>7, <2>8
<1>5. n \in S
  <2> HIDE DEF S
  <2>1. \A k \in 0 .. n : k # n /\ k \in S => k + 1 \in S
    BY <1>4
  <2>2. \A k \in 0 .. n : k \in S
    BY <1>0, <1>3, <2>1, SetInduction
  <2> QED
    BY <1>0, <2>2
<1>6. Good(n, a[n], b[n])
  BY <1>5
<1>7. Fit(s) => Within(s, a[n].range, n)
  BY <1>6 DEF Fit
<1> HIDE DEF Fine
<1> QED
  BY <1>6, <1>7 DEF a, b, o, n, Agreed

(* Those of the clients in the last k slots who are still there reach what *)
(* the server itself requires.                                             *)
Reach(s, t, k) ==
  \A i \in Slots : i > MaxClients - k /\ Connected(t, i) =>
    t.version[i].max >= Own(s).min

(* A client is gone.                                                       *)
Fewer(s, t) == \E i \in Slots : Connected(s, i) /\ ~ Connected(t, i)

(* What is left after a kick.                                              *)
LEMMA KickMoves ==
  ASSUME NEW u, Total(u), Sound(u), NEW s \in Servers, Steady(s), NEW i \in Slots
  PROVE  LET t == Kick(u, s, i, TRUE) IN
         t.failed \/ (Step(s, t) /\ t.kicked /\ ~ Connected(t, i))
<1> DEFINE t == Kick(u, s, i, TRUE)
<1>1. PICK a \in Servers : Kicked(s, i, a) /\ t = u[<<a, FALSE>>]
  BY KickEffect
<1> HIDE DEF t
<1>2. Steady(a)
  BY <1>1 DEF Kicked, Steady, Known, Held
<1>3. Step(s, a)
  <2>1. ASSUME NEW x \in Items PROVE StepItem(s, a, x)
    <3>1. \A j \in Followed : Connected(a, j) => j # i
      BY <1>1, ConstantsTyped DEF Kicked, Connected
    <3> QED
      BY <1>1, <3>1 DEF Kicked, StepItem, Known, Held
  <2> QED
    BY <1>1, <2>1 DEF Step, Kicked
<1>4. t.failed \/ Step(a, t)
  BY <1>1, <1>2 DEF Sound, Updated, Moves
<1>5. CASE Step(a, t)
  <2>1. Step(s, t)
    BY <1>3, <1>5, StepTwice
  <2>2. t.kicked /\ t.version[i] = Nobody
    BY <1>1, <1>5 DEF Step, Kicked
  <2> QED
    BY <2>1, <2>2 DEF Connected, t
<1> QED
  BY <1>4, <1>5 DEF t

(* What the loop over the slots does: it kicks somebody, or ends with a    *)
(* range that everybody shares.                                            *)
LEMMA MergedMoves ==
  ASSUME NEW u, Total(u), Sound(u), NEW s \in Servers, Steady(s),
         CanAdaptVersion(s, Native(s)), NEW mk \in BOOLEAN
  PROVE  LET m == Merged(u, s, Own(s), mk)[MaxClients] IN
         \/ m.server.failed
         \/ /\ Step(s, m.server)
            /\ mk => Reach(s, m.server, MaxClients)
            /\ mk => \/ m.server.kicked /\ Fewer(s, m.server)
                     \/ m.server = s /\ Within(s, m.range, MaxClients)
<1> DEFINE n == MaxClients
           o == Own(s)
           a == Merged(u, s, o, mk)
           Good(k, m) ==
             m.server.failed \/
               (/\ Step(s, m.server)
                /\ mk => Reach(s, m.server, k)
                /\ mk => \/ m.server.kicked /\ Fewer(s, m.server)
                         \/ m.server = s /\ Within(s, m.range, k))
           S == {k \in 0 .. n : Good(k, a[k])}
<1>0. n \in Nat
  BY ConstantsTyped
<1>1. /\ a[0] = [server |-> s, range |-> o]
      /\ \A k \in 1 .. n : a[k] = MergeClient(u, a[k - 1], o, MaxClients + 1 - k, mk)
  <2> HIDE DEF o
  <2>1. /\ Merged(u, s, o, mk)[0] = [server |-> s, range |-> o]
        /\ \A k \in 1 .. MaxClients :
             Merged(u, s, o, mk)[k] =
               MergeClient(u, Merged(u, s, o, mk)[k - 1], o, MaxClients + 1 - k, mk)
    BY MergedTurns
  <2> QED
    BY <2>1
<1>2. \A k \in 0 .. n : Partial(s, a[k])
  BY MergedKeeps
<1>3. o \in Ranges
  BY OwnTyped
<1> HIDE DEF a
<1>4. 0 \in S
  <2>1. Good(0, a[0])
    <3>1. \A i \in Slots : ~ i > MaxClients - 0
      BY ConstantsTyped
    <3> QED
      BY <1>1, <3>1, StepItself DEF Reach, Within
  <2> QED
    BY <1>0, <2>1
<1>5. ASSUME NEW k \in 0 .. n, k # n, k \in S PROVE k + 1 \in S
  <2> DEFINE i == MaxClients + 1 - (k + 1)
             m == a[k]
             t == a[k + 1]
             v == m.server.version[i]
             r == m.range
  <2>1. /\ i \in Slots /\ k + 1 \in 1 .. n /\ (k + 1) - 1 = k
        /\ \A j \in Slots : j > MaxClients - (k + 1) <=> j = i \/ j > MaxClients - k
    BY <1>5, NextSlot
  <2>2. t = MergeClient(u, m, o, i, mk)
    BY <1>1, <2>1
  <2>3. Good(k, m) /\ Partial(s, m) /\ Partial(s, t)
    BY <1>0, <1>2, <1>5, <2>1
  <2> SUFFICES Good(k + 1, t)
    BY <1>0, <2>1
  <2>W. ASSUME NEW p \in Ranges, Within(s, r, k), r.min <= p.min, p.max <= r.max, m.server = s,
               Connected(s, i) => s.version[i].min <= p.min /\ p.max <= s.version[i].max
        PROVE  Within(s, p, k + 1)
    <3>1. \A j \in Slots : Connected(s, j) => s.version[j] \in Ranges
      BY ConnectedTyped
    <3>2. r \in Ranges
      BY <2>3 DEF Partial
    <3> HIDE DEF r
    <3> QED
      BY <1>5, <2>W, <3>1, <3>2, WithinNext DEF n
  <2>4. /\ m.server \in Servers /\ r \in Ranges /\ r.min >= o.min /\ r.min <= r.max
        /\ Keeps(s, m.server)
    BY <2>3 DEF Partial, Keeps
  <2> HIDE DEF m, t, i
  <2>5. CASE m.server.failed
    <3>1. Keeps(m.server, t.server)
      <4>1. Keeps(m.server, Kick(u, m.server, i, mk))
        BY <2>1, <2>4, KickKeeps
      <4>2. Keeps(m.server, m.server)
        BY <2>4 DEF Keeps
      <4> QED
        BY <2>2, <4>1, <4>2, MergeClientCases
    <3> QED
      BY <2>5, <3>1 DEF Keeps
  <2>6. CASE ~ m.server.failed
    <3>1. /\ Step(s, m.server)
          /\ mk => Reach(s, m.server, k)
          /\ mk => \/ m.server.kicked /\ Fewer(s, m.server)
                   \/ m.server = s /\ Within(s, r, k)
      BY <2>3, <2>6
    <3>2. Steady(m.server)
      BY <3>1, StepSteady
    <3>3. CASE ~ Connected(m.server, i) /\ t = m
      <4>1. Reach(s, m.server, k) => Reach(s, m.server, k + 1)
        BY <2>1, <3>3 DEF Reach
      <4>2. m.server = s /\ Within(s, r, k) => Within(s, r, k + 1)
        <5>1. r.min <= r.min /\ r.max <= r.max
          BY <2>4, ConstantsTyped DEF Ranges
        <5> QED
          BY <2>4, <2>W, <3>3, <5>1
      <4> QED
        BY <3>1, <3>3, <4>1, <4>2
    <3>4. CASE /\ Connected(m.server, i) /\ Compatible(r, v)
               /\ t.server = m.server /\ t.range = Merge(r, v)
      <4>1. v \in Ranges
        BY <2>1, <2>4, <3>4, ConnectedTyped
      <4> DEFINE p == Merge(r, v)
      <4>2. /\ p \in Ranges /\ r.min <= p.min /\ p.max <= r.max
            /\ v.min <= p.min /\ p.max <= v.max
        BY <2>4, <4>1, MergeTyped, ConstantsTyped DEF Ranges
      <4>3. v.max >= o.min
        BY <1>3, <2>4, <3>4, <4>1, CompatibleMeans, ConstantsTyped DEF Ranges
      <4> HIDE DEF p
      <4>4. Reach(s, m.server, k) => Reach(s, m.server, k + 1)
        BY <2>1, <4>3 DEF Reach
      <4>5. m.server = s /\ Within(s, r, k) => Within(s, p, k + 1)
        BY <2>W, <4>2
      <4>6. t.range = p
        BY <3>4 DEF p
      <4> QED
        BY <3>1, <3>4, <4>4, <4>5, <4>6
    <3>5. CASE /\ Connected(m.server, i) /\ ~ Compatible(r, v)
               /\ t.server = Kick(u, m.server, i, mk) /\ t.range = o
      <4>1. CASE ~ mk
        <5>1. t.server = m.server
          BY <3>5, <4>1 DEF Kick
        <5> QED
          BY <3>1, <4>1, <5>1
      <4>2. CASE mk
        <5>1. t.server = Kick(u, m.server, i, TRUE)
          BY <3>5, <4>2
        <5> DEFINE x == t.server
        <5>2. x.failed \/ (Step(m.server, x) /\ x.kicked /\ ~ Connected(x, i))
          BY <2>1, <2>4, <3>2, <5>1, KickMoves
        <5> HIDE DEF x
        <5>3. CASE x.failed
          BY <5>3 DEF x
        <5>4. CASE ~ x.failed
          <6>1. Step(s, x)
            BY <3>1, <5>2, <5>4, StepTwice
          <6>2. Reach(s, x, k + 1)
            <7> SUFFICES ASSUME NEW j \in Slots, j > MaxClients - (k + 1), Connected(x, j)
                         PROVE  x.version[j].max >= Own(s).min
              BY DEF Reach
            <7>1. j # i /\ j > MaxClients - k
              BY <2>1, <5>2, <5>4
            <7>2. x.version[j] = m.server.version[j] /\ Connected(m.server, j)
              BY <5>2, <5>4 DEF Step, Connected
            <7> QED
              BY <3>1, <4>2, <7>1, <7>2 DEF Reach
          <6>3. Fewer(s, x)
            <7>1. Connected(s, i)
              BY <2>1, <3>1, <3>5 DEF Step, Connected
            <7> QED
              BY <2>1, <5>2, <5>4, <7>1 DEF Fewer
          <6> QED
            BY <5>2, <5>4, <6>1, <6>2, <6>3 DEF x
        <5> QED
          BY <5>3, <5>4
      <4> QED
        BY <4>1, <4>2
    <3> QED
      BY <2>2, <3>3, <3>4, <3>5, MergeClientCases
  <2> QED
    BY <2>5, <2>6
<1>6. n \in S
  <2> HIDE DEF S
  <2>1. \A k \in 0 .. n : k # n /\ k \in S => k + 1 \in S
    BY <1>5
  <2>2. \A k \in 0 .. n : k \in S
    BY <1>0, <1>4, <2>1, SetInduction
  <2> QED
    BY <1>0, <2>2
<1> QED
  BY <1>6 DEF a

-----------------------------------------------------------------------------
(* Updates.                                                                *)

(* An update does what it should if the updates nested in it do.           *)
LEMMA UpdateWithSound ==
  ASSUME NEW u, Total(u), Sound(u), NEW s \in Servers, Steady(s), NEW mk \in BOOLEAN
  PROVE  UpdateWith(u, s, mk).failed \/ Updated(s, UpdateWith(u, s, mk), mk)
<1>1. CASE ~ CanAdaptVersion(s, Native(s))
  BY <1>1 DEF UpdateWith, Servers
<1>2. CASE CanAdaptVersion(s, Native(s))
  <2> DEFINE m == Merged(u, s, Own(s), mk)[MaxClients]
             p == m.server
             r == m.range
             w == Adapted(u, p, r.max, mk)[Len(ItemList)]
             t == Announce(w, r)
             st == Stay(s, mk)
  <2>0. MaxClients \in Nat
    BY ConstantsTyped
  <2>1. UpdateWith(u, s, mk) = t
    BY <1>2, UpdateParts
  <2>2. Partial(s, m)
    BY <1>2, <2>0, MergedKeeps
  <2>3. p.failed \/ (/\ Step(s, p)
                     /\ mk => Reach(s, p, MaxClients)
                     /\ mk => p.kicked \/ (p = s /\ Within(s, r, MaxClients)))
    BY <1>2, MergedMoves
  <2>4. st => p = s /\ r = Agreed(s) /\ (Fit(s) => Within(s, r, MaxClients))
    BY <1>2, MergedStays
  <2>5. /\ p \in Servers /\ (s.failed => p.failed)
        /\ r \in Ranges /\ r.min <= r.max /\ r.min >= Own(s).min /\ r.max <= Own(s).max
    BY <2>2 DEF Partial, Keeps
  <2> HIDE DEF m, p, r
  <2>6. w \in Servers /\ (p.failed => w.failed)
    BY <2>5, AdaptedKeeps, ConstantsTyped DEF Keeps
  <2> SUFFICES t.failed \/ Updated(s, t, mk)
    BY <2>1
  <2>7. /\ t \in Servers /\ t.current = r
        /\ t.version = w.version
        /\ t.minVersion = w.minVersion /\ t.maxVersion = w.maxVersion
        /\ t.value = w.value /\ t.saved = w.saved
        /\ t.nonDefault = w.nonDefault /\ t.reverted = w.reverted
        /\ t.settings = w.settings
        /\ t.kicked = w.kicked /\ t.failed = w.failed
    <3> HIDE DEF w
    <3> QED
      BY <2>5, <2>6, AnnounceEffect
  <2>8. CASE p.failed
    BY <2>6, <2>7, <2>8
  <2>9. CASE ~ p.failed
    <3>1. /\ Step(s, p)
          /\ mk => Reach(s, p, MaxClients)
          /\ mk => p.kicked \/ (p = s /\ Within(s, r, MaxClients))
      BY <2>3, <2>9
    <3>2. Steady(p) /\ Blocking(p) = Blocking(s) /\ Own(p) = Own(s)
      BY <3>1, StepSteady, StepOwn
    <3>3. r.max \in Nat /\ \A y \in Blocking(p) : Introduced[y] <= r.max
      <4>1. \A y \in Blocking(s) : Introduced[y] <= Own(s).min /\ Introduced[y] \in Nat
        BY OwnTyped, ConstantsTyped DEF Blocking
      <4>2. Own(s) \in Ranges
        BY OwnTyped
      <4> QED
        BY <2>5, <3>2, <4>1, <4>2, ConstantsTyped DEF Ranges
    <3>4. st => Stay(p, mk) /\ r.max = Agreed(p).max
      BY <2>4
    <3>5. w.failed \/ (Moves(p, w, st) /\ (st => \A x \in Items : Right(w, x, r.max)))
      <4> HIDE DEF st
      <4> QED
        BY <2>5, <3>2, <3>3, <3>4, AdaptedMoves
    <3> HIDE DEF w, t
    <3>6. CASE w.failed
      BY <2>7, <3>6
    <3>7. CASE ~ w.failed
      <4>1. Moves(p, w, st) /\ (st => \A x \in Items : Right(w, x, r.max))
        BY <3>5, <3>7
      <4>2. Step(s, w)
        BY <3>1, <4>1, StepTwice DEF Moves
      <4>3. \A i : Connected(t, i) <=> Connected(w, i)
        BY <2>7 DEF Connected
      <4>4. Step(s, t)
        BY <2>7, <4>2, <4>3 DEF Step, StepItem, Known, Held
      <4>5. st => /\ t.version = s.version /\ t.kicked = s.kicked
                  /\ \A x \in Items : Kept(s, t, x, Agreed(s).max)
        BY <2>4, <2>7, <4>1 DEF Moves, Kept, Meant, Clean, Right
      <4>6. mk => \A i \in Slots : Connected(t, i) => t.version[i].max >= Own(s).min
        <5> SUFFICES ASSUME mk, NEW i \in Slots, Connected(t, i)
                     PROVE  t.version[i].max >= Own(s).min
          OBVIOUS
        <5>1. Step(p, w) /\ Connected(w, i) /\ t.version[i] = w.version[i]
          BY <2>7, <4>1, <4>3 DEF Moves
        <5>2. w.version[i] = p.version[i] /\ Connected(p, i)
          BY <5>1 DEF Step, Connected
        <5>3. i > MaxClients - MaxClients
          BY ConstantsTyped
        <5> QED
          BY <3>1, <5>1, <5>2, <5>3 DEF Reach
      <4>7. \A i \in Slots : i > MaxClients - MaxClients
        BY ConstantsTyped
      <4>8. mk => t.kicked \/ Fit(s)
        <5> SUFFICES ASSUME mk, ~ p.kicked PROVE Fit(s)
          BY <2>7, <4>1 DEF Moves, Step
        <5>1. Within(s, r, MaxClients)
          BY <3>1
        <5>2. r.min \in Nat
          BY <2>5, ConstantsTyped DEF Ranges
        <5>3. Suits(s, r.min)
          <6>1. ASSUME NEW i \in Slots, Connected(s, i)
                PROVE  s.version[i].min <= r.min /\ r.min <= s.version[i].max
            <7>1. s.version[i].min <= r.min /\ r.max <= s.version[i].max
              BY <4>7, <5>1, <6>1 DEF Within
            <7>2. s.version[i].max \in Nat
              BY <6>1, ConnectedTyped DEF Ranges
            <7> QED
              BY <2>5, <7>1, <7>2, ConstantsTyped DEF Ranges
          <6>2. Own(s) \in Ranges
            BY OwnTyped
          <6>3. Own(s).min <= r.min /\ r.min <= Own(s).max
            BY <2>5, <6>2, ConstantsTyped DEF Ranges
          <6> QED
            BY <6>1, <6>3 DEF Suits
        <5> QED
          BY <5>2, <5>3 DEF Fit
      <4>9. Fit(s) => \A i \in Slots : Connected(s, i) =>
              s.version[i].min <= t.current.min /\ t.current.max <= s.version[i].max
        BY <2>4, <2>7, <4>7 DEF Within, Stay
      <4>10. st => /\ t.current = Agreed(s)
                   /\ \A x \in Items : Right(t, x, Agreed(s).max)
        BY <2>4, <2>7, <4>1 DEF Right
      <4>11. Moves(s, t, Stay(s, mk))
        BY <4>4, <4>5 DEF Moves
      <4> QED
        BY <2>5, <2>7, <4>6, <4>8, <4>9, <4>10, <4>11 DEF Updated
    <3> QED
      BY <3>6, <3>7
  <2> QED
    BY <2>8, <2>9
<1> QED
  BY <1>1, <1>2

(* All updates do what they should, however deep they may nest.            *)
LEMMA UpdatesSound == \A n \in 0 .. MaxNesting : Sound(Updates[n])
<1> DEFINE S == {n \in 0 .. MaxNesting : Sound(Updates[n])}
<1>0. MaxNesting \in Nat
  BY ConstantsTyped
<1>1. 0 \in S
  <2>1. ASSUME NEW s \in Servers PROVE [s EXCEPT !.failed = TRUE].failed
    BY DEF Servers
  <2>2. Sound(Updates[0])
    BY <2>1, UpdateLevel DEF Sound
  <2> QED
    BY <1>0, <2>2
<1>2. ASSUME NEW n \in 0 .. MaxNesting, n # MaxNesting, n \in S PROVE n + 1 \in S
  <2>1. Sound(Updates[n]) /\ Total(Updates[n]) /\ n + 1 \in 0 .. MaxNesting
    BY <1>0, <1>2, UpdatesTotal
  <2>2. \A s \in Servers, mk \in BOOLEAN :
          Steady(s) => \/ UpdateWith(Updates[n], s, mk).failed
                       \/ Updated(s, UpdateWith(Updates[n], s, mk), mk)
    BY <2>1, UpdateWithSound
  <2>3. Sound(Updates[n + 1])
    BY <1>2, <2>2, UpdateLevel DEF Sound
  <2> QED
    BY <2>1, <2>3
<1> HIDE DEF S
<1>3. \A n \in 0 .. MaxNesting : n \in S
  BY <1>0, <1>1, <1>2, SetInduction
<1> QED
  BY <1>3 DEF S


-----------------------------------------------------------------------------
(* Updates do not run out of levels, and their assertion is all that fails.*)

Adaptable(s) == CanAdaptVersion(s, Native(s))
Fine(s) == s \in Servers /\ Steady(s) /\ Adaptable(s) /\ ~ s.failed

Present(s) == {i \in Slots : Connected(s, i)}

(* The settings that an update reverts or restores.                        *)
Wrong(s) == {x \in Items : ~ Right(s, x, Agreed(s).max)}

(* The levels an update needs below it: while everybody stays, each level  *)
(* has one setting less to adapt; otherwise somebody is kicked before the  *)
(* next one.                                                               *)
Enough(s, mk, n) ==
  IF Stay(s, mk) THEN n > Cardinality(Wrong(s))
  ELSE n > Cardinality(Present(s)) + Cardinality(Items)

Ample(u, n) ==
  \A s \in Servers, mk \in BOOLEAN :
    Fine(s) /\ Enough(s, mk, n) => ~ u[<<s, mk>>].failed

(* The assertion holds or fails by the limits and the blocking settings.   *)
LEMMA AdaptableSame ==
  ASSUME NEW s, NEW t,
         s.minVersion = t.minVersion, s.maxVersion = t.maxVersion,
         Blocking(s) = Blocking(t), Adaptable(s)
  PROVE  Adaptable(t)
<1>1. Native(s) = Native(t)
  BY DEF Native
<1> QED
  BY <1>1 DEF Adaptable, CanAdaptVersion

(* What a step leaves of this.                                             *)
LEMMA StepFine ==
  ASSUME NEW s, NEW t \in Servers, Fine(s), Step(s, t), ~ t.failed
  PROVE  Fine(t)
<1>1. Steady(t) /\ Blocking(t) = Blocking(s)
  BY StepSteady, StepOwn DEF Fine
<1> QED
  BY <1>1, AdaptableSame DEF Fine, Step

(* There are finitely many of all these.                                   *)
LEMMA Finite ==
  /\ IsFiniteSet(Items) /\ Cardinality(Items) \in Nat
  /\ Cardinality(Items) <= Len(ItemList)
  /\ \A T \in SUBSET Items : IsFiniteSet(T) /\ Cardinality(T) \in Nat
                             /\ Cardinality(T) <= Cardinality(Items)
  /\ \A T \in SUBSET Slots : IsFiniteSet(T) /\ Cardinality(T) \in Nat
                             /\ Cardinality(T) <= MaxClients
<1> DEFINE n == Len(ItemList)
           D == 1 .. n
<1>1. n \in Nat /\ MaxClients \in Nat /\ Slots = 1 .. MaxClients
  BY ConstantsTyped
<1>2. IsFiniteSet(D) /\ Cardinality(D) = n
  <2> HIDE DEF n
  <2> QED
    BY <1>1, FS_Interval
<1>3. IsFiniteSet(Slots) /\ Cardinality(Slots) = MaxClients
  BY <1>1, FS_Interval
<1>4. ItemList \in [D -> Items] /\ \A x \in Items : \E k \in D : ItemList[k] = x
  BY VersionAssumption DEF Items
<1>5. ItemList \in Surjection(D, Items)
  BY <1>4 DEF Surjection
<1>6. IsFiniteSet(Items) /\ Cardinality(Items) <= n
  BY <1>2, <1>5, FS_Surjection
<1> QED
  BY <1>3, <1>6, FS_Subset, FS_CardinalityType

(* A set that lacks one of the members of another and has no others.       *)
LEMMA OneLess ==
  ASSUME NEW T, IsFiniteSet(T), NEW R \in SUBSET T, NEW x \in T, x \notin R
  PROVE  Cardinality(R) < Cardinality(T)
<1>1. /\ Cardinality(T) \in Nat /\ IsFiniteSet(T \ {x})
      /\ Cardinality(T \ {x}) = Cardinality(T) - 1
  BY FS_RemoveElement, FS_CardinalityType
<1>2. R \in SUBSET (T \ {x})
  OBVIOUS
<1>3. Cardinality(R) <= Cardinality(T \ {x}) /\ Cardinality(R) \in Nat
  BY <1>1, <1>2, FS_Subset, FS_CardinalityType
<1> QED
  BY <1>1, <1>3

(* The largest need there is.                                              *)
LEMMA AlwaysEnough ==
  ASSUME NEW s, NEW n \in Int, NEW mk \in BOOLEAN
  PROVE  /\ ~ mk /\ n > Cardinality(Items) => Enough(s, mk, n)
         /\ n > Cardinality(Present(s)) + Cardinality(Items) => Enough(s, mk, n)
         /\ ~ Enough(s, mk, 0)
<1>1. Wrong(s) \in SUBSET Items /\ Present(s) \in SUBSET Slots
  BY DEF Wrong, Present
<1>2. /\ Cardinality(Wrong(s)) \in Nat /\ Cardinality(Wrong(s)) <= Cardinality(Items)
      /\ Cardinality(Present(s)) \in Nat /\ Cardinality(Items) \in Nat
  BY <1>1, Finite
<1>3. ~ mk => Stay(s, mk)
  BY DEF Stay
<1> QED
  BY <1>2, <1>3 DEF Enough

(* The updates nested in one turn of the loop over the settings succeed.   *)
Bears(u, s, x, max, mk) ==
  BehaviorOf[x] = "revert" /\ ~ Right(s, x, max) =>
    \A c \in Servers :
      Around(s, c, x) /\ Steady(c) /\ ~ c.failed /\ Right(c, x, max) =>
        ~ u[<<c, mk>>].failed

(* Then so does the turn.                                                  *)
LEMMA AdaptItemSucceeds ==
  ASSUME NEW u, Total(u), NEW s \in Servers, Steady(s), ~ s.failed, NEW x \in Items,
         NEW max \in Nat, NEW mk \in BOOLEAN, Sound(u),
         \A y \in Blocking(s) : Introduced[y] <= max,
         Bears(u, s, x, max, mk)
  PROVE  ~ AdaptItem(u, s, x, max, mk).failed
<1>0. Introduced[x] \in Nat /\ Default \in Values
  BY ConstantsTyped
<1>1. CASE ToRevert(s, x, max)
  <2> DEFINE p == [s EXCEPT !.reverted[x] = TRUE, !.saved[x] = s.value[x]]
             c == [p EXCEPT !.nonDefault[x] = FALSE]
             w == WatcherChange(u, p, x, FALSE, mk)
             t == SetValue(u, w, x, Default, mk)
  <2>1. AdaptItem(u, s, x, max, mk) = t
    BY <1>1 DEF AdaptItem, RevertItem
  <2>2. BehaviorOf[x] = "revert"
    BY <1>1, OnlyReverting
  <2>3. Introduced[x] > max /\ ~ s.reverted[x] /\ s.nonDefault[x] = TRUE /\ ~ Right(s, x, max)
    BY <1>0, <1>1, <2>2 DEF ToRevert, Servers, Right
  <2>4. /\ p \in Servers /\ p.nonDefault = s.nonDefault /\ p.failed = s.failed
        /\ p.version = s.version /\ p.kicked = s.kicked
        /\ p.minVersion = s.minVersion /\ p.maxVersion = s.maxVersion
        /\ p.value = s.value /\ p.settings = s.settings
        /\ \A y \in Items : /\ p.reverted[y] = IF y = x THEN TRUE ELSE s.reverted[y]
                            /\ p.saved[y] = IF y = x THEN s.value[x] ELSE s.saved[y]
    BY DEF Servers
  <2> HIDE DEF p
  <2>5. /\ c \in Servers /\ c.failed = p.failed
        /\ c.version = p.version /\ c.kicked = p.kicked
        /\ c.minVersion = p.minVersion /\ c.maxVersion = p.maxVersion
        /\ c.value = p.value /\ c.settings = p.settings
        /\ c.reverted = p.reverted /\ c.saved = p.saved
        /\ \A y \in Items : c.nonDefault[y] = IF y = x THEN FALSE ELSE p.nonDefault[y]
    BY <2>4 DEF Servers
  <2>6. w = u[<<c, mk>>]
    BY <2>3, <2>4 DEF WatcherChange
  <2> HIDE DEF c, w
  <2>7. Around(s, c, x) /\ Right(c, x, max) /\ Held(c, x) /\ ~ c.failed
    BY <1>0, <2>3, <2>4, <2>5 DEF Around, SameItem, Right, Held
  <2>8. Steady(c)
    <3>1. ASSUME NEW y \in Items, y # x
          PROVE  /\ BehaviorOf[y] # "revert" => ~ c.reverted[y]
                 /\ Known(c, y) \/ Held(c, y)
      BY <2>7, <3>1 DEF Steady, Around, SameItem, Known, Held
    <3> QED
      BY <2>2, <2>7, <3>1 DEF Steady
  <2>9. ~ w.failed /\ w \in Servers
    BY <2>2, <2>3, <2>5, <2>6, <2>7, <2>8 DEF Bears, Total, Keeps
  <2>10. Held(w, x)
    BY <2>5, <2>6, <2>7, <2>8, <2>9 DEF Sound, Updated, Moves, Step, StepItem
  <2>11. CASE Default = w.value[x]
    BY <2>1, <2>9, <2>11 DEF SetValue
  <2>12. CASE Default # w.value[x]
    <3> DEFINE e == [w EXCEPT !.value[x] = Default]
    <3>1. /\ e \in Servers /\ e.failed = w.failed
          /\ e.value[x] = Default /\ e.nonDefault[x] = FALSE
      BY <1>0, <2>9, <2>10 DEF Servers, Held
    <3>2. t = CheckChange(u, e, x, mk)
      BY <2>12 DEF SetValue
    <3> HIDE DEF e, t
    <3>3. WatcherChange(u, e, x, e.value[x] # Default, mk) = e
      BY <3>1 DEF WatcherChange
    <3>4. t = PostSettings(e, Slots, {x})
      BY <3>2, <3>3 DEF CheckChange
    <3>5. t.failed = e.failed
      BY <3>1, <3>4, PostSettingsEffect
    <3> QED
      BY <2>1, <2>9, <3>1, <3>5
  <2> QED
    BY <2>11, <2>12
<1>2. CASE ~ ToRevert(s, x, max) /\ ToRestore(s, x, max)
  <2> DEFINE v == s.saved[x]
             b == v # Default
             a == [s EXCEPT !.reverted[x] = FALSE]
             e == [a EXCEPT !.value[x] = v]
             c == [e EXCEPT !.nonDefault[x] = b]
             w == WatcherChange(u, e, x, b, mk)
             t == SetValue(u, a, x, v, mk)
  <2>1. AdaptItem(u, s, x, max, mk) = t
    BY <1>2 DEF AdaptItem, RestoreItem
  <2>2. BehaviorOf[x] = "revert"
    BY <1>2, OnlyReverting
  <2>3. /\ Introduced[x] <= max /\ s.reverted[x] /\ ~ Right(s, x, max)
        /\ v \in Values /\ b \in BOOLEAN
    BY <1>2, <2>2 DEF ToRestore, Right, Servers
  <2>4. /\ a \in Servers /\ a.nonDefault = s.nonDefault /\ a.failed = s.failed
        /\ a.version = s.version /\ a.kicked = s.kicked
        /\ a.minVersion = s.minVersion /\ a.maxVersion = s.maxVersion
        /\ a.value = s.value /\ a.settings = s.settings /\ a.saved = s.saved
        /\ a.reverted[x] = FALSE
        /\ \A y \in Items : y # x => a.reverted[y] = s.reverted[y]
    BY DEF Servers
  <2> HIDE DEF a, v
  <2>5. /\ e \in Servers /\ e.nonDefault = a.nonDefault /\ e.failed = a.failed
        /\ e.version = a.version /\ e.kicked = a.kicked
        /\ e.minVersion = a.minVersion /\ e.maxVersion = a.maxVersion
        /\ e.reverted = a.reverted /\ e.settings = a.settings /\ e.saved = a.saved
        /\ e.value[x] = v /\ \A y \in Items : y # x => e.value[y] = a.value[y]
    BY <2>3, <2>4 DEF Servers
  <2> HIDE DEF e
  <2>6. /\ c \in Servers /\ c.failed = e.failed
        /\ c.version = e.version /\ c.kicked = e.kicked
        /\ c.minVersion = e.minVersion /\ c.maxVersion = e.maxVersion
        /\ c.value = e.value /\ c.settings = e.settings
        /\ c.reverted = e.reverted /\ c.saved = e.saved
        /\ c.nonDefault[x] = b
        /\ \A y \in Items : y # x => c.nonDefault[y] = e.nonDefault[y]
    BY <2>3, <2>5 DEF Servers
  <2>7. w = e \/ w = u[<<c, mk>>]
    BY DEF WatcherChange
  <2>8. t = a \/ t = PostSettings(w, Slots, {x})
    <3>1. e = [a EXCEPT !.value[x] = v]
      BY DEF e
    <3>2. (e.value[x] # Default) = b
      BY <2>5
    <3>3. CheckChange(u, e, x, mk) = PostSettings(w, Slots, {x})
      BY <3>2 DEF CheckChange
    <3> QED
      BY <3>1, <3>3 DEF SetValue
  <2> HIDE DEF c, w, t
  <2>9. Around(s, c, x) /\ Right(c, x, max) /\ Known(c, x) /\ ~ c.failed
    <3>1. Around(s, c, x)
      <4>1. ASSUME NEW y \in Items, y # x PROVE SameItem(s, c, y)
        BY <2>4, <2>5, <2>6, <4>1 DEF SameItem
      <4> QED
        BY <2>4, <2>5, <2>6, <4>1 DEF Around
    <3>2. c.value[x] = v /\ c.nonDefault[x] = b /\ c.reverted[x] = FALSE
      BY <2>4, <2>5, <2>6
    <3>3. Known(c, x)
      BY <3>2 DEF Known
    <3> QED
      BY <2>3, <2>4, <2>5, <2>6, <3>1, <3>2, <3>3 DEF Right
  <2>10. Steady(c)
    <3>1. ASSUME NEW y \in Items, y # x
          PROVE  /\ BehaviorOf[y] # "revert" => ~ c.reverted[y]
                 /\ Known(c, y) \/ Held(c, y)
      BY <2>9, <3>1 DEF Steady, Around, SameItem, Known, Held
    <3> QED
      BY <2>2, <2>9, <3>1 DEF Steady
  <2>11. ~ u[<<c, mk>>].failed /\ u[<<c, mk>>] \in Servers
    BY <2>2, <2>3, <2>6, <2>9, <2>10 DEF Bears, Total, Keeps
  <2>12. w \in Servers /\ ~ w.failed
    BY <2>4, <2>5, <2>7, <2>11
  <2>13. ~ PostSettings(w, Slots, {x}).failed
    BY <2>12, PostSettingsEffect
  <2> QED
    BY <2>1, <2>4, <2>8, <2>13
<1>3. CASE ~ ToRevert(s, x, max) /\ ~ ToRestore(s, x, max)
  BY <1>3 DEF AdaptItem
<1> QED
  BY <1>1, <1>2, <1>3

(* The loop over the settings succeeds if the updates nested in it do.     *)
LEMMA AdaptedSucceeds ==
  ASSUME NEW u, Total(u), Sound(u), NEW s \in Servers, Steady(s), ~ s.failed,
         NEW max \in Nat, NEW mk \in BOOLEAN, NEW st,
         \A y \in Blocking(s) : Introduced[y] <= max,
         st => Stay(s, mk) /\ max = Agreed(s).max,
         \A r \in Servers, x \in Items :
           Moves(s, r, st) /\ Steady(r) /\ ~ r.failed => Bears(u, r, x, max, mk)
  PROVE  ~ Adapted(u, s, max, mk)[Len(ItemList)].failed
<1> DEFINE n == Len(ItemList)
           a == Adapted(u, s, max, mk)
           Good(t) == ~ t.failed /\ Moves(s, t, st)
           S == {k \in 0 .. n : Good(a[k])}
<1>0. n \in Nat /\ \A k \in 1 .. n : ItemList[k] \in Items
  BY ConstantsTyped
<1>1. a[0] = s /\ \A k \in 1 .. n : a[k] = AdaptItem(u, a[k - 1], ItemList[k], max, mk)
  BY AdaptedTurns
<1>2. \A k \in 0 .. n : a[k] \in Servers
  BY AdaptedKeeps DEF Keeps
<1> HIDE DEF a, n
<1>3. 0 \in S
  <2>1. Good(s)
    BY MovesItself
  <2> QED
    BY <1>0, <1>1, <2>1
<1>4. ASSUME NEW k \in 0 .. n, k # n, k \in S PROVE k + 1 \in S
  <2> DEFINE w == a[k]
             t == a[k + 1]
             x == ItemList[k + 1]
  <2>1. k + 1 \in 1 .. n /\ (k + 1) - 1 = k
    BY <1>0, <1>4
  <2>2. t = AdaptItem(u, w, x, max, mk) /\ x \in Items
    BY <1>0, <1>1, <2>1
  <2>3. ~ w.failed /\ Moves(s, w, st) /\ w \in Servers
    BY <1>2, <1>4
  <2> SUFFICES Good(t)
    BY <2>1
  <2> HIDE DEF w, t, x
  <2>4. Steady(w) /\ Blocking(w) = Blocking(s) /\ Own(w) = Own(s)
    BY <2>3, StepSteady, StepOwn DEF Moves
  <2>5. st => Stay(w, mk) /\ max = Agreed(w).max
    <3>1. st => w.version = s.version
      BY <2>3 DEF Moves
    <3> QED
      BY <2>4, <3>1, StaySame
  <2>6. Bears(u, w, x, max, mk)
    BY <2>2, <2>3, <2>4
  <2>7. ~ t.failed
    BY <2>2, <2>3, <2>4, <2>6, AdaptItemSucceeds
  <2>8. Moves(w, t, st)
    BY <2>2, <2>3, <2>4, <2>5, <2>7, AdaptItemMoves
  <2>9. Moves(s, t, st)
    BY <2>3, <2>8, MovesTwice
  <2> QED
    BY <2>7, <2>9
<1> HIDE DEF S
<1>5. n \in S
  <2>1. \A k \in 0 .. n : k # n /\ k \in S => k + 1 \in S
    BY <1>4
  <2>2. \A k \in 0 .. n : k \in S
    BY <1>0, <1>3, <2>1, SetInduction
  <2> QED
    BY <1>0, <2>2
<1> QED
  BY <1>5 DEF S, a, n

(* The state in which a kick updates the version.                          *)
LEMMA KickedFine ==
  ASSUME NEW s, Fine(s), NEW i, NEW t \in Servers, Kicked(s, i, t)
  PROVE  Fine(t)
<1>1. Steady(t)
  BY DEF Fine, Kicked, Steady, Known, Held
<1>2. Blocking(t) = Blocking(s)
  BY DEF Kicked, Blocking
<1> QED
  BY <1>1, <1>2, AdaptableSame DEF Fine, Kicked

(* The loop over the slots succeeds if updates that kick nobody do.        *)
LEMMA MergedSucceeds ==
  ASSUME NEW u, Total(u), Sound(u), NEW n \in Int, Ample(u, n), NEW s, Fine(s),
         NEW mk \in BOOLEAN, mk => n > Cardinality(Items)
  PROVE  ~ Merged(u, s, Own(s), mk)[MaxClients].server.failed
<1> DEFINE l == MaxClients
           o == Own(s)
           a == Merged(u, s, o, mk)
           Good(m) == ~ m.server.failed /\ Step(s, m.server)
           S == {k \in 0 .. l : Good(a[k])}
<1>0. l \in Nat /\ s \in Servers /\ CanAdaptVersion(s, Native(s)) /\ ~ s.failed
  BY ConstantsTyped DEF Fine, Adaptable
<1>1. /\ a[0] = [server |-> s, range |-> o]
      /\ \A k \in 1 .. l : a[k] = MergeClient(u, a[k - 1], o, MaxClients + 1 - k, mk)
  <2> HIDE DEF o
  <2> QED
    BY MergedTurns
<1>2. \A k \in 0 .. l : a[k].server \in Servers
  BY <1>0, MergedKeeps DEF Partial, Keeps
<1> HIDE DEF a
<1>3. 0 \in S
  BY <1>0, <1>1, StepItself
<1>4. ASSUME NEW k \in 0 .. l, k # l, k \in S PROVE k + 1 \in S
  <2> DEFINE i == MaxClients + 1 - (k + 1)
             m == a[k]
             t == a[k + 1]
             p == m.server
  <2>1. i \in Slots /\ k + 1 \in 1 .. l /\ (k + 1) - 1 = k
    BY <1>4, NextSlot
  <2>2. t = MergeClient(u, m, o, i, mk)
    BY <1>1, <2>1
  <2>3. ~ p.failed /\ Step(s, p) /\ p \in Servers
    BY <1>2, <1>4
  <2> SUFFICES Good(t)
    BY <1>0, <2>1
  <2>4. t.server = p \/ t.server = Kick(u, p, i, mk)
    <3> HIDE DEF i, o, t
    <3> QED
      BY <2>2, MergeClientCases
  <2> HIDE DEF m, t, i, p
  <2>5. Fine(p)
    BY <2>3, StepFine
  <2>6. CASE t.server = p
    BY <2>3, <2>6
  <2>7. CASE t.server = Kick(u, p, i, mk)
    <3>1. CASE ~ mk
      BY <2>3, <2>7, <3>1 DEF Kick
    <3>2. CASE mk
      <4>1. t.server = Kick(u, p, i, TRUE)
        BY <2>7, <3>2
      <4>2. PICK c \in Servers : Kicked(p, i, c) /\ t.server = u[<<c, FALSE>>]
        <5>1. \E c \in Servers : Kicked(p, i, c) /\ Kick(u, p, i, mk) = u[<<c, FALSE>>]
          BY <2>1, <2>3, <3>2, KickEffect
        <5> QED
          BY <2>7, <5>1
      <4>3. Fine(c) /\ Enough(c, FALSE, n)
        <5> DEFINE no == FALSE
        <5>1. no \in BOOLEAN /\ ~ no
          OBVIOUS
        <5> HIDE DEF no
        <5>2. Enough(c, no, n)
          BY <3>2, <5>1, AlwaysEnough
        <5> QED
          BY <2>5, <4>2, <5>2, KickedFine DEF no
      <4>4. ~ t.server.failed
        BY <4>2, <4>3 DEF Ample
      <4>5. Step(p, t.server)
        BY <2>1, <2>3, <2>5, <4>1, <4>4, KickMoves DEF Fine
      <4> QED
        BY <2>3, <4>4, <4>5, StepTwice
    <3> QED
      BY <3>1, <3>2
  <2> QED
    BY <2>4, <2>6, <2>7
<1> HIDE DEF S
<1>5. l \in S
  <2>1. \A k \in 0 .. l : k # l /\ k \in S => k + 1 \in S
    BY <1>4
  <2>2. \A k \in 0 .. l : k \in S
    BY <1>0, <1>3, <2>1, SetInduction
  <2> QED
    BY <1>0, <2>2
<1> QED
  BY <1>5 DEF S, a, l

(* The state in which an update nested in a turn of the loop begins.       *)
LEMMA AroundFine ==
  ASSUME NEW r, Fine(r), NEW x \in Items, NEW c \in Servers, BehaviorOf[x] = "revert",
         Around(r, c, x), Steady(c), ~ c.failed
  PROVE  Fine(c)
<1>1. Blocking(c) = Blocking(r)
  BY DEF Blocking, Around, SameItem
<1> QED
  BY <1>1, AdaptableSame DEF Fine, Around

(* While everybody stays, it has one setting less to adapt.                *)
LEMMA OneSettingLess ==
  ASSUME NEW s, NEW r, NEW c, NEW x \in Items, NEW mk, NEW n \in Nat, Stay(s, mk),
         Enough(s, mk, n + 1), Moves(s, r, TRUE),
         BehaviorOf[x] = "revert", ~ Right(r, x, Agreed(s).max),
         Around(r, c, x), Right(c, x, Agreed(s).max)
  PROVE  Enough(c, mk, n)
<1> DEFINE max == Agreed(s).max
           W == Wrong(s)
           V == Wrong(c)
<1>1. /\ Own(r) = Own(s) /\ r.version = s.version
      /\ \A y \in Items : Kept(s, r, y, max)
  BY StepOwn DEF Moves
<1>2. Agreed(r) = Agreed(s) /\ Stay(r, mk)
  BY <1>1, StaySame
<1>3. Agreed(c) = Agreed(s) /\ Stay(c, mk)
  BY <1>2, AroundSame
<1>4. W = {y \in Items : ~ Right(s, y, max)} /\ V = {y \in Items : ~ Right(c, y, max)}
  BY <1>3 DEF Wrong
<1> HIDE DEF max, W, V
<1>5. x \in W
  BY <1>1, <1>4 DEF Kept, max
<1>6. x \notin V
  BY <1>4 DEF max
<1>7. V \in SUBSET W
  <2> SUFFICES ASSUME NEW y \in Items, ~ Right(c, y, max), y # x PROVE ~ Right(s, y, max)
    BY <1>4, <1>6
  <2>1. ~ Right(r, y, max)
    BY DEF Around, SameItem, Right
  <2> QED
    BY <1>1, <2>1 DEF Kept
<1>8. W \in SUBSET Items /\ V \in SUBSET Items
  BY <1>4
<1>9. Cardinality(V) < Cardinality(W) /\ Cardinality(V) \in Nat /\ Cardinality(W) \in Nat
  BY <1>5, <1>6, <1>7, <1>8, Finite, OneLess
<1>10. n + 1 > Cardinality(W)
  BY DEF Enough, W
<1>11. n > Cardinality(V)
  BY <1>9, <1>10
<1> QED
  BY <1>3, <1>11 DEF Enough, V

(* A range that everybody shares suits everybody.                          *)
LEMMA WithinFits ==
  ASSUME NEW s \in Servers, NEW r \in Ranges, r.min <= r.max,
         r.min >= Own(s).min, r.max <= Own(s).max, Within(s, r, MaxClients)
  PROVE  Fit(s)
<1>0. \A i \in Slots : i > MaxClients - MaxClients
  BY ConstantsTyped
<1>1. r.min \in Nat /\ r.max \in Nat
  BY ConstantsTyped DEF Ranges
<1>2. ASSUME NEW i \in Slots, Connected(s, i)
      PROVE  s.version[i].min <= r.min /\ r.min <= s.version[i].max
  <2>1. s.version[i].min <= r.min /\ r.max <= s.version[i].max
    BY <1>0, <1>2 DEF Within
  <2>2. s.version[i].max \in Nat
    BY <1>2, ConnectedTyped DEF Ranges
  <2> QED
    BY <1>1, <2>1, <2>2
<1>3. Own(s).max \in Nat /\ Own(s).min \in Nat
  BY OwnTyped, ConstantsTyped DEF Ranges
<1>4. Suits(s, r.min)
  BY <1>1, <1>2, <1>3 DEF Suits
<1> QED
  BY <1>1, <1>4 DEF Fit

(* Clients who left are fewer.                                             *)
LEMMA FewerClients ==
  ASSUME NEW s, NEW t, Step(s, t)
  PROVE  /\ Cardinality(Present(t)) <= Cardinality(Present(s))
         /\ Fewer(s, t) => Cardinality(Present(t)) < Cardinality(Present(s))
<1>1. Present(t) \in SUBSET Present(s) /\ Present(s) \in SUBSET Slots
  BY DEF Step, Present, Connected
<1>2. IsFiniteSet(Present(s))
  BY <1>1, Finite
<1>3. Cardinality(Present(t)) <= Cardinality(Present(s))
  BY <1>1, <1>2, FS_Subset
<1>4. ASSUME Fewer(s, t) PROVE Cardinality(Present(t)) < Cardinality(Present(s))
  <2>1. PICK i \in Slots : i \in Present(s) /\ i \notin Present(t)
    BY <1>4 DEF Fewer, Present
  <2> QED
    BY <1>1, <1>2, <2>1, OneLess
<1> QED
  BY <1>3, <1>4

(* An update with enough levels below it.                                  *)
LEMMA UpdateWithSucceeds ==
  ASSUME NEW u, Total(u), Sound(u), NEW n \in Nat, Ample(u, n), NEW s, Fine(s),
         NEW mk \in BOOLEAN, Enough(s, mk, n + 1)
  PROVE  ~ UpdateWith(u, s, mk).failed
<1> DEFINE m == Merged(u, s, Own(s), mk)[MaxClients]
           p == m.server
           r == m.range
           w == Adapted(u, p, r.max, mk)[Len(ItemList)]
<1>0. /\ MaxClients \in Nat /\ s \in Servers /\ Steady(s) /\ ~ s.failed
      /\ CanAdaptVersion(s, Native(s))
      /\ Own(s) \in Ranges /\ Own(s).min <= Own(s).max
  BY ConstantsTyped, OwnTyped DEF Fine, Adaptable
<1>1. UpdateWith(u, s, mk) = Announce(w, r)
  BY <1>0, UpdateParts
<1>2. Partial(s, m)
  BY <1>0, MergedKeeps
<1>3. p.failed \/ (/\ Step(s, p)
                   /\ mk => \/ p.kicked /\ Fewer(s, p)
                            \/ p = s /\ Within(s, r, MaxClients))
  BY <1>0, MergedMoves
<1>4. Stay(s, mk) => p = s /\ r = Agreed(s)
  BY <1>0, MergedStays
<1>5. /\ p \in Servers
      /\ r \in Ranges /\ r.min <= r.max /\ r.min >= Own(s).min /\ r.max <= Own(s).max
  BY <1>2 DEF Partial, Keeps
<1>A. (mk => n > Cardinality(Items)) => ~ p.failed
  BY MergedSucceeds
<1> HIDE DEF m, p, r
<1>6. \A y \in Blocking(s) : Introduced[y] <= r.max
  <2>1. \A y \in Blocking(s) : Introduced[y] <= Own(s).min /\ Introduced[y] \in Nat
    BY <1>0, OwnTyped, ConstantsTyped DEF Blocking
  <2> QED
    BY <1>0, <1>5, <2>1, ConstantsTyped DEF Ranges
<1>7. w \in Servers
  BY <1>5, AdaptedKeeps, ConstantsTyped DEF Keeps
<1>8. r.max \in Nat
  BY <1>5 DEF Ranges
<1> SUFFICES ~ w.failed
  <2> HIDE DEF w
  <2> QED
    BY <1>1, <1>5, <1>7, AnnounceEffect
<1>9. CASE Stay(s, mk)
  <2> DEFINE st == TRUE
             max == r.max
  <2>1. p = s /\ max = Agreed(s).max
    BY <1>4, <1>9
  <2>2. ASSUME NEW t \in Servers, NEW x \in Items, Moves(s, t, st), Steady(t), ~ t.failed
        PROVE  Bears(u, t, x, max, mk)
    <3> SUFFICES ASSUME BehaviorOf[x] = "revert", ~ Right(t, x, max), NEW c \in Servers,
                        Around(t, c, x), Steady(c), ~ c.failed, Right(c, x, max)
                 PROVE  ~ u[<<c, mk>>].failed
      BY DEF Bears
    <3> HIDE DEF max
    <3>1. Fine(t)
      BY <2>2, StepFine DEF Moves
    <3>2. Fine(c)
      BY <3>1, AroundFine
    <3>3. Enough(c, mk, n)
      BY <1>9, <2>1, <2>2, OneSettingLess
    <3> QED
      BY <3>2, <3>3 DEF Ample, Fine
  <2>3. /\ \A y \in Blocking(s) : Introduced[y] <= max
        /\ st => Stay(s, mk) /\ max = Agreed(s).max
        /\ max \in Nat
    BY <1>6, <1>8, <1>9, <2>1
  <2>4. w = Adapted(u, s, max, mk)[Len(ItemList)]
    BY <2>1
  <2> HIDE DEF w, max, st
  <2> QED
    BY <1>0, <2>2, <2>3, <2>4, AdaptedSucceeds
<1>10. CASE ~ Stay(s, mk)
  <2>1. mk /\ ~ Fit(s) /\ n + 1 > Cardinality(Present(s)) + Cardinality(Items)
    BY <1>10 DEF Stay, Enough
  <2>2. Present(s) \in SUBSET Slots
    BY DEF Present
  <2>3. /\ Cardinality(Present(s)) \in Nat /\ IsFiniteSet(Present(s))
        /\ Cardinality(Items) \in Nat
    BY <2>2, Finite
  <2>4. Present(s) # {}
    <3>1. SUFFICES ASSUME Present(s) = {} PROVE Fit(s)
      BY <2>1
    <3>2. \A i \in Slots : ~ Connected(s, i)
      BY <3>1 DEF Present
    <3>3. Own(s).min \in Nat /\ Own(s).max \in Nat
      BY <1>0, ConstantsTyped DEF Ranges
    <3>4. Suits(s, Own(s).min)
      BY <1>0, <3>2, <3>3 DEF Suits
    <3> QED
      BY <3>3, <3>4 DEF Fit
  <2>5. Cardinality(Present(s)) > 0
    BY <2>3, <2>4, FS_EmptySet
  <2>6. n > Cardinality(Items)
    BY <2>1, <2>3, <2>5
  <2>7. ~ p.failed
    BY <1>A, <2>1, <2>6 DEF p
  <2>8. ~ (p = s /\ Within(s, r, MaxClients))
    BY <1>0, <1>5, <2>1, WithinFits
  <2>9. Step(s, p) /\ Fewer(s, p)
    BY <1>3, <2>1, <2>7, <2>8
  <2>10. Fine(p) /\ Blocking(p) = Blocking(s)
    BY <1>5, <2>7, <2>9, StepFine, StepOwn
  <2>11. Cardinality(Present(p)) < Cardinality(Present(s))
    BY <2>9, FewerClients
  <2> DEFINE st == FALSE
             max == r.max
  <2>12. ASSUME NEW t \in Servers, NEW x \in Items, Moves(p, t, st), Steady(t), ~ t.failed
         PROVE  Bears(u, t, x, max, mk)
    <3> SUFFICES ASSUME BehaviorOf[x] = "revert", NEW c \in Servers,
                        Around(t, c, x), Steady(c), ~ c.failed
                 PROVE  ~ u[<<c, mk>>].failed
      BY DEF Bears
    <3>1. Fine(t) /\ Step(p, t)
      BY <2>10, <2>12, StepFine DEF Moves
    <3>2. Fine(c)
      BY <3>1, AroundFine
    <3>3. Present(c) = Present(t)
      BY DEF Around, Present, Connected
    <3>4. Cardinality(Present(c)) <= Cardinality(Present(p))
      BY <3>1, <3>3, FewerClients
    <3>5. Present(c) \in SUBSET Slots /\ Present(p) \in SUBSET Slots
      BY DEF Present
    <3>6. Cardinality(Present(c)) \in Nat /\ Cardinality(Present(p)) \in Nat
      BY <3>5, Finite
    <3>7. n > Cardinality(Present(c)) + Cardinality(Items)
      BY <2>1, <2>3, <2>11, <3>4, <3>6
    <3>8. Enough(c, mk, n)
      BY <3>7, AlwaysEnough
    <3> QED
      BY <3>2, <3>8 DEF Ample, Fine
  <2>13. /\ \A y \in Blocking(p) : Introduced[y] <= max
         /\ st => Stay(p, mk) /\ max = Agreed(p).max
         /\ max \in Nat /\ Steady(p) /\ ~ p.failed
    BY <1>6, <1>8, <2>7, <2>10 DEF Fine
  <2> HIDE DEF max, st
  <2>14. ~ Adapted(u, p, max, mk)[Len(ItemList)].failed
    BY <1>5, <2>12, <2>13, AdaptedSucceeds
  <2> QED
    BY <2>14 DEF max
<1> QED
  BY <1>9, <1>10

(* However deep they may nest, that deep they can.                         *)
LEMMA UpdatesAmple == \A n \in 0 .. MaxNesting : Ample(Updates[n], n)
<1> DEFINE S == {n \in 0 .. MaxNesting : Ample(Updates[n], n)}
<1>0. MaxNesting \in Nat
  BY ConstantsTyped
<1>1. 0 \in S
  <2> DEFINE z == 0
  <2>1. z \in Int
    OBVIOUS
  <2> HIDE DEF z
  <2>2. \A s \in Servers, mk \in BOOLEAN : ~ Enough(s, mk, z)
    BY <2>1, AlwaysEnough DEF z
  <2>3. Ample(Updates[z], z)
    BY <2>2 DEF Ample
  <2> QED
    BY <1>0, <2>3 DEF z
<1>2. ASSUME NEW n \in 0 .. MaxNesting, n # MaxNesting, n \in S PROVE n + 1 \in S
  <2> DEFINE u == Updates[n]
  <2>1. Sound(u) /\ Total(u) /\ Ample(u, n) /\ n + 1 \in 0 .. MaxNesting /\ n \in Nat
    BY <1>0, <1>2, UpdatesTotal, UpdatesSound
  <2>2. \A s \in Servers, mk \in BOOLEAN : Updates[n + 1][<<s, mk>>] = UpdateWith(u, s, mk)
    BY <1>2, UpdateLevel
  <2> HIDE DEF u
  <2>3. \A s \in Servers, mk \in BOOLEAN :
          Fine(s) /\ Enough(s, mk, n + 1) => ~ UpdateWith(u, s, mk).failed
    BY <2>1, UpdateWithSucceeds
  <2>4. Ample(Updates[n + 1], n + 1)
    BY <2>2, <2>3 DEF Ample
  <2> QED
    BY <2>1, <2>4
<1> HIDE DEF S
<1>3. \A n \in 0 .. MaxNesting : n \in S
  BY <1>0, <1>1, <1>2, SetInduction
<1> QED
  BY <1>3 DEF S

(* An update that an event ends with fails by its assertion only.          *)
LEMMA UpdateSucceeds ==
  ASSUME NEW s, Fine(s)
  PROVE  ~ Update[<<s, TRUE>>].failed
<1> DEFINE n == MaxNesting
           mk == TRUE
<1>1. Present(s) \in SUBSET Slots
  BY DEF Present
<1>2. /\ Cardinality(Present(s)) \in Nat /\ Cardinality(Present(s)) <= MaxClients
      /\ Cardinality(Items) \in Nat /\ Cardinality(Items) <= Len(ItemList)
  BY <1>1, Finite
<1>3. n > Cardinality(Present(s)) + Cardinality(Items) /\ n \in Nat
  BY <1>2, ConstantsTyped DEF MaxNesting
<1>4. Ample(Update, n)
  BY <1>3, UpdatesAmple DEF Update
<1>6. mk \in BOOLEAN
  OBVIOUS
<1> HIDE DEF n, mk
<1>5. Enough(s, mk, n)
  BY <1>3, <1>6, AlwaysEnough
<1>7. ~ Update[<<s, mk>>].failed
  BY <1>4, <1>5, <1>6 DEF Ample, Fine
<1> QED
  BY <1>7 DEF mk
-----------------------------------------------------------------------------
(* The states between events.                                              *)

StayOut(s) ==
  \A x \in Blocking(s), i \in Slots :
    Connected(s, i) => s.version[i].max >= Introduced[x]

Supported(s) ==
  \A i \in Slots : Connected(s, i) =>
    s.current.min >= s.version[i].min /\ s.current.max <= s.version[i].max

(* The limits that the administrator can set leave room for what blocking  *)
(* settings ask for, so that the assertion in AdaptVersion cannot fail.    *)
RoomToBlock ==
  \A m \in MaxVersions, x \in Items :
    BehaviorOf[x] = "block" /\ m > 0 => Introduced[x] <= m

Limit(s) == s.maxVersion \in MaxVersions \cup {0}

(* That they do then.                                                      *)
LEMMA RoomAdaptable ==
  ASSUME NEW s \in Servers, Limit(s), RoomToBlock
  PROVE  Adaptable(s)
<1>1. /\ s.maxVersion \in 0 .. Top /\ s.minVersion \in 0 .. Top /\ Top \in Nat
      /\ \A x \in Items : Introduced[x] \in 0 .. Top
  BY ConstantsTyped DEF Servers
<1>2. SUFFICES ASSUME NEW x \in Items, BehaviorOf[x] = "block"
               PROVE  Introduced[x] <= Native(s).max
  BY DEF Adaptable, CanAdaptVersion, Blocking
<1>3. s.maxVersion > 0 => Introduced[x] <= s.maxVersion
  BY <1>1, <1>2 DEF Limit, RoomToBlock
<1> QED
  BY <1>1, <1>3 DEF Native, Larger, Smaller

(* What holds of the settings between events, whoever has been kicked.     *)
Quiet(s) ==
  /\ \A x \in Items : Known(s, x) /\ (BehaviorOf[x] # "revert" => ~ s.reverted[x])
  /\ StayOut(s) /\ Limit(s)
  /\ s.current.min <= s.current.max

(* The clients that are followed know the settings, or will.               *)
Told(s, know) ==
  \A i \in Followed, x \in Items :
    Connected(s, i) => Says(s.settings[i][x], s.value[x], know[i][x])

(* What holds as long as nobody has been kicked.                           *)
Undisturbed(s, want) ==
  /\ Supported(s)
  /\ \A x \in Items :
       Right(s, x, s.current.max) /\ Clean(s, x) /\ Meant(s, x) = want[x]

Rest(s, want, know) ==
  Quiet(s) /\ Told(s, know) /\ (s.kicked \/ Undisturbed(s, want))

(* Updates can begin between events.                                       *)
LEMMA QuietSteady ==
  ASSUME NEW s, \A x \in Items : Known(s, x) /\ (BehaviorOf[x] # "revert" => ~ s.reverted[x])
  PROVE  Steady(s)
BY DEF Steady

(* An update that an event ends with.                                      *)
LEMMA UpdateAtEnd ==
  ASSUME NEW s \in Servers, NEW know \in [Followed -> [Items -> Values]],
         \A x \in Items : Known(s, x) /\ (BehaviorOf[x] # "revert" => ~ s.reverted[x]),
         Limit(s)
  PROVE  LET t == Update[<<s, TRUE>>] IN
         /\ t \in Servers /\ (s.failed => t.failed)
         /\ RoomToBlock /\ ~ s.failed => ~ t.failed
         /\ t.failed \/
              (/\ Quiet(t) /\ (Told(s, know) => Told(t, know))
               /\ Updated(s, t, TRUE)
               /\ \/ t.kicked
                  \/ /\ ~ s.kicked /\ Supported(t)
                     /\ \A x \in Items : Right(t, x, t.current.max)
                     /\ \A x \in Items : Clean(s, x) => Clean(t, x)
                     /\ \A x \in Items : Meant(t, x) = Meant(s, x))
<1> DEFINE t == Update[<<s, TRUE>>]
<1>1. Total(Update) /\ Sound(Update)
  BY UpdatesTotal, UpdatesSound, ConstantsTyped DEF Update
<1>2. Steady(s)
  BY QuietSteady
<1>3. t \in Servers /\ (s.failed => t.failed)
  BY <1>1 DEF Total, Keeps
<1>4. t.failed \/ Updated(s, t, TRUE)
  BY <1>1, <1>2 DEF Sound
<1>R. RoomToBlock /\ ~ s.failed => ~ t.failed
  BY <1>2, RoomAdaptable, UpdateSucceeds DEF Fine
<1> SUFFICES ASSUME ~ t.failed
             PROVE  /\ Quiet(t) /\ (Told(s, know) => Told(t, know))
                    /\ Updated(s, t, TRUE)
                    /\ \/ t.kicked
                       \/ /\ ~ s.kicked /\ Supported(t)
                          /\ \A x \in Items : Right(t, x, t.current.max)
                          /\ \A x \in Items : Clean(s, x) => Clean(t, x)
                          /\ \A x \in Items : Meant(t, x) = Meant(s, x)
  BY <1>3, <1>R
<1> HIDE DEF t
<1>5. /\ Step(s, t) /\ Moves(s, t, Stay(s, TRUE))
      /\ t.current.min <= t.current.max
      /\ \A i \in Slots : Connected(t, i) => t.version[i].max >= Own(s).min
      /\ t.kicked \/ Fit(s)
  BY <1>4 DEF Updated, Moves
<1>6. \A x \in Items : Known(t, x) /\ (BehaviorOf[x] # "revert" => ~ t.reverted[x])
  BY <1>5 DEF Step, StepItem
<1>7. StayOut(t)
  <2> SUFFICES ASSUME NEW x \in Blocking(t), NEW i \in Slots, Connected(t, i)
               PROVE  t.version[i].max >= Introduced[x]
    BY DEF StayOut
  <2>1. x \in Blocking(s) /\ x \in Items
    BY <1>5, StepOwn DEF Blocking
  <2>2. Introduced[x] <= Own(s).min /\ Own(s) \in Ranges /\ Introduced[x] \in 0 .. Top
    BY <2>1, OwnTyped, ConstantsTyped
  <2>3. t.version[i] \in Ranges
    BY <1>3, ConnectedTyped DEF t
  <2>4. t.version[i].max \in Nat /\ Own(s).min \in 0 .. Top /\ Top \in Nat
    BY <2>2, <2>3, ConstantsTyped DEF Ranges
  <2>5. t.version[i].max >= Own(s).min
    BY <1>5
  <2> QED
    BY <2>2, <2>4, <2>5
<1>8. Quiet(t)
  BY <1>5, <1>6, <1>7 DEF Quiet, Limit, Step
<1>9. Told(s, know) => Told(t, know)
  <2> SUFFICES ASSUME Told(s, know), NEW i \in Followed, NEW x \in Items, Connected(t, i)
               PROVE  Says(t.settings[i][x], t.value[x], know[i][x])
    BY DEF Told
  <2>1. Connected(s, i)
    BY <1>5, ConstantsTyped DEF Step, Connected
  <2>2. know[i][x] \in Values
    OBVIOUS
  <2> QED
    BY <1>5, <2>1, <2>2 DEF Told, Step, StepItem
<1>10. ASSUME ~ t.kicked
       PROVE  /\ ~ s.kicked /\ Supported(t)
              /\ \A x \in Items : Right(t, x, t.current.max)
              /\ \A x \in Items : Clean(s, x) => Clean(t, x)
              /\ \A x \in Items : Meant(t, x) = Meant(s, x)
  <2>1. Fit(s) /\ Stay(s, TRUE)
    BY <1>5, <1>10 DEF Stay
  <2>2. /\ t.version = s.version /\ ~ s.kicked
        /\ \A x \in Items : Kept(s, t, x, Agreed(s).max)
    BY <1>5, <1>10, <2>1 DEF Moves
  <2>3. /\ t.current = Agreed(s)
        /\ \A x \in Items : Right(t, x, Agreed(s).max)
        /\ \A i \in Slots : Connected(s, i) =>
             s.version[i].min <= t.current.min /\ t.current.max <= s.version[i].max
    BY <1>4, <2>1 DEF Updated
  <2>4. Supported(t)
    <3> SUFFICES ASSUME NEW i \in Slots, Connected(t, i)
                 PROVE  t.current.min >= t.version[i].min /\ t.current.max <= t.version[i].max
      BY DEF Supported
    <3>1. Connected(s, i)
      BY <2>2 DEF Connected
    <3> QED
      BY <2>2, <2>3, <3>1
  <2> QED
    BY <2>2, <2>3, <2>4 DEF Kept
<1> QED
  BY <1>4, <1>8, <1>9, <1>10

-----------------------------------------------------------------------------
(* The specification.                                                      *)

Types ==
  /\ server \in Servers
  /\ wanted \in [Items -> Values]
  /\ cRange \in [Followed -> Ranges]
  /\ cValue \in [Followed -> [Items -> Values]]

(* No assertion has failed, if the limits see to it; and while none has,   *)
(* the server is at rest between events.                                   *)
Inv ==
  /\ Types
  /\ RoomToBlock => ~ server.failed
  /\ server.failed \/ Rest(server, wanted, cValue)

(* Initially the server is at rest.                                        *)
LEMMA InitInv == Init => Inv
<1> SUFFICES ASSUME Init PROVE Inv
  OBVIOUS
<1>1. MyVersion \in Ranges /\ MyVersion.min <= MyVersion.max /\ 0 \in 0 .. Top /\ Default = 0
  BY ConstantsTyped DEF MyVersion, Ranges, Default
<1>2. /\ server.version = [i \in Slots |-> Nobody]
      /\ server.current = MyVersion
      /\ server.value = [x \in Items |-> Default]
      /\ server.saved = [x \in Items |-> Default]
      /\ server.nonDefault = [x \in Items |-> FALSE]
      /\ server.reverted = [x \in Items |-> FALSE]
      /\ server.settings = [i \in Followed |-> [x \in Items |-> <<>>]]
      /\ server.kicked = FALSE /\ server.failed = FALSE /\ server.maxVersion = 0
  BY DEF Init
<1>3. server \in Servers
  <2>1. /\ [i \in Slots |-> Nobody] \in [Slots -> Ranges \cup {Nobody}]
        /\ [x \in Items |-> Default] \in [Items -> Values]
        /\ [x \in Items |-> FALSE] \in [Items -> BOOLEAN]
        /\ [i \in Followed |-> [x \in Items |-> <<>>]] \in [Followed -> [Items -> Seq(Values)]]
        /\ [i \in Followed |-> <<>>] \in [Followed -> Seq(Ranges)]
    BY ConstantsTyped
  <2> HIDE DEF MyVersion
  <2> QED
    BY <1>1, <2>1 DEF Init, Servers
<1>4. Types
  BY <1>1, <1>3, ConstantsTyped DEF Types, Init
<1>5. \A i \in Slots : ~ Connected(server, i)
  BY <1>2 DEF Connected
<1>6. Quiet(server)
  BY <1>1, <1>2, <1>5 DEF Quiet, Known, StayOut, Limit
<1>7. Told(server, cValue)
  BY <1>5, ConstantsTyped DEF Told
<1>8. Undisturbed(server, wanted)
  <2>1. wanted = [x \in Items |-> Default]
    BY DEF Init
  <2> QED
    BY <1>2, <1>5, <2>1 DEF Undisturbed, Supported, Right, Clean, Meant
<1> QED
  BY <1>2, <1>4, <1>6, <1>7, <1>8 DEF Inv, Rest

(* A client that comes.                                                    *)
LEMMA LoginInv ==
  ASSUME Inv, NEW top \in ClientTops, NEW i \in FreeSlots, Login(top, i)
  PROVE  Inv'
<1> DEFINE range == [min |-> 0, max |-> top]
           a == [server EXCEPT !.version[i] = range]
           s == PostSettings(a, {i}, Items)
           t == Update[<<s, TRUE>>]
<1>0. /\ server \in Servers /\ ~ server.failed /\ Rest(server, wanted, cValue)
      /\ i \in Slots /\ ~ Connected(server, i) /\ range \in Ranges
      /\ Followed \subseteq Slots /\ Default \in Values
  BY VersionAssumption, ConstantsTyped DEF Inv, Types, Login, Running, FreeSlots, Ranges
<1>1. /\ server' = PostVersion(t, {i})
      /\ cRange' = [j \in Followed |-> IF j = i THEN range ELSE cRange[j]]
      /\ cValue' = [j \in Followed |-> IF j = i THEN [x \in Items |-> Default] ELSE cValue[j]]
      /\ wanted' = wanted
  BY DEF Login
<1>2. /\ a \in Servers
      /\ \A j \in Slots : a.version[j] = IF j = i THEN range ELSE server.version[j]
      /\ a.current = server.current
      /\ a.value = server.value /\ a.saved = server.saved
      /\ a.nonDefault = server.nonDefault /\ a.reverted = server.reverted
      /\ a.settings = server.settings
      /\ a.kicked = server.kicked /\ a.failed = server.failed
      /\ a.maxVersion = server.maxVersion
  <2> HIDE DEF range
  <2> QED
    BY <1>0 DEF Servers
<1> HIDE DEF a
<1>3. /\ s \in Servers
      /\ s.version = a.version
      /\ s.value = a.value /\ s.saved = a.saved
      /\ s.nonDefault = a.nonDefault /\ s.reverted = a.reverted
      /\ s.kicked = a.kicked /\ s.failed = a.failed
      /\ s.maxVersion = a.maxVersion
      /\ \A j \in Followed, x \in Items :
           s.settings[j][x] = IF j \in {i} /\ Connected(a, j) /\ x \in Items
                              THEN Append(a.settings[j][x], a.value[x]) ELSE a.settings[j][x]
  BY <1>2, PostSettingsEffect
<1>4. cValue' \in [Followed -> [Items -> Values]] /\ cRange' \in [Followed -> Ranges]
      /\ wanted' \in [Items -> Values]
  BY <1>0, <1>1 DEF Inv, Types
<1> HIDE DEF s, range
<1>5. \A x \in Items : Known(s, x) /\ (BehaviorOf[x] # "revert" => ~ s.reverted[x])
  BY <1>0, <1>2, <1>3 DEF Rest, Quiet, Known
<1>L. Limit(s) /\ ~ s.failed
  BY <1>0, <1>2, <1>3 DEF Rest, Quiet, Limit
<1>6. Told(s, cValue')
  <2> SUFFICES ASSUME NEW j \in Followed, NEW x \in Items, Connected(s, j)
               PROVE  Says(s.settings[j][x], s.value[x], cValue'[j][x])
    BY DEF Told
  <2>1. CASE j = i
    <3>1. Connected(a, j)
      BY <1>3 DEF Connected
    <3>2. s.settings[j][x] = Append(a.settings[j][x], a.value[x])
      BY <1>3, <2>1, <3>1
    <3>3. a.settings[j][x] \in Seq(Values) /\ a.value[x] \in Values
      BY <1>2 DEF Servers
    <3> QED
      BY <1>3, <3>2, <3>3, SaysPosted
  <2>2. CASE j # i
    <3>1. Connected(server, j)
      BY <1>0, <1>2, <1>3, <2>2 DEF Connected
    <3>2. /\ s.settings[j][x] = server.settings[j][x] /\ s.value = server.value
          /\ cValue'[j] = cValue[j]
      BY <1>1, <1>2, <1>3, <2>2
    <3> QED
      BY <1>0, <3>1, <3>2 DEF Rest, Told
  <2> QED
    BY <2>1, <2>2
<1>7. /\ t \in Servers /\ (RoomToBlock => ~ t.failed)
      /\ t.failed \/
           (/\ Quiet(t) /\ Told(t, cValue')
            /\ \/ t.kicked
               \/ /\ ~ s.kicked /\ Supported(t)
                  /\ \A x \in Items : Right(t, x, t.current.max)
                  /\ \A x \in Items : Clean(s, x) => Clean(t, x)
                  /\ \A x \in Items : Meant(t, x) = Meant(s, x))
  BY <1>3, <1>4, <1>5, <1>6, <1>L, UpdateAtEnd
<1> HIDE DEF t
<1>8. /\ server' \in Servers
      /\ server'.version = t.version /\ server'.current = t.current
      /\ server'.value = t.value /\ server'.saved = t.saved
      /\ server'.nonDefault = t.nonDefault /\ server'.reverted = t.reverted
      /\ server'.settings = t.settings
      /\ server'.kicked = t.kicked /\ server'.failed = t.failed
      /\ server'.maxVersion = t.maxVersion
  BY <1>1, <1>7, PostVersionEffect
<1>9. Types'
  BY <1>4, <1>8 DEF Types
<1>10. CASE t.failed
  BY <1>7, <1>8, <1>9, <1>10 DEF Inv
<1>11. CASE ~ t.failed
  <2>1. \A j : Connected(server', j) <=> Connected(t, j)
    BY <1>8 DEF Connected
  <2>2. Quiet(server')
    BY <1>7, <1>8, <1>11, <2>1 DEF Quiet, Known, StayOut, Blocking, Limit
  <2>3. Told(server', cValue')
    BY <1>7, <1>8, <1>11, <2>1 DEF Told
  <2>4. server'.kicked \/ Undisturbed(server', wanted')
    <3> SUFFICES ASSUME ~ t.kicked PROVE Undisturbed(server', wanted')
      BY <1>8
    <3>1. /\ ~ s.kicked /\ Supported(t)
          /\ \A x \in Items : Right(t, x, t.current.max)
          /\ \A x \in Items : Clean(s, x) => Clean(t, x)
          /\ \A x \in Items : Meant(t, x) = Meant(s, x)
      BY <1>7, <1>11
    <3>2. \A x \in Items : Clean(s, x) /\ Meant(s, x) = wanted[x]
      BY <1>0, <1>2, <1>3, <3>1 DEF Rest, Undisturbed, Clean, Meant
    <3>3. Supported(server')
      BY <1>8, <2>1, <3>1 DEF Supported
    <3> QED
      BY <1>1, <1>8, <3>1, <3>2, <3>3 DEF Undisturbed, Right, Clean, Meant
  <2> QED
    BY <1>8, <1>9, <1>11, <2>2, <2>3, <2>4 DEF Inv, Rest
<1> QED
  BY <1>10, <1>11

(* A client that leaves.                                                   *)
LEMMA LogoutInv ==
  ASSUME Inv, NEW i \in Slots, Logout(i)
  PROVE  Inv'
<1> DEFINE s == Disconnected(server, i)
           t == Update[<<s, TRUE>>]
<1>0. /\ server \in Servers /\ ~ server.failed /\ Rest(server, wanted, cValue)
      /\ cValue \in [Followed -> [Items -> Values]]
  BY DEF Inv, Types, Logout, Running
<1>1. server' = t /\ UNCHANGED <<wanted, cRange, cValue>>
  BY DEF Logout
<1>2. /\ s \in Servers
      /\ \A j \in Slots : s.version[j] = IF j = i THEN Nobody ELSE server.version[j]
      /\ s.value = server.value /\ s.saved = server.saved
      /\ s.nonDefault = server.nonDefault /\ s.reverted = server.reverted
      /\ s.kicked = server.kicked /\ s.failed = server.failed
      /\ s.maxVersion = server.maxVersion
      /\ \A j \in Followed : j # i => s.settings[j] = server.settings[j]
  BY <1>0, DisconnectedEffect
<1> HIDE DEF s
<1>3. \A x \in Items : Known(s, x) /\ (BehaviorOf[x] # "revert" => ~ s.reverted[x])
  BY <1>0, <1>2 DEF Rest, Quiet, Known
<1>L. Limit(s) /\ ~ s.failed
  BY <1>0, <1>2 DEF Rest, Quiet, Limit
<1>4. Told(s, cValue)
  <2> SUFFICES ASSUME NEW j \in Followed, NEW x \in Items, Connected(s, j)
               PROVE  Says(s.settings[j][x], s.value[x], cValue[j][x])
    BY DEF Told
  <2>1. j # i /\ Connected(server, j)
    BY <1>2, ConstantsTyped DEF Connected
  <2> QED
    BY <1>0, <1>2, <2>1 DEF Rest, Told
<1>5. /\ t \in Servers /\ (RoomToBlock => ~ t.failed)
      /\ t.failed \/
           (/\ Quiet(t) /\ Told(t, cValue)
            /\ \/ t.kicked
               \/ /\ ~ s.kicked /\ Supported(t)
                  /\ \A x \in Items : Right(t, x, t.current.max)
                  /\ \A x \in Items : Clean(s, x) => Clean(t, x)
                  /\ \A x \in Items : Meant(t, x) = Meant(s, x))
  BY <1>0, <1>2, <1>3, <1>4, <1>L, UpdateAtEnd
<1> HIDE DEF t
<1>6. Types'
  BY <1>1, <1>5 DEF Inv, Types
<1>7. CASE t.failed
  BY <1>1, <1>5, <1>6, <1>7 DEF Inv
<1>8. CASE ~ t.failed
  <2>1. ASSUME ~ t.kicked PROVE Undisturbed(t, wanted)
    <3>1. ~ s.kicked
      BY <1>5, <1>8, <2>1
    <3>2. \A x \in Items : Clean(s, x) /\ Meant(s, x) = wanted[x]
      BY <1>0, <1>2, <3>1 DEF Rest, Undisturbed, Clean, Meant
    <3> QED
      BY <1>5, <1>8, <2>1, <3>2 DEF Undisturbed
  <2>2. Rest(t, wanted, cValue)
    BY <1>5, <1>8, <2>1 DEF Rest
  <2> QED
    BY <1>1, <1>6, <1>8, <2>2 DEF Inv
<1> QED
  BY <1>7, <1>8


(* The administrator changes a setting.                                    *)
LEMMA ChangeItemInv ==
  ASSUME Inv, NEW x \in Items, NEW v \in Values, ChangeItem(x, v)
  PROVE  Inv'
<1> DEFINE b == (v # Default)
           a == [server EXCEPT !.value[x] = v]
           c == [a EXCEPT !.nonDefault[x] = b]
           w == WatcherChange(Update, a, x, b, TRUE)
           Good(s) ==
             /\ Quiet(s)
             /\ \A i \in Followed, y \in Items :
                  y # x /\ Connected(s, i) => Says(s.settings[i][y], s.value[y], cValue[i][y])
             /\ s.kicked \/ Undisturbed(s, wanted')
<1>0. /\ server \in Servers /\ ~ server.failed /\ Rest(server, wanted, cValue)
      /\ wanted \in [Items -> Values] /\ cValue \in [Followed -> [Items -> Values]]
      /\ b \in BOOLEAN
  BY DEF Inv, Types, ChangeItem, Running
<1>1. /\ wanted' = [wanted EXCEPT ![x] = v] /\ cRange' = cRange /\ cValue' = cValue
      /\ v # server.value[x] /\ Writable(x)
  BY DEF ChangeItem
<1>2. /\ a \in Servers
      /\ \A y \in Items : a.value[y] = IF y = x THEN v ELSE server.value[y]
      /\ a.version = server.version /\ a.current = server.current
      /\ a.saved = server.saved
      /\ a.nonDefault = server.nonDefault /\ a.reverted = server.reverted
      /\ a.settings = server.settings
      /\ a.kicked = server.kicked /\ a.failed = server.failed
      /\ a.maxVersion = server.maxVersion
  BY <1>0 DEF Servers
<1>3. server' = PostSettings(w, Slots, {x})
  BY <1>2 DEF ChangeItem, CheckChange
<1>4. /\ c \in Servers
      /\ c.value = a.value
      /\ c.version = a.version /\ c.current = a.current
      /\ c.saved = a.saved /\ c.reverted = a.reverted
      /\ \A y \in Items : c.nonDefault[y] = IF y = x THEN b ELSE a.nonDefault[y]
      /\ c.settings = a.settings
      /\ c.kicked = a.kicked /\ c.failed = a.failed
      /\ c.maxVersion = a.maxVersion
  <2> HIDE DEF a, b
  <2> QED
    BY <1>0, <1>2 DEF Servers
<1>5. w = IF b = a.nonDefault[x] THEN a ELSE Update[<<c, TRUE>>]
  BY DEF WatcherChange
<1> HIDE DEF a, c, w
<1>6. /\ \A y \in Items : Known(c, y) /\ (BehaviorOf[y] # "revert" => ~ c.reverted[y])
      /\ \A y \in Items : y # x =>
           Meant(c, y) = Meant(server, y) /\ (Clean(server, y) => Clean(c, y))
  <2>1. \A y \in Items : Known(server, y) /\ (BehaviorOf[y] # "revert" => ~ server.reverted[y])
    BY <1>0 DEF Rest, Quiet
  <2> QED
    BY <1>2, <1>4, <2>1 DEF Known, Meant, Clean
<1>7. server.kicked \/ (/\ Clean(c, x) /\ Meant(c, x) = wanted'[x]
                        /\ \A y \in Items : y # x => Clean(c, y) /\ Meant(c, y) = wanted'[y])
  <2> SUFFICES ASSUME ~ server.kicked
               PROVE  /\ Clean(c, x) /\ Meant(c, x) = wanted'[x]
                      /\ \A y \in Items : y # x => Clean(c, y) /\ Meant(c, y) = wanted'[y]
    OBVIOUS
  <2>1. \A y \in Items : /\ Right(server, y, server.current.max) /\ Clean(server, y)
                         /\ Meant(server, y) = wanted[y]
    BY <1>0 DEF Rest, Undisturbed
  <2>2. ~ server.reverted[x]
    BY <1>0, <1>1, <2>1 DEF Right, Writable, Rest, Quiet
  <2>3. Clean(c, x) /\ Meant(c, x) = v
    BY <1>2, <1>4, <2>2 DEF Clean, Meant
  <2> QED
    BY <1>0, <1>1, <1>6, <2>1, <2>3
<1>L. Limit(c) /\ ~ c.failed /\ Limit(a) /\ ~ a.failed
  BY <1>0, <1>2, <1>4 DEF Rest, Quiet, Limit
<1>8. w \in Servers /\ (w.failed \/ Good(w)) /\ (RoomToBlock => ~ w.failed)
  <2>1. CASE b = a.nonDefault[x]
    <3>1. w = a /\ \A y \in Items : c.nonDefault[y] = a.nonDefault[y]
      BY <1>4, <1>5, <2>1
    <3>2. \A i : Connected(a, i) <=> Connected(server, i)
      BY <1>2 DEF Connected
    <3>3. Blocking(a) = Blocking(server)
      BY <1>2 DEF Blocking
    <3>4. Quiet(a)
      <4>1. \A y \in Items : Known(a, y) /\ (BehaviorOf[y] # "revert" => ~ a.reverted[y])
        BY <1>4, <1>6, <3>1 DEF Known
      <4> QED
        BY <1>0, <1>2, <1>L, <3>2, <3>3, <4>1 DEF Rest, Quiet, StayOut
    <3>5. \A i \in Followed, y \in Items :
            y # x /\ Connected(a, i) => Says(a.settings[i][y], a.value[y], cValue[i][y])
      BY <1>0, <1>2, <3>2 DEF Rest, Told
    <3>6. a.kicked \/ Undisturbed(a, wanted')
      <4> SUFFICES ASSUME ~ server.kicked PROVE Undisturbed(a, wanted')
        BY <1>2
      <4>1. Supported(a) /\ \A y \in Items : Right(a, y, a.current.max)
        BY <1>0, <1>2, <3>2 DEF Rest, Undisturbed, Supported, Right
      <4>2. \A y \in Items : Clean(c, y) /\ Meant(c, y) = wanted'[y]
        BY <1>7
      <4>3. \A y \in Items : Clean(a, y) /\ Meant(a, y) = wanted'[y]
        BY <1>4, <4>2 DEF Clean, Meant
      <4> QED
        BY <4>1, <4>3 DEF Undisturbed
    <3> QED
      BY <1>2, <1>L, <3>1, <3>4, <3>5, <3>6
  <2>2. CASE b # a.nonDefault[x]
    <3>1. w = Update[<<c, TRUE>>]
      BY <1>5, <2>2
    <3>2. /\ w \in Servers /\ (RoomToBlock => ~ w.failed)
          /\ w.failed \/
               (/\ Quiet(w) /\ Updated(c, w, TRUE)
                /\ \/ w.kicked
                   \/ /\ ~ c.kicked /\ Supported(w)
                      /\ \A y \in Items : Right(w, y, w.current.max)
                      /\ \A y \in Items : Clean(c, y) => Clean(w, y)
                      /\ \A y \in Items : Meant(w, y) = Meant(c, y))
      BY <1>0, <1>4, <1>6, <1>L, <3>1, UpdateAtEnd
    <3> SUFFICES ASSUME ~ w.failed PROVE Good(w)
      BY <3>2
    <3>3. Step(c, w)
      BY <3>2 DEF Updated, Moves
    <3>4. ASSUME NEW i \in Followed, NEW y \in Items, y # x, Connected(w, i)
          PROVE  Says(w.settings[i][y], w.value[y], cValue[i][y])
      <4>1. Connected(server, i)
        BY <1>2, <1>4, <3>3, <3>4, ConstantsTyped DEF Step, Connected
      <4>2. Says(c.settings[i][y], c.value[y], cValue[i][y]) /\ cValue[i][y] \in Values
        BY <1>0, <1>2, <1>4, <3>4, <4>1 DEF Rest, Told
      <4> QED
        BY <3>3, <3>4, <4>2 DEF Step, StepItem
    <3>5. ASSUME ~ w.kicked PROVE Undisturbed(w, wanted')
      <4>1. /\ ~ c.kicked /\ Supported(w)
            /\ \A y \in Items : Right(w, y, w.current.max)
            /\ \A y \in Items : Clean(c, y) => Clean(w, y)
            /\ \A y \in Items : Meant(w, y) = Meant(c, y)
        BY <3>2, <3>5
      <4>2. \A y \in Items : Clean(c, y) /\ Meant(c, y) = wanted'[y]
        BY <1>2, <1>4, <1>7, <4>1
      <4> QED
        BY <4>1, <4>2 DEF Undisturbed
    <3> QED
      BY <3>2, <3>4, <3>5
  <2> QED
    BY <2>1, <2>2
<1>9. /\ server' \in Servers
      /\ server'.version = w.version /\ server'.current = w.current
      /\ server'.value = w.value /\ server'.saved = w.saved
      /\ server'.nonDefault = w.nonDefault /\ server'.reverted = w.reverted
      /\ server'.kicked = w.kicked /\ server'.failed = w.failed
      /\ server'.maxVersion = w.maxVersion
      /\ \A i \in Followed, y \in Items :
           server'.settings[i][y] = IF i \in Slots /\ Connected(w, i) /\ y = x
                                    THEN Append(w.settings[i][y], w.value[y])
                                    ELSE w.settings[i][y]
  <2> DEFINE one == {x}
  <2>1. server' = PostSettings(w, Slots, one)
    BY <1>3
  <2>2. \A y : y \in one <=> y = x
    OBVIOUS
  <2> DEFINE all == Slots
             t == PostSettings(w, all, one)
  <2> HIDE DEF one, all
  <2>3. /\ t \in Servers
        /\ t.version = w.version /\ t.current = w.current
        /\ t.value = w.value /\ t.saved = w.saved
        /\ t.nonDefault = w.nonDefault /\ t.reverted = w.reverted
        /\ t.kicked = w.kicked /\ t.failed = w.failed
        /\ t.maxVersion = w.maxVersion
        /\ \A i \in Followed, y \in Items :
             t.settings[i][y] = IF i \in all /\ Connected(w, i) /\ y \in one
                                THEN Append(w.settings[i][y], w.value[y])
                                ELSE w.settings[i][y]
    BY <1>8, PostSettingsEffect
  <2>4. server' = t
    BY <2>1 DEF all
  <2> HIDE DEF t
  <2>5. ASSUME NEW i \in Followed, NEW y \in Items
        PROVE  t.settings[i][y] = IF i \in Slots /\ Connected(w, i) /\ y = x
                                  THEN Append(w.settings[i][y], w.value[y])
                                  ELSE w.settings[i][y]
    <3>1. (i \in all <=> i \in Slots) /\ (y \in one <=> y = x)
      BY <2>2 DEF all
    <3> QED
      BY <2>3, <3>1
  <2> QED
    BY <2>3, <2>4, <2>5
<1>10. Types'
  <2>1. cRange \in [Followed -> Ranges]
    BY DEF Inv, Types
  <2> QED
    BY <1>0, <1>1, <1>9, <2>1 DEF Types
<1>11. ASSUME ~ w.failed PROVE Rest(server', wanted', cValue')
  <2>1. Good(w)
    BY <1>8, <1>11
  <2>2. \A i : Connected(server', i) <=> Connected(w, i)
    BY <1>9 DEF Connected
  <2>3. Quiet(server')
    BY <1>9, <2>1, <2>2 DEF Quiet, Known, StayOut, Blocking, Limit
  <2>4. Told(server', cValue')
    <3> SUFFICES ASSUME NEW i \in Followed, NEW y \in Items, Connected(server', i)
                 PROVE  Says(server'.settings[i][y], server'.value[y], cValue'[i][y])
      BY DEF Told
    <3>1. i \in Slots /\ Connected(w, i)
      BY <2>2, ConstantsTyped
    <3>2. CASE y = x
      <4>1. server'.settings[i][y] = Append(w.settings[i][y], w.value[y])
        BY <1>9, <3>1, <3>2
      <4>2. w.settings[i][y] \in Seq(Values) /\ w.value[y] \in Values
        BY <1>8 DEF Servers
      <4> QED
        BY <1>9, <4>1, <4>2, SaysPosted
    <3>3. CASE y # x
      BY <1>1, <1>9, <2>1, <3>1, <3>3
    <3> QED
      BY <3>2, <3>3
  <2>5. server'.kicked \/ Undisturbed(server', wanted')
    BY <1>9, <2>1, <2>2 DEF Undisturbed, Supported, Right, Clean, Meant
  <2> QED
    BY <2>3, <2>4, <2>5 DEF Rest
<1> QED
  BY <1>8, <1>9, <1>10, <1>11 DEF Inv

(* The administrator changes a limit.                                      *)
LEMMA ChangeLimitsInv ==
  ASSUME Inv, NEW min \in MinVersions, NEW max \in MaxVersions, ChangeLimits(min, max)
  PROVE  Inv'
<1>0. /\ server \in Servers /\ ~ server.failed /\ Rest(server, wanted, cValue)
      /\ min \in 0 .. Top /\ max \in 0 .. Top
  BY VersionAssumption DEF Inv, Types, ChangeLimits, Running
<1>1. /\ server' = [server EXCEPT !.minVersion = min, !.maxVersion = max]
      /\ UNCHANGED <<wanted, cRange, cValue>>
  BY DEF ChangeLimits
<1>2. /\ server' \in Servers
      /\ server'.version = server.version /\ server'.current = server.current
      /\ server'.value = server.value /\ server'.saved = server.saved
      /\ server'.nonDefault = server.nonDefault /\ server'.reverted = server.reverted
      /\ server'.settings = server.settings /\ server'.kicked = server.kicked
      /\ server'.failed = server.failed /\ server'.maxVersion = max
  BY <1>0, <1>1 DEF Servers
<1>3. Types'
  BY <1>1, <1>2 DEF Inv, Types
<1>4. \A i : Connected(server', i) <=> Connected(server, i)
  BY <1>2 DEF Connected
<1>5. Quiet(server')
  BY <1>0, <1>2, <1>4 DEF Rest, Quiet, Known, StayOut, Blocking, Limit
<1>6. Told(server', cValue')
  BY <1>0, <1>1, <1>2, <1>4 DEF Rest, Told
<1>7. server'.kicked \/ Undisturbed(server', wanted')
  BY <1>0, <1>1, <1>2, <1>4 DEF Rest, Undisturbed, Supported, Right, Clean, Meant
<1> QED
  BY <1>0, <1>2, <1>3, <1>5, <1>6, <1>7 DEF Inv, Rest

(* A client takes a setting and what came before it will not count: the    *)
(* last message is still to come, or this was it.                          *)
LEMMA RemainingSays ==
  ASSUME NEW q \in Seq(Values), NEW k \in 1 .. Len(q), NEW v, NEW d, Says(q, v, d)
  PROVE  Remaining(q, k) \in Seq(Values) /\ Says(Remaining(q, k), v, q[k])
<1>1. Len(q) \in Nat /\ k \in Nat /\ q # <<>> /\ \A j \in 1 .. Len(q) : q[j] \in Values
  OBVIOUS
<1>2. q[Len(q)] = v
  BY <1>1 DEF Says
<1> DEFINE r == SubSeq(q, k + 1, Len(q))
<1>3. /\ r \in Seq(Values)
      /\ Len(r) = IF k + 1 <= Len(q) THEN Len(q) - (k + 1) + 1 ELSE 0
      /\ \A j \in 1 .. Len(q) - (k + 1) + 1 : r[j] = q[k + 1 + j - 1]
  BY <1>1, SubSeqProperties
<1>a. r = Remaining(q, k)
  BY DEF Remaining
<1> HIDE DEF r
<1>4. CASE k = Len(q)
  <2>1. r = <<>>
    BY <1>1, <1>3, <1>4
  <2> QED
    BY <1>2, <1>3, <1>4, <1>a, <2>1 DEF Says
<1>5. CASE k # Len(q)
  <2> DEFINE l == Len(q) - k
  <2>1. Len(r) = l /\ l \in 1 .. Len(q) - (k + 1) + 1 /\ k + 1 + l - 1 = Len(q)
    BY <1>1, <1>3, <1>5
  <2> HIDE DEF l
  <2>2. r[l] = q[k + 1 + l - 1]
    BY <1>3, <2>1
  <2>3. r # <<>>
    BY <1>1, <2>1
  <2> QED
    BY <1>2, <1>3, <1>a, <2>1, <2>2, <2>3 DEF Says
<1> QED
  BY <1>4, <1>5

(* A client receives a setting.                                            *)
LEMMA ReceiveSettingInv ==
  ASSUME Inv, NEW i \in Followed, NEW x \in Items,
         NEW k \in 1 .. Len(server.settings[i][x]), ReceiveSetting(i, x, k)
  PROVE  Inv'
<1> DEFINE q == server.settings[i][x]
           r == Remaining(q, k)
<1>0. /\ server \in Servers /\ (server.failed \/ Rest(server, wanted, cValue))
      /\ cValue \in [Followed -> [Items -> Values]]
  BY DEF Inv, Types
<1>1. /\ server' = [server EXCEPT !.settings[i][x] = r]
      /\ cValue' = [cValue EXCEPT ![i][x] = q[k]]
      /\ wanted' = wanted /\ cRange' = cRange
  BY DEF ReceiveSetting
<1>2. q \in Seq(Values) /\ q[k] \in Values
  BY <1>0 DEF Servers
<1>3. r \in Seq(Values)
  BY <1>2 DEF Remaining
<1> HIDE DEF r
<1>4. /\ server' \in Servers
      /\ server'.version = server.version /\ server'.current = server.current
      /\ server'.value = server.value /\ server'.saved = server.saved
      /\ server'.nonDefault = server.nonDefault /\ server'.reverted = server.reverted
      /\ server'.kicked = server.kicked /\ server'.failed = server.failed
      /\ server'.maxVersion = server.maxVersion
      /\ \A j \in Followed, y \in Items :
           server'.settings[j][y] = IF j = i /\ y = x THEN r ELSE server.settings[j][y]
  BY <1>0, <1>1, <1>3 DEF Servers
<1>5. /\ cValue' \in [Followed -> [Items -> Values]]
      /\ \A j \in Followed, y \in Items :
           cValue'[j][y] = IF j = i /\ y = x THEN q[k] ELSE cValue[j][y]
  <2> HIDE DEF q
  <2> QED
    BY <1>0, <1>1, <1>2
<1>6. Types'
  BY <1>1, <1>4, <1>5 DEF Inv, Types
<1>7. \A j : Connected(server', j) <=> Connected(server, j)
  BY <1>4 DEF Connected
<1>8. ASSUME ~ server.failed PROVE Rest(server', wanted', cValue')
  <2>1. Rest(server, wanted, cValue)
    BY <1>0, <1>8
  <2>2. Quiet(server')
    BY <1>4, <1>7, <2>1 DEF Rest, Quiet, Known, StayOut, Blocking, Limit
  <2>3. Told(server', cValue')
    <3> SUFFICES ASSUME NEW j \in Followed, NEW y \in Items, Connected(server', j)
                 PROVE  Says(server'.settings[j][y], server'.value[y], cValue'[j][y])
      BY DEF Told
    <3>1. Says(server.settings[j][y], server.value[y], cValue[j][y])
      BY <1>7, <2>1 DEF Rest, Told
    <3>2. CASE j = i /\ y = x
      <4>1. Says(Remaining(q, k), server.value[y], q[k])
        BY <1>2, <3>1, <3>2, RemainingSays
      <4> QED
        BY <1>4, <1>5, <3>2, <4>1 DEF r
    <3>3. CASE ~ (j = i /\ y = x)
      BY <1>4, <1>5, <3>1, <3>3
    <3> QED
      BY <3>2, <3>3
  <2>4. server'.kicked \/ Undisturbed(server', wanted')
    BY <1>1, <1>4, <1>7, <2>1 DEF Rest, Undisturbed, Supported, Right, Clean, Meant
  <2> QED
    BY <2>2, <2>3, <2>4 DEF Rest
<1> QED
  BY <1>4, <1>6, <1>8 DEF Inv

(* A client receives a version.                                            *)
LEMMA ReceiveVersionInv ==
  ASSUME Inv, NEW i \in Followed, NEW k \in 1 .. Len(server.versions[i]),
         ReceiveVersion(i, k)
  PROVE  Inv'
<1> DEFINE q == server.versions[i]
           r == SubSeq(q, 1, k - 1) \o SubSeq(q, k + 1, Len(q))
<1>0. server \in Servers /\ (server.failed \/ Rest(server, wanted, cValue))
  BY DEF Inv, Types
<1>1. /\ server' = [server EXCEPT !.versions[i] = r]
      /\ cRange' = [cRange EXCEPT ![i] = q[k]]
      /\ wanted' = wanted /\ cValue' = cValue
  BY DEF ReceiveVersion
<1>2. q \in Seq(Ranges) /\ q[k] \in Ranges
  BY <1>0 DEF Servers
<1>3. r \in Seq(Ranges)
  <2>1. SubSeq(q, 1, k - 1) \in Seq(Ranges) /\ SubSeq(q, k + 1, Len(q)) \in Seq(Ranges)
    <3> HIDE DEF q
    <3>1. Len(q) \in Nat /\ k \in 1 .. Len(q) /\ \A j \in 1 .. Len(q) : q[j] \in Ranges
      BY <1>2 DEF q
    <3>2. /\ 1 \in Int /\ k - 1 \in Int /\ k + 1 \in Int /\ Len(q) \in Int
          /\ \A j \in 1 .. k - 1 : q[j] \in Ranges
          /\ \A j \in k + 1 .. Len(q) : q[j] \in Ranges
      BY <3>1
    <3> QED
      BY <3>2, SubSeqProperties
  <2> QED
    BY <2>1
<1> HIDE DEF r
<1>4. /\ server' \in Servers
      /\ server'.version = server.version /\ server'.current = server.current
      /\ server'.value = server.value /\ server'.saved = server.saved
      /\ server'.nonDefault = server.nonDefault /\ server'.reverted = server.reverted
      /\ server'.settings = server.settings
      /\ server'.kicked = server.kicked /\ server'.failed = server.failed
      /\ server'.maxVersion = server.maxVersion
  BY <1>0, <1>1, <1>3 DEF Servers
<1>5. Types'
  BY <1>1, <1>2, <1>4 DEF Inv, Types
<1>6. \A j : Connected(server', j) <=> Connected(server, j)
  BY <1>4 DEF Connected
<1>7. ASSUME ~ server.failed PROVE Rest(server', wanted', cValue')
  <2>1. Rest(server, wanted, cValue)
    BY <1>0, <1>7
  <2>2. Quiet(server') /\ Told(server', cValue')
    BY <1>1, <1>4, <1>6, <2>1 DEF Rest, Quiet, Known, StayOut, Blocking, Limit, Told
  <2>3. server'.kicked \/ Undisturbed(server', wanted')
    BY <1>1, <1>4, <1>6, <2>1 DEF Rest, Undisturbed, Supported, Right, Clean, Meant
  <2> QED
    BY <2>2, <2>3 DEF Rest
<1> QED
  BY <1>4, <1>5, <1>7 DEF Inv

(* It holds of every step.                                                 *)
LEMMA StepInv == Inv /\ [Next]_vars => Inv'
<1> SUFFICES ASSUME Inv, [Next]_vars PROVE Inv'
  OBVIOUS
<1>1. ASSUME NEW top \in ClientTops, NEW i \in FreeSlots, Login(top, i) PROVE Inv'
  BY <1>1, LoginInv
<1>2. ASSUME NEW i \in Slots, Logout(i) PROVE Inv'
  BY <1>2, LogoutInv
<1>3. ASSUME NEW x \in Items, NEW v \in Values, ChangeItem(x, v) PROVE Inv'
  BY <1>3, ChangeItemInv
<1>4. ASSUME NEW min \in MinVersions, NEW max \in MaxVersions, ChangeLimits(min, max)
      PROVE  Inv'
  BY <1>4, ChangeLimitsInv
<1>5. ASSUME NEW i \in Followed, NEW x \in Items,
             NEW k \in 1 .. Len(server.settings[i][x]), ReceiveSetting(i, x, k)
      PROVE  Inv'
  BY <1>5, ReceiveSettingInv
<1>6. ASSUME NEW i \in Followed, NEW k \in 1 .. Len(server.versions[i]), ReceiveVersion(i, k)
      PROVE  Inv'
  BY <1>6, ReceiveVersionInv
<1>7. CASE UNCHANGED vars
  BY <1>7 DEF vars, Inv, Types
<1> QED
  BY <1>1, <1>2, <1>3, <1>4, <1>5, <1>6, <1>7 DEF Next

(* So it is in all states.                                                 *)
LEMMA Invariance == Spec => []Inv
  BY InitInv, StepInv, PTL DEF Spec

(* What the invariant says of the properties.                              *)
LEMMA InvMeans ==
  ASSUME Inv, ~ server.failed
  PROVE  /\ TypeOK
         /\ CurrentSupportedUnlessKicked
         /\ BlockedClientsStayOut
         /\ RevertedOnlyForOldClients
         /\ ClientsAgreeOnSettings
<1> DEFINE s == server
<1>0. /\ Types /\ Quiet(s) /\ Told(s, cValue)
      /\ s.kicked \/ Undisturbed(s, wanted)
      /\ s \in Servers
  BY DEF Inv, Rest, Types
<1>1. TypeOK
  BY <1>0 DEF TypeOK, Types, Quiet, Known
<1>2. CurrentSupportedUnlessKicked
  BY <1>0 DEF Undisturbed, Supported, CurrentSupportedUnlessKicked, CurrentSupportedByAll
<1>3. BlockedClientsStayOut
  BY <1>0 DEF Quiet, StayOut, BlockedClientsStayOut, Supports
<1>4. RevertedForOldClients
  <2> SUFFICES ASSUME NEW x \in Items, ~ s.kicked, BehaviorOf[x] = "revert",
                      s.value[x] # Default, NEW i \in Slots, Connected(s, i)
               PROVE  s.version[i].max >= Introduced[x]
    BY DEF RevertedForOldClients, EverybodySupports, Supports
  <2>1. /\ Known(s, x) /\ Right(s, x, s.current.max) /\ Clean(s, x)
        /\ s.current.max <= s.version[i].max
    BY <1>0 DEF Quiet, Undisturbed, Supported
  <2>2. Introduced[x] <= s.current.max
    BY <2>1 DEF Known, Right, Clean
  <2>3. /\ s.version[i] \in Ranges /\ s.current \in Ranges
        /\ Introduced[x] \in 0 .. Top
    BY <1>0, ConnectedTyped, ConstantsTyped DEF Servers
  <2> QED
    BY <2>1, <2>2, <2>3, ConstantsTyped DEF Ranges
<1>5. SettingsComeBack
  <2> SUFFICES ASSUME NEW x \in Items, ~ s.kicked, s.value[x] # wanted[x]
               PROVE  s.reverted[x] /\ Introduced[x] > s.current.max
    BY DEF SettingsComeBack
  <2>1. /\ Right(s, x, s.current.max) /\ Meant(s, x) = wanted[x]
        /\ BehaviorOf[x] # "revert" => ~ s.reverted[x]
    BY <1>0 DEF Quiet, Undisturbed
  <2>2. s.reverted[x] /\ ~ Introduced[x] <= s.current.max
    BY <2>1 DEF Right, Meant
  <2>3. s.current \in Ranges /\ Introduced[x] \in 0 .. Top
    BY <1>0, ConstantsTyped DEF Servers
  <2> QED
    BY <2>2, <2>3, ConstantsTyped DEF Ranges
<1>6. ClientsAgreeOnSettings
  <2> SUFFICES ASSUME NEW i \in Followed, Connected(s, i),
                      \A x \in Items : s.settings[i][x] = <<>>
               PROVE  cValue[i] = s.value
    BY DEF ClientsAgreeOnSettings
  <2>1. cValue[i] \in [Items -> Values] /\ s.value \in [Items -> Values]
    BY <1>0 DEF Types, Servers
  <2>2. \A x \in Items : cValue[i][x] = s.value[x]
    BY <1>0 DEF Told, Says
  <2> QED
    BY <2>1, <2>2
<1> QED
  BY <1>1, <1>2, <1>3, <1>4, <1>5, <1>6 DEF RevertedOnlyForOldClients

-----------------------------------------------------------------------------
(* Results.                                                                *)

(* Updates never nest without end, whoever they kick and whatever they     *)
(* change: as long as no limit on the versions excludes what a blocking    *)
(* setting asks for, the assertion in AdaptVersion never fails, and        *)
(* sn_UpdateCurrentVersion always ends.                                    *)
THEOREM NothingFails ==
  ASSUME RoomToBlock
  PROVE  Spec => []~ server.failed
<1>1. Inv => ~ server.failed
  BY DEF Inv
<1> QED
  BY <1>1, Invariance, PTL

(* With any limits, all of the properties hold until the assertion fails.  *)
THEOREM CorrectUntilFailure ==
  Spec => [](server.failed \/
             (/\ TypeOK
              /\ CurrentSupportedUnlessKicked
              /\ BlockedClientsStayOut
              /\ RevertedOnlyForOldClients
              /\ ClientsAgreeOnSettings))
<1>1. Inv => server.failed \/
             (/\ TypeOK
              /\ CurrentSupportedUnlessKicked
              /\ BlockedClientsStayOut
              /\ RevertedOnlyForOldClients
              /\ ClientsAgreeOnSettings)
  BY InvMeans
<1> QED
  BY <1>1, Invariance, PTL

(* The types, and that a watcher always knows whether its setting has the  *)
(* default value, also after nested updates.                               *)
THEOREM VersionTypeCorrect ==
  ASSUME RoomToBlock
  PROVE  Spec => []TypeOK
<1>1. Inv => TypeOK
  BY InvMeans DEF Inv
<1> QED
  BY <1>1, Invariance, PTL

(* The version in use is one that all clients support, until an update     *)
(* kicks a client.                                                         *)
THEOREM CurrentIsSupported ==
  ASSUME RoomToBlock
  PROVE  Spec => []CurrentSupportedUnlessKicked
<1>1. Inv => CurrentSupportedUnlessKicked
  BY InvMeans DEF Inv
<1> QED
  BY <1>1, Invariance, PTL

(* A setting in use that blocks old clients and one of them are never      *)
(* together on the server, however many settings and kicks interfere.      *)
THEOREM OldClientsStayOut ==
  ASSUME RoomToBlock
  PROVE  Spec => []BlockedClientsStayOut
<1>1. Inv => BlockedClientsStayOut
  BY InvMeans DEF Inv
<1> QED
  BY <1>1, Invariance, PTL

(* A reverting setting is away from its default only without clients that  *)
(* are too old for it, and back at the value the administrator wants as    *)
(* soon as they are gone, until an update kicks a client.                  *)
THEOREM RevertingIsTemporary ==
  ASSUME RoomToBlock
  PROVE  Spec => []RevertedOnlyForOldClients
<1>1. Inv => RevertedOnlyForOldClients
  BY InvMeans DEF Inv
<1> QED
  BY <1>1, Invariance, PTL

(* Clients who have received all settings sent to them, in any order, have *)
(* the server's values.                                                    *)
THEOREM SettingsReachClients ==
  ASSUME RoomToBlock
  PROVE  Spec => []ClientsAgreeOnSettings
<1>1. Inv => ClientsAgreeOnSettings
  BY InvMeans DEF Inv
<1> QED
  BY <1>1, Invariance, PTL

-----------------------------------------------------------------------------
(* Login slots.  What LoginSlots assumes of its constants is stated as a   *)
(* hypothesis here.                                                        *)

(* LoginSlots counts as FiniteSets does.                                   *)
LEMMA SameCount ==
  ASSUME NEW S
  PROVE  LS!Cardinality(S) = Cardinality(S)
BY DEF LS!Cardinality, Cardinality

(* The slots that are taken, when the variables have their types.          *)
LEMMA TakenSlots ==
  ASSUME LS!TypeOK
  PROVE  LS!Taken = {s \in LS!Slots : peers[s] # NoAddress}
BY DEF LS!TypeOK, LS!Taken

(* The sets of slots that are counted are finite.                          *)
LEMMA SlotsFinite ==
  ASSUME LS!LimitsAreSound, NEW S \in SUBSET LS!Slots
  PROVE  IsFiniteSet(S) /\ Cardinality(S) \in Nat
<1>1. IsFiniteSet(LS!Slots)
  BY FS_Interval DEF LS!LimitsAreSound, LS!Slots
<1>2. IsFiniteSet(S)
  BY <1>1, FS_Subset
<1> QED
  BY <1>2, FS_CardinalityType

(* The socket of a client that connects, or has connected, is an address.  *)
LEMMA ListeningTyped ==
  ASSUME LS!LimitsAreSound, LS!TypeOK
  PROVE  LS!Listening \subseteq LS!Addresses
BY DEF LS!TypeOK, LS!Listening, LS!Addresses, LS!Address

(* Nobody listens on other sockets after a step that leaves clients alone. *)
LEMMA ListeningKept ==
  ASSUME LS!LimitsAreSound, UNCHANGED LS!client
  PROVE  LS!Listening' = LS!Listening
BY DEF LS!client, LS!Listening, LS!Address

(* A denial is kept only for somebody who listens.                         *)
LEMMA DenyTyped ==
  ASSUME LS!LimitsAreSound, LS!TypeOK, NEW a, LS!Deny(a)
  PROVE  denials' \subseteq LS!Listening
BY DEF LS!TypeOK, LS!Deny

-----------------------------------------------------------------------------
(* Type correctness, action by action.                                     *)

(* The initial state has the types.                                        *)
LEMMA InitTyped ==
  ASSUME LS!LimitsAreSound
  PROVE  LS!Init => LS!TypeOK
BY DEF LS!LimitsAreSound, LS!Init, LS!TypeOK, LS!Taken

(* A step that only denies somebody keeps the types.                       *)
LEMMA DenyStepTyped ==
  ASSUME LS!LimitsAreSound, LS!TypeOK, NEW a, LS!Deny(a),
         UNCHANGED <<LS!server, LS!client, accepts, logouts>>
  PROVE  LS!TypeOK'
<1>1. LS!Listening' = LS!Listening
  BY ListeningKept
<1>2. denials' \subseteq LS!Listening'
  BY <1>1, DenyTyped
<1> QED
  BY <1>1, <1>2 DEF LS!TypeOK, LS!server, LS!client

(* A login that is granted keeps the types.                                *)
LEMMA GrantTyped ==
  ASSUME LS!LimitsAreSound, LS!TypeOK, NEW a \in LS!Addresses, NEW s \in LS!Slots,
         LS!Grant(a, s)
  PROVE  LS!TypeOK'
<1>1. LS!Listening' = LS!Listening
  BY ListeningKept DEF LS!Grant
<1>2. denials' \subseteq LS!Listening
  BY DenyTyped DEF LS!Grant, LS!TypeOK
<1>3. lastPeers' \in [LS!Slots -> LS!Addresses \cup {NoAddress}]
  BY DEF LS!Grant, LS!TypeOK
<1>4. sameIP' \in [LS!Slots -> Nat]
  <2>1. LS!SameMachine(a) \ {s} \in SUBSET LS!Slots
    BY TakenSlots DEF LS!SameMachine
  <2> QED
    BY <2>1, SlotsFinite, SameCount DEF LS!Grant, LS!TypeOK
<1>5. grants' \in 0 .. MaxGrants /\ grants + 1 \in 1 .. MaxGrants
  BY DEF LS!LimitsAreSound, LS!Grant, LS!TypeOK
<1>6. accepts' \subseteq [to : LS!Listening, slot : LS!Slots, num : 1 .. MaxGrants]
  BY <1>5 DEF LS!Grant, LS!TypeOK
<1>7. peers' \in [LS!Slots -> LS!Addresses \cup {NoAddress}]
  BY DEF LS!Grant, LS!TypeOK
<1> QED
  BY <1>1, <1>2, <1>3, <1>4, <1>5, <1>6, <1>7 DEF LS!Grant, LS!TypeOK, LS!client

(* A login, whatever comes of it, keeps the types.                         *)
LEMMA LoginTyped ==
  ASSUME LS!LimitsAreSound, LS!TypeOK, NEW a \in LS!Addresses, LS!ReceiveLogin(a)
  PROVE  LS!TypeOK'
<1>1. CASE \E s \in LS!Slots : LS!Grant(a, s)
  BY <1>1, GrantTyped
<1>2. CASE LS!Full(a)
  BY <1>2, DenyStepTyped DEF LS!Full
<1>3. CASE LS!Banned(a)
  BY <1>3, DenyStepTyped DEF LS!Banned
<1> QED
  BY <1>1, <1>2, <1>3 DEF LS!ReceiveLogin

(* A disconnect on the server keeps the types.                             *)
LEMMA DisconnectTyped ==
  ASSUME LS!LimitsAreSound, LS!TypeOK, NEW s \in LS!Slots, LS!Disconnect(s),
         kicks' \in 0 .. MaxKicks
  PROVE  LS!TypeOK'
<1>1. LS!Listening' = LS!Listening
  BY ListeningKept DEF LS!Disconnect
<1>2. denials' \subseteq LS!Listening
  BY DenyTyped DEF LS!Disconnect
<1>3. /\ peers' \in [LS!Slots -> LS!Addresses \cup {NoAddress}]
      /\ lastPeers' \in [LS!Slots -> LS!Addresses \cup {NoAddress}]
  BY DEF LS!Disconnect, LS!TypeOK
<1> QED
  BY <1>1, <1>2, <1>3 DEF LS!Disconnect, LS!TypeOK, LS!client

(* A client that connects keeps the types.                                 *)
LEMMA ConnectTyped ==
  ASSUME LS!LimitsAreSound, LS!TypeOK, NEW c \in Clients, LS!Connect(c)
  PROVE  LS!TypeOK'
<1>1. LS!Listening \subseteq LS!Listening'
  BY DEF LS!Connect, LS!TypeOK, LS!Listening, LS!Address
<1>2. /\ attempt' \in [Clients -> Nat]
      /\ \A d \in Clients : attempt'[d] <= MaxAttempts[d]
  <2>1. \A d \in Clients : attempt[d] \in Nat /\ MaxAttempts[d] \in Nat
    BY DEF LS!LimitsAreSound, LS!TypeOK
  <2>2. attempt' = [attempt EXCEPT ![c] = attempt[c] + 1]
    BY DEF LS!Connect
  <2>3. attempt[c] + 1 \in Nat /\ attempt[c] + 1 <= MaxAttempts[c]
    BY <2>1 DEF LS!Connect
  <2> QED
    BY <2>2, <2>3 DEF LS!TypeOK
<1>3. mode' \in [Clients -> {"standalone", "login", "connected"}]
  BY DEF LS!Connect, LS!TypeOK
<1>4. \A d \in Clients : mode'[d] = "connected" <=> netId'[d] # 0
  BY DEF LS!Connect, LS!TypeOK
<1>5. \A d \in Clients : mode'[d] # "standalone" => attempt'[d] > 0
  BY DEF LS!Connect, LS!TypeOK
<1>6. UNCHANGED <<peers, lastPeers, sameIP, grants, kicks, netId,
                  accepts, denials, logouts>>
  BY DEF LS!Connect, LS!server, LS!network
<1> QED
  BY <1>1, <1>2, <1>3, <1>4, <1>5, <1>6 DEF LS!TypeOK

(* A client that learns of its slot keeps the types.                       *)
LEMMA AcceptedTyped ==
  ASSUME LS!LimitsAreSound, LS!TypeOK, NEW c \in Clients, NEW m \in accepts,
         LS!ReceiveAccepted(c, m)
  PROVE  LS!TypeOK'
<1>1. LS!Listening' = LS!Listening
  BY DEF LS!ReceiveAccepted, LS!TypeOK, LS!Listening, LS!Address
<1>2. m.slot \in 1 .. MaxClients /\ m.slot # 0
  BY DEF LS!LimitsAreSound, LS!TypeOK, LS!Slots
<1>3. /\ mode' \in [Clients -> {"standalone", "login", "connected"}]
      /\ netId' \in [Clients -> 0 .. MaxClients]
  BY <1>2 DEF LS!LimitsAreSound, LS!ReceiveAccepted, LS!TypeOK
<1>4. \A d \in Clients : mode'[d] = "connected" <=> netId'[d] # 0
  BY <1>2 DEF LS!ReceiveAccepted, LS!TypeOK
<1>5. \A d \in Clients : mode'[d] # "standalone" => attempt'[d] > 0
  BY DEF LS!ReceiveAccepted, LS!TypeOK
<1>6. /\ accepts' \subseteq accepts
      /\ UNCHANGED <<peers, lastPeers, sameIP, grants, kicks, attempt,
                     denials, logouts>>
  BY DEF LS!ReceiveAccepted, LS!server
<1> QED
  BY <1>1, <1>3, <1>4, <1>5, <1>6 DEF LS!TypeOK

(* A client that leaves, for whatever reason, keeps the types: what is on  *)
(* its way to its socket is lost with it.                                  *)
LEMMA StandaloneTyped ==
  ASSUME LS!LimitsAreSound, LS!TypeOK, NEW c \in Clients, LS!GoStandalone(c)
  PROVE  LS!TypeOK'
<1>1. LS!Listening \ {LS!Address(c)} \subseteq LS!Listening'
  BY DEF LS!GoStandalone, LS!TypeOK, LS!Listening, LS!Address
<1>2. denials' \subseteq LS!Listening'
  BY <1>1 DEF LS!GoStandalone, LS!TypeOK
<1>3. accepts' \subseteq [to : LS!Listening', slot : LS!Slots, num : 1 .. MaxGrants]
  <2> SUFFICES ASSUME NEW m \in accepts'
               PROVE  m \in [to : LS!Listening', slot : LS!Slots,
                             num : 1 .. MaxGrants]
    OBVIOUS
  <2>1. m \in accepts /\ m.to # LS!Address(c)
    BY DEF LS!GoStandalone
  <2>2. m \in [to : LS!Listening, slot : LS!Slots, num : 1 .. MaxGrants]
    BY <2>1 DEF LS!TypeOK
  <2> QED
    BY <1>1, <2>1, <2>2
<1>4. logouts' \subseteq [from : LS!Addresses, slot : LS!Slots]
  <2>1. CASE netId[c] = 0
    BY <2>1 DEF LS!GoStandalone, LS!TypeOK
  <2>2. CASE netId[c] # 0
    <3>1. LS!Address(c) \in LS!Addresses
      BY ListeningTyped DEF LS!GoStandalone, LS!Listening
    <3>2. netId[c] \in LS!Slots
      BY <2>2 DEF LS!LimitsAreSound, LS!TypeOK, LS!Slots
    <3> QED
      BY <2>2, <3>1, <3>2 DEF LS!GoStandalone, LS!TypeOK
  <2> QED
    BY <2>1, <2>2
<1>5. /\ mode' \in [Clients -> {"standalone", "login", "connected"}]
      /\ netId' \in [Clients -> 0 .. MaxClients]
  BY DEF LS!LimitsAreSound, LS!GoStandalone, LS!TypeOK
<1>6. \A d \in Clients : mode'[d] = "connected" <=> netId'[d] # 0
  BY DEF LS!GoStandalone, LS!TypeOK
<1>7. \A d \in Clients : mode'[d] # "standalone" => attempt'[d] > 0
  BY DEF LS!GoStandalone, LS!TypeOK
<1>8. UNCHANGED <<peers, lastPeers, sameIP, grants, kicks, attempt>>
  BY DEF LS!GoStandalone, LS!server
<1> QED
  BY <1>2, <1>3, <1>4, <1>5, <1>6, <1>7, <1>8 DEF LS!TypeOK

(* The steps of the specification by what they do to the server's slots:   *)
(* a slot is given away, a slot is taken back, or neither.                 *)
LEMMA Steps ==
  ASSUME LS!LimitsAreSound, [LS!Next]_(LS!vars), LS!TypeOK
  PROVE  \/ \E a \in LS!Addresses, s \in LS!Slots : LS!Grant(a, s)
         \/ \E s \in LS!Slots : LS!Disconnect(s)
         \/ UNCHANGED peers
<1>1. CASE \E a \in LS!Addresses : LS!ReceiveLogin(a)
  BY <1>1 DEF LS!ReceiveLogin, LS!Full, LS!Banned, LS!server
<1>2. CASE \E s \in LS!Slots : LS!Kick(s) \/ LS!Timeout(s)
  BY <1>2 DEF LS!Kick, LS!Timeout
<1>3. CASE \E m \in logouts : LS!ReceiveLogout(m)
  <2>1. PICK m \in logouts : LS!ReceiveLogout(m)
    BY <1>3
  <2>2. m.slot \in LS!Slots
    BY <2>1 DEF LS!TypeOK
  <2> QED
    BY <2>1, <2>2 DEF LS!ReceiveLogout
<1>4. CASE \E c \in Clients :
             \/ LS!StrayPacket(c)
             \/ LS!Connect(c) \/ LS!Leave(c) \/ LS!ReceiveDenied(c) \/ LS!ClientTimeout(c)
             \/ \E m \in accepts : LS!ReceiveAccepted(c, m)
  BY <1>4 DEF LS!StrayPacket, LS!Connect, LS!Leave, LS!ReceiveDenied, LS!ClientTimeout,
              LS!ReceiveAccepted, LS!GoStandalone, LS!server
<1>5. CASE UNCHANGED LS!vars
  BY <1>5 DEF LS!vars, LS!server
<1> QED
  BY <1>1, <1>2, <1>3, <1>4, <1>5 DEF LS!Next

(* Every step keeps the types.                                             *)
LEMMA StepTyped ==
  ASSUME LS!LimitsAreSound
  PROVE  LS!TypeOK /\ [LS!Next]_(LS!vars) => LS!TypeOK'
<1> SUFFICES ASSUME LS!TypeOK, [LS!Next]_(LS!vars) PROVE LS!TypeOK'
  OBVIOUS
<1>1. CASE \E a \in LS!Addresses : LS!ReceiveLogin(a)
  BY <1>1, LoginTyped
<1>2. CASE \E s \in LS!Slots : LS!Kick(s) \/ LS!Timeout(s)
  <2>1. PICK s \in LS!Slots : LS!Kick(s) \/ LS!Timeout(s)
    BY <1>2
  <2>2. kicks' \in 0 .. MaxKicks
    BY <2>1 DEF LS!Kick, LS!Timeout, LS!TypeOK, LS!LimitsAreSound
  <2> QED
    BY <2>1, <2>2, DisconnectTyped DEF LS!Kick, LS!Timeout
<1>3. CASE \E m \in logouts : LS!ReceiveLogout(m)
  <2>1. PICK m \in logouts : LS!ReceiveLogout(m)
    BY <1>3
  <2>2. m.slot \in LS!Slots
    BY <2>1 DEF LS!TypeOK
  <2>3. kicks' \in 0 .. MaxKicks
    BY <2>1 DEF LS!ReceiveLogout, LS!TypeOK
  <2> QED
    BY <2>1, <2>2, <2>3, DisconnectTyped DEF LS!ReceiveLogout
<1>4. CASE \E c \in Clients : LS!StrayPacket(c)
  BY <1>4, DenyStepTyped DEF LS!StrayPacket
<1>5. CASE \E c \in Clients : LS!Connect(c)
  BY <1>5, ConnectTyped
<1>6. CASE \E c \in Clients : LS!Leave(c) \/ LS!ReceiveDenied(c) \/ LS!ClientTimeout(c)
  BY <1>6, StandaloneTyped DEF LS!Leave, LS!ReceiveDenied, LS!ClientTimeout
<1>7. CASE \E c \in Clients : \E m \in accepts : LS!ReceiveAccepted(c, m)
  BY <1>7, AcceptedTyped
<1>8. CASE UNCHANGED LS!vars
  <2>1. LS!Listening' = LS!Listening
    BY <1>8, ListeningKept DEF LS!vars
  <2> QED
    BY <1>8, <2>1 DEF LS!vars, LS!server, LS!client, LS!network, LS!TypeOK
<1> QED
  BY <1>1, <1>2, <1>3, <1>4, <1>5, <1>6, <1>7, <1>8 DEF LS!Next

(* The variables keep their types, whatever the constants.                 *)
THEOREM TypeCorrect ==
  ASSUME LS!LimitsAreSound
  PROVE  LS!Spec => []LS!TypeOK
BY InitTyped, StepTyped, PTL DEF LS!Spec

-----------------------------------------------------------------------------
(* The limit per machine.                                                  *)

(* No address is nobody: a slot that is given away is taken.               *)
LEMMA AddressIsSomebody ==
  ASSUME LS!LimitsAreSound, NEW a \in LS!Addresses
  PROVE  a # NoAddress
BY DEF LS!LimitsAreSound, LS!Addresses

(* What is counted for a machine are slots.                                *)
LEMMA CountsBySlot ==
  ASSUME LS!TypeOK, NEW a
  PROVE  LS!SameMachine(a) \in SUBSET LS!Slots
BY TakenSlots DEF LS!SameMachine

(* Every step keeps the machines within their limit: a slot that is given  *)
(* away counts for its new owner only, and others only lose slots.         *)
LEMMA StepSameIPLimit ==
  ASSUME LS!LimitsAreSound
  PROVE  LS!TypeOK /\ LS!SameIPLimit /\ [LS!Next]_(LS!vars) => LS!SameIPLimit'
<1> SUFFICES ASSUME LS!TypeOK, LS!SameIPLimit, [LS!Next]_(LS!vars), NEW s \in LS!Taken'
             PROVE  Cardinality(LS!SameMachine(peers[s])') <= HardLimit
  BY SameCount DEF LS!SameIPLimit
<1> DEFINE Now == LS!SameMachine(peers[s])'
<1>t. /\ LS!Taken = {q \in LS!Slots : peers[q] # NoAddress}
      /\ LS!Taken' = {q \in LS!Slots : peers'[q] # NoAddress}
  <2>1. LS!TypeOK'
    BY StepTyped
  <2> QED
    BY <2>1, TakenSlots DEF LS!TypeOK, LS!Taken
<1>0. s \in LS!Slots /\ peers'[s] # NoAddress
  BY <1>t
<1>1. CASE \E a \in LS!Addresses, r \in LS!Slots : LS!Grant(a, r)
  <2>1. PICK a \in LS!Addresses, r \in LS!Slots : LS!Grant(a, r)
    BY <1>1
  <2>2. \A q \in LS!Slots : peers'[q] = IF q = r THEN a ELSE peers[q]
    BY <2>1 DEF LS!Grant, LS!TypeOK
  <2>3. CASE LS!IP(peers'[s]) = LS!IP(a)
    <3>1. Now \subseteq LS!SameMachine(a) \cup {r}
      BY <1>t, <2>2, <2>3 DEF LS!SameMachine, LS!IP
    <3>2. Cardinality(LS!SameMachine(a)) < HardLimit
      BY <2>1, SameCount DEF LS!Grant, LS!Grantable, LS!Admissible, LS!WithinLimit
    <3>3. /\ IsFiniteSet(LS!SameMachine(a))
          /\ Cardinality(LS!SameMachine(a)) \in Nat
      BY CountsBySlot, SlotsFinite
    <3>4. /\ IsFiniteSet(LS!SameMachine(a) \cup {r})
          /\ Cardinality(LS!SameMachine(a) \cup {r}) \in Nat
          /\ Cardinality(LS!SameMachine(a) \cup {r}) <= HardLimit
      <4>1. /\ IsFiniteSet(LS!SameMachine(a) \cup {r})
            /\ Cardinality(LS!SameMachine(a) \cup {r}) \in
                 {Cardinality(LS!SameMachine(a)), Cardinality(LS!SameMachine(a)) + 1}
        BY <3>3, FS_AddElement
      <4>2. HardLimit \in Nat
        BY DEF LS!LimitsAreSound
      <4> QED
        BY <3>2, <3>3, <4>1, <4>2
    <3>5. IsFiniteSet(Now) /\ Cardinality(Now) \in Nat
          /\ Cardinality(Now) <= Cardinality(LS!SameMachine(a) \cup {r})
      BY <3>1, <3>4, FS_Subset, FS_CardinalityType
    <3> QED
      BY <3>4, <3>5 DEF LS!LimitsAreSound
  <2>4. CASE LS!IP(peers'[s]) # LS!IP(a)
    <3>1. s # r /\ s \in LS!Taken /\ peers'[s] = peers[s]
      BY <1>0, <1>t, <2>2, <2>4
    <3>2. Now \subseteq LS!SameMachine(peers[s])
      BY <1>t, <2>2, <2>4, <3>1 DEF LS!SameMachine, LS!IP
    <3> QED
      BY <3>1, <3>2, CountsBySlot, SlotsFinite, SameCount, FS_Subset
         DEF LS!LimitsAreSound, LS!SameIPLimit
  <2> QED
    BY <2>3, <2>4
<1>2. CASE \E r \in LS!Slots : LS!Disconnect(r)
  <2>1. PICK r \in LS!Slots : LS!Disconnect(r)
    BY <1>2
  <2>2. \A q \in LS!Slots : peers'[q] = IF q = r THEN NoAddress ELSE peers[q]
    BY <2>1 DEF LS!Disconnect, LS!TypeOK
  <2>3. s \in LS!Taken /\ peers'[s] = peers[s]
    BY <1>0, <1>t, <2>2
  <2>4. Now \subseteq LS!SameMachine(peers[s])
    BY <1>t, <2>2, <2>3 DEF LS!SameMachine, LS!IP
  <2> QED
    BY <2>3, <2>4, CountsBySlot, SlotsFinite, SameCount, FS_Subset
       DEF LS!LimitsAreSound, LS!SameIPLimit
<1>3. CASE UNCHANGED peers
  <2>1. s \in LS!Taken /\ Now = LS!SameMachine(peers[s])
    BY <1>3, <1>t DEF LS!SameMachine, LS!IP
  <2> QED
    BY <2>1, SameCount DEF LS!SameIPLimit
<1> QED
  BY <1>1, <1>2, <1>3, Steps

(* LoginSlots is about the limits of SlotLimits.                           *)
LEMMA SameLimits ==
  SameIPLimit <=> LS!SameIPLimit
<1>1. Taken = LS!Taken
  BY DEF Taken, LS!Taken
<1>2. \A a : SameMachine(a) = LS!SameMachine(a)
  BY <1>1 DEF SameMachine, LS!SameMachine, IP, LS!IP
<1> QED
  BY <1>1, <1>2, SameCount DEF SameIPLimit, LS!SameIPLimit

(* No machine ever has more slots than the hard limit allows.              *)
THEOREM MachinesWithinLimit ==
  ASSUME LS!LimitsAreSound
  PROVE  LS!Spec => []SameIPLimit
<1>1. LS!Init => LS!SameIPLimit
  BY DEF LS!Init, LS!SameIPLimit, LS!Taken
<1>2. LS!SameIPLimit => SameIPLimit
  BY SameLimits
<1> QED
  BY <1>1, <1>2, StepSameIPLimit, TypeCorrect, PTL DEF LS!Spec

-----------------------------------------------------------------------------
(* Who plays stays.                                                        *)

(* A logout that is on its way, or has arrived, is from a session that is  *)
(* over: from an attempt of its client that was made, and that nobody      *)
(* listens for any more.                                                   *)
SessionsOver ==
  \A m \in logouts : m.from[2] <= attempt[m.from[1]] /\ m.from \notin LS!Listening

(* Every step keeps logouts behind the sessions that go on.                *)
LEMMA StepSessionsOver ==
  ASSUME LS!LimitsAreSound
  PROVE  LS!TypeOK /\ SessionsOver /\ [LS!Next]_(LS!vars) => SessionsOver'
<1> SUFFICES ASSUME LS!TypeOK, SessionsOver, [LS!Next]_(LS!vars)
             PROVE  SessionsOver'
  OBVIOUS
<1>t. \A m \in logouts : m.from[1] \in Clients /\ m.from[2] \in Nat
  <2>1. \A a \in LS!Addresses : a[1] \in Clients /\ a[2] \in Nat
    BY DEF LS!Addresses, LS!LimitsAreSound
  <2> QED
    BY <2>1 DEF LS!TypeOK
<1>1. CASE UNCHANGED <<mode, attempt, logouts>>
  BY <1>1 DEF SessionsOver, LS!Listening, LS!Address
<1>2. CASE \E c \in Clients : LS!Connect(c)
  <2>1. PICK c \in Clients : LS!Connect(c)
    BY <1>2
  <2>2. /\ logouts' = logouts /\ mode[c] = "standalone"
        /\ \A d \in Clients : d # c => mode'[d] = mode[d] /\ attempt'[d] = attempt[d]
        /\ attempt[c] \in Nat /\ attempt'[c] = attempt[c] + 1
    BY <2>1 DEF LS!Connect, LS!network, LS!TypeOK
  <2> SUFFICES ASSUME NEW m \in logouts, NEW d \in Clients
               PROVE  /\ m.from[2] <= attempt'[m.from[1]]
                      /\ mode'[d] # "standalone" => m.from # <<d, attempt'[d]>>
    BY <2>2 DEF SessionsOver, LS!Listening, LS!Address
  <2>3. /\ m.from[2] <= attempt[m.from[1]]
        /\ mode[d] # "standalone" => m.from # <<d, attempt[d]>>
    BY DEF SessionsOver, LS!Listening, LS!Address
  <2>4. attempt[m.from[1]] \in Nat
    BY <1>t DEF LS!TypeOK
  <2>5. m.from[2] <= attempt'[m.from[1]]
    BY <1>t, <2>2, <2>3, <2>4
  <2>6. CASE d = c
    <3>1. m.from # <<c, attempt'[c]>>
      <4>1. SUFFICES ASSUME m.from = <<c, attempt'[c]>> PROVE FALSE
        OBVIOUS
      <4>2. m.from[1] = c /\ m.from[2] = attempt[c] + 1
        BY <2>2, <4>1
      <4> QED
        BY <2>2, <2>3, <4>2
    <3> QED
      BY <2>5, <2>6, <3>1
  <2>7. CASE d # c
    BY <2>2, <2>3, <2>5, <2>7
  <2> QED
    BY <2>6, <2>7
<1>3. CASE \E c \in Clients : LS!GoStandalone(c)
  <2>1. PICK c \in Clients : LS!GoStandalone(c)
    BY <1>3
  <2>2. /\ attempt' = attempt /\ mode'[c] = "standalone"
        /\ \A d \in Clients : d # c => mode'[d] = mode[d]
    BY <2>1 DEF LS!GoStandalone, LS!TypeOK
  <2>3. \A m \in logouts' : m \in logouts \/ m.from = <<c, attempt[c]>>
    BY <2>1 DEF LS!GoStandalone, LS!Address
  <2>4. LS!Listening' = LS!Listening \ {<<c, attempt[c]>>}
    BY <2>1, <2>2 DEF LS!GoStandalone, LS!Listening, LS!Address
  <2>5. ASSUME NEW m \in logouts', m.from = <<c, attempt[c]>>
        PROVE  m.from[2] <= attempt[m.from[1]] /\ m.from \notin LS!Listening'
    <3>1. m.from[1] = c /\ m.from[2] = attempt[c] /\ attempt[c] \in Nat
      BY <2>5 DEF LS!TypeOK
    <3> QED
      BY <2>4, <2>5, <3>1
  <2>6. ASSUME NEW m \in logouts
        PROVE  m.from[2] <= attempt[m.from[1]] /\ m.from \notin LS!Listening'
    BY <2>4 DEF SessionsOver
  <2> QED
    BY <2>2, <2>3, <2>5, <2>6 DEF SessionsOver
<1>4. CASE \E c \in Clients, m \in accepts : LS!ReceiveAccepted(c, m)
  <2>1. UNCHANGED logouts /\ attempt' = attempt /\ LS!Listening' = LS!Listening
    BY <1>4 DEF LS!ReceiveAccepted, LS!TypeOK, LS!Listening, LS!Address
  <2> QED
    BY <2>1 DEF SessionsOver
<1>5. \/ UNCHANGED <<mode, attempt, logouts>>
      \/ \E c \in Clients : LS!Connect(c)
      \/ \E c \in Clients : LS!GoStandalone(c)
      \/ \E c \in Clients, m \in accepts : LS!ReceiveAccepted(c, m)
  <2>1. CASE \E a \in LS!Addresses : LS!ReceiveLogin(a)
    BY <2>1 DEF LS!ReceiveLogin, LS!Grant, LS!Full, LS!Banned, LS!client
  <2>2. CASE \E s \in LS!Slots : LS!Kick(s) \/ LS!Timeout(s)
    BY <2>2 DEF LS!Kick, LS!Timeout, LS!Disconnect, LS!client
  <2>3. CASE \E m \in logouts : LS!ReceiveLogout(m)
    BY <2>3 DEF LS!ReceiveLogout, LS!Disconnect, LS!client
  <2>4. CASE \E c \in Clients :
               \/ LS!StrayPacket(c)
               \/ LS!Connect(c) \/ LS!Leave(c) \/ LS!ReceiveDenied(c) \/ LS!ClientTimeout(c)
               \/ \E m \in accepts : LS!ReceiveAccepted(c, m)
    BY <2>4 DEF LS!StrayPacket, LS!Leave, LS!ReceiveDenied, LS!ClientTimeout, LS!client
  <2>5. CASE UNCHANGED LS!vars
    BY <2>5 DEF LS!vars, LS!client, LS!network
  <2> QED
    BY <2>1, <2>2, <2>3, <2>4, <2>5 DEF LS!Next
<1> QED
  BY <1>1, <1>2, <1>3, <1>4, <1>5

(* No step takes its slot from a client that answers, but for a kick and   *)
(* for somebody who comes while all slots are taken.                       *)
LEMMA StepPlayersStay ==
  ASSUME LS!LimitsAreSound, Patient, LS!TypeOK, SessionsOver, [LS!Next]_(LS!vars),
         NEW s \in LS!Taken, LS!Answers(s), peers'[s] # peers[s]
  PROVE  \/ kicks' # kicks
         \/ LS!Taken = DOMAIN peers /\ peers'[s] # NoAddress
<1>0. s \in LS!Slots /\ DOMAIN peers = LS!Slots
  BY TakenSlots DEF LS!TypeOK
<1>1. CASE \E a \in LS!Addresses : LS!ReceiveLogin(a)
  <2>1. PICK a \in LS!Addresses, r \in LS!Slots : LS!Grant(a, r)
    BY <1>0, <1>1 DEF LS!ReceiveLogin, LS!Full, LS!Banned, LS!server
  <2>2. r = s /\ peers'[s] = a
    BY <1>0, <2>1 DEF LS!Grant, LS!TypeOK
  <2>3. LS!Taken = LS!Slots
    BY <2>1, <2>2 DEF LS!Grant, LS!Grantable, LS!IsFreeSlot
  <2> QED
    BY <1>0, <2>2, <2>3, AddressIsSomebody
<1>2. CASE \E r \in LS!Slots : LS!Kick(r)
  BY <1>2 DEF LS!Kick, LS!TypeOK
<1>3. CASE \E r \in LS!Slots : LS!Timeout(r)
  <2>1. PICK r \in LS!Slots : LS!Timeout(r)
    BY <1>3
  <2>2. r = s
    BY <1>0, <2>1 DEF LS!Timeout, LS!Disconnect, LS!TypeOK
  <2> QED
    BY <2>1, <2>2 DEF LS!Timeout, LS!Silent
<1>4. CASE \E m \in logouts : LS!ReceiveLogout(m)
  <2>1. PICK m \in logouts : LS!ReceiveLogout(m)
    BY <1>4
  <2>2. m.slot = s
    BY <1>0, <2>1 DEF LS!ReceiveLogout, LS!Disconnect, LS!TypeOK
  <2>3. m.from \in LS!Listening
    BY <2>1, <2>2 DEF LS!ReceiveLogout, LS!Answers, LS!Listening
  <2> QED
    BY <2>3 DEF SessionsOver
<1>5. CASE \E c \in Clients :
             \/ LS!StrayPacket(c)
             \/ LS!Connect(c) \/ LS!Leave(c) \/ LS!ReceiveDenied(c) \/ LS!ClientTimeout(c)
             \/ \E m \in accepts : LS!ReceiveAccepted(c, m)
  BY <1>5 DEF LS!StrayPacket, LS!Connect, LS!Leave, LS!ReceiveDenied, LS!ClientTimeout,
              LS!ReceiveAccepted, LS!GoStandalone, LS!server
<1>6. CASE UNCHANGED LS!vars
  BY <1>6 DEF LS!vars, LS!server
<1> QED
  BY <1>1, <1>2, <1>3, <1>4, <1>5, <1>6 DEF LS!Next

(* The same for one step, with the words of SlotLimits.                    *)
LEMMA StepStays ==
  ASSUME LS!LimitsAreSound, Patient
  PROVE  LS!TypeOK /\ SessionsOver /\ [LS!Next]_(LS!vars)
           => [\A s \in Taken :
                 Answers(s) /\ peers'[s] # peers[s]
                   => \/ kicks' # kicks
                      \/ Taken = DOMAIN peers /\ peers'[s] # NoAddress]_peers
<1>1. Taken = LS!Taken
  BY DEF Taken, LS!Taken
<1>2. \A s : Answers(s) <=> LS!Answers(s)
  BY DEF Answers, LS!Answers, Address, LS!Address
<1> QED
  BY <1>1, <1>2, StepPlayersStay

(* While waits time out only for peers that do not answer, a client that   *)
(* plays keeps its slot until it is kicked or a full server gives it away, *)
(* whatever arrives late from those who had the slot before, and for all   *)
(* clients, machines, limits and numbers of slots.                         *)
THEOREM WhoPlaysStays ==
  ASSUME LS!LimitsAreSound, Patient
  PROVE  LS!Spec => PlayersStay
<1>1. LS!Init => SessionsOver
  BY DEF LS!Init, SessionsOver
<1> QED
  BY <1>1, StepSessionsOver, StepStays, TypeCorrect, PTL DEF LS!Spec, PlayersStay
=============================================================================
