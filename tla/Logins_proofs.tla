--------------------------- MODULE Logins_proofs ----------------------------
(* Proofs about Logins and the hand-over of TaskQueue it builds on.  A         *)
(* background thread is what it still has to do; so the invariants are about   *)
(* which remainders of which programs there are, and about the locks that      *)
(* belong to each.                                                             *)
EXTENDS Logins, SequenceTheorems, FiniteSetTheorems, TLAPS

----------------------------------------------------------------------------
\* The remainders of the programs a thread of a login process can be given,
\* each named for its first step and what follows.

ToOnce == <<"once">>
ToAdd == <<"add", "once">>
ToOnceAdd == <<"once", "add", "once">>
ToAddTwice == <<"add", "once", "add", "once">>
ToOpenExit == <<"openExit">>
ToOpen == <<"openEntry", "openExit">>
ToQuery == <<"query", "openEntry", "openExit">>
ToOnceIn == <<"once", "openEntry", "openExit">>
ToAddIn == <<"add", "once", "openEntry", "openExit">>
EntryOpen == <<"entry", "openEntry", "openExit">>
ExitOpen == <<"exit", "entry", "openEntry", "openExit">>
ListOpen == <<"list", "exit", "entry", "openEntry", "openExit">>
EntryQuery == <<"entry", "query", "openEntry", "openExit">>
ExitQuery == <<"exit", "entry", "query", "openEntry", "openExit">>
ListQuery == <<"list", "exit", "entry", "query", "openEntry", "openExit">>
EntryAdd == <<"entry", "add", "once", "openEntry", "openExit">>
ExitAdd == <<"exit", "entry", "add", "once", "openEntry", "openExit">>
ListAdd == <<"list", "exit", "entry", "add", "once", "openEntry", "openExit">>
FailOnce == <<"once", "list", "exit", "entry", "openEntry", "openExit">>
FailAdd == <<"add", "once", "list", "exit", "entry", "openEntry", "openExit">>
ToCheck == <<"check", "list", "exit", "entry", "add", "once", "openEntry",
   "openExit">>
AbortOnce == <<"once", "check", "list", "exit", "entry", "add", "once",
   "openEntry", "openExit">>
AbortAdd == <<"add", "once", "check", "list", "exit", "entry", "add", "once",
   "openEntry", "openExit">>
ToFetch == <<"fetch">>
ToAuthorize == <<"authorize">>

\* Nothing left to do, and the first and the other steps of a remainder: names
\* for what the proofs need not look into.
Nothing == <<>>
First(r) == Head(r)
Later(r) == Tail(r)
\* A thread between the closing of its entry mutex and the opening.
Within == {ToOpen, ToQuery, ToOnceIn, ToAddIn}

\* A thread waiting for its entry mutex, for the exit mutex, for the list.
BeforeEntry == {EntryOpen, EntryQuery, EntryAdd}
BeforeExit == {ExitOpen, ExitQuery, ExitAdd}
BeforeList == {ListOpen, ListQuery, ListAdd}

Programs == {Nothing, ToOnce, ToAdd, ToOnceAdd, ToAddTwice, ToFetch, ToAuthorize,
             FailOnce, FailAdd, ToCheck, AbortOnce, AbortAdd, ToOpenExit}
            \cup BeforeList \cup BeforeExit \cup BeforeEntry \cup Within

\* A thread that holds the exit mutex of its process, and one that does not.
Holding == BeforeEntry \cup Within \cup {ToOpenExit}
Outside == Programs \ Holding

\* A thread that will ask the client, and one that has nothing to do but leave.
WillAsk == {ToFetch, ListQuery, ExitQuery, EntryQuery, ToQuery}
Resting == {Nothing, ToOpen, ToOpenExit}

Literals == {"add", "once", "list", "exit", "entry", "openEntry", "openExit",
             "fetch", "query", "authorize", "check"}

\* A sequence is its head followed by its tail.
LEMMA HeadAndTail ==
  ASSUME NEW S, NEW r \in Seq(S), r # <<>>
  PROVE  <<Head(r)>> \o Tail(r) = r
<1>1. Head(r) \in S /\ Tail(r) \in Seq(S) /\ Len(r) \in Nat \ {0}
  BY HeadTailProperties, EmptySeq
<1>2. <<Head(r)>> \in Seq(S)
  BY <1>1
<1>3. Head(r) = r[1] /\ Len(Tail(r)) = Len(r) - 1
      /\ \A i \in 1..Len(Tail(r)) : Tail(r)[i] = r[i + 1]
  BY HeadTailProperties
<1>4. Len(<<Head(r)>>) = 1 /\ <<Head(r)>>[1] = Head(r)
  OBVIOUS
<1>5. /\ <<Head(r)>> \o Tail(r) \in Seq(S)
      /\ Len(<<Head(r)>> \o Tail(r)) = 1 + Len(Tail(r))
      /\ \A i \in 1..1 + Len(Tail(r)) :
           (<<Head(r)>> \o Tail(r))[i] =
             IF i <= 1 THEN <<Head(r)>>[i] ELSE Tail(r)[i - 1]
  BY <1>1, <1>2, <1>4, ConcatProperties
<1> DEFINE c == <<Head(r)>> \o Tail(r)
           h == <<Head(r)>>
           t == Tail(r)
<1>7. h[1] = r[1]
  BY <1>3, <1>4
<1>8. /\ c \in Seq(S) /\ Len(c) = 1 + Len(t)
      /\ \A i \in 1..1 + Len(t) : c[i] = IF i <= 1 THEN h[i] ELSE t[i - 1]
  BY <1>5
<1>9. Len(t) = Len(r) - 1 /\ \A i \in 1..Len(t) : t[i] = r[i + 1]
  BY <1>3
<1>10. Len(r) \in Nat \ {0}
  BY <1>1
<1> HIDE DEF c, h, t
<1>6. ASSUME NEW i \in 1..Len(c) PROVE c[i] = r[i]
  <2>1. CASE i = 1
    BY <1>7, <1>8, <1>9, <1>10, <2>1
  <2>2. CASE i > 1
    BY <1>8, <1>9, <1>10, <2>2
  <2> QED
    BY <2>1, <2>2, <1>8, <1>9, <1>10
<1>11. c = r
  BY <1>6, <1>8, <1>9, <1>10, SeqEqual
<1> QED
  BY <1>11 DEF c

\* Two steps in front of a program are one step in front of another one.
LEMMA Unfold ==
  ASSUME NEW S, NEW t \in Seq(S), NEW a \in S, NEW b \in S
  PROVE  <<a, b>> \o t = <<a>> \o (<<b>> \o t)
<1>1. <<a>> \in Seq(S) /\ <<b>> \in Seq(S) /\ <<a, b>> \in Seq(S)
  OBVIOUS
<1>2. Head(<<a, b>>) = a /\ Tail(<<a, b>>) = <<b>> /\ <<a, b>> # <<>>
  OBVIOUS
<1>3. <<a>> \o <<b>> = <<a, b>>
  BY <1>1, <1>2, HeadAndTail
<1>4. (<<a>> \o <<b>>) \o t = <<a>> \o (<<b>> \o t)
  BY <1>1, ConcatAssociative
<1> QED
  BY <1>3, <1>4

\* The same for three steps.
LEMMA UnfoldThree ==
  ASSUME NEW S, NEW t \in Seq(S), NEW a \in S, NEW b \in S, NEW c \in S
  PROVE  <<a, b, c>> \o t = <<a>> \o (<<b>> \o (<<c>> \o t))
<1>1. <<a>> \in Seq(S) /\ <<b, c>> \in Seq(S) /\ <<a, b, c>> \in Seq(S)
  OBVIOUS
<1>2. Head(<<a, b, c>>) = a /\ Tail(<<a, b, c>>) = <<b, c>>
      /\ <<a, b, c>> # <<>>
  OBVIOUS
<1>3. <<a>> \o <<b, c>> = <<a, b, c>>
  BY <1>1, <1>2, HeadAndTail
<1>4. (<<a>> \o <<b, c>>) \o t = <<a>> \o (<<b, c>> \o t)
  BY <1>1, ConcatAssociative
<1>5. <<b, c>> \o t = <<b>> \o (<<c>> \o t)
  BY Unfold
<1> QED
  BY <1>3, <1>4, <1>5

\* A remainder r of a program, with its first step and what is left after it.
Begins(r, step, rest) ==
  /\ r \in Seq(Literals) /\ r # <<>>
  /\ Head(r) = step /\ Tail(r) = rest
  /\ <<step>> \o rest = r

\* What each remainder begins with, and what is left then.
LEMMA Remainders ==
  /\ Begins(ToOnce, "once", <<>>)
  /\ Begins(ToAdd, "add", ToOnce)
  /\ Begins(ToOnceAdd, "once", ToAdd)
  /\ Begins(ToAddTwice, "add", ToOnceAdd)
  /\ Begins(ToOpenExit, "openExit", <<>>)
  /\ Begins(ToOpen, "openEntry", ToOpenExit)
  /\ Begins(ToQuery, "query", ToOpen)
  /\ Begins(ToOnceIn, "once", ToOpen)
  /\ Begins(ToAddIn, "add", ToOnceIn)
  /\ Begins(EntryOpen, "entry", ToOpen)
  /\ Begins(ExitOpen, "exit", EntryOpen)
  /\ Begins(ListOpen, "list", ExitOpen)
  /\ Begins(EntryQuery, "entry", ToQuery)
  /\ Begins(ExitQuery, "exit", EntryQuery)
  /\ Begins(ListQuery, "list", ExitQuery)
  /\ Begins(EntryAdd, "entry", ToAddIn)
  /\ Begins(ExitAdd, "exit", EntryAdd)
  /\ Begins(ListAdd, "list", ExitAdd)
  /\ Begins(FailOnce, "once", ListOpen)
  /\ Begins(FailAdd, "add", FailOnce)
  /\ Begins(ToCheck, "check", ListAdd)
  /\ Begins(AbortOnce, "once", ToCheck)
  /\ Begins(AbortAdd, "add", AbortOnce)
  /\ Begins(ToFetch, "fetch", <<>>)
  /\ Begins(ToAuthorize, "authorize", <<>>)
<1>1. Begins(ToOnce, "once", <<>>)
  <2>1. ToOnce \in Seq(Literals)
    BY DEF Literals, ToOnce
  <2>2. ToOnce # <<>> /\ Head(ToOnce) = "once" /\ Tail(ToOnce) = <<>>
    BY DEF ToOnce
  <2> QED
    BY <2>1, <2>2, HeadAndTail DEF Begins
<1>2. Begins(ToAdd, "add", ToOnce)
  <2>1. ToAdd \in Seq(Literals)
    BY DEF Literals, ToAdd
  <2>2. ToAdd # <<>> /\ Head(ToAdd) = "add" /\ Tail(ToAdd) = ToOnce
    BY DEF ToAdd, ToOnce
  <2> QED
    BY <2>1, <2>2, HeadAndTail DEF Begins
<1>3. Begins(ToOnceAdd, "once", ToAdd)
  <2>1. ToOnceAdd \in Seq(Literals)
    BY DEF Literals, ToOnceAdd
  <2>2. ToOnceAdd # <<>> /\ Head(ToOnceAdd) = "once" /\ Tail(ToOnceAdd) = ToAdd
    BY DEF ToOnceAdd, ToAdd
  <2> QED
    BY <2>1, <2>2, HeadAndTail DEF Begins
<1>4. Begins(ToAddTwice, "add", ToOnceAdd)
  <2>1. ToAddTwice \in Seq(Literals)
    BY DEF Literals, ToAddTwice
  <2>2. ToAddTwice # <<>> /\ Head(ToAddTwice) = "add" /\ Tail(ToAddTwice) = ToOnceAdd
    BY DEF ToAddTwice, ToOnceAdd
  <2> QED
    BY <2>1, <2>2, HeadAndTail DEF Begins
<1>5. Begins(ToOpenExit, "openExit", <<>>)
  <2>1. ToOpenExit \in Seq(Literals)
    BY DEF Literals, ToOpenExit
  <2>2. ToOpenExit # <<>> /\ Head(ToOpenExit) = "openExit" /\ Tail(ToOpenExit) = <<>>
    BY DEF ToOpenExit
  <2> QED
    BY <2>1, <2>2, HeadAndTail DEF Begins
<1>6. Begins(ToOpen, "openEntry", ToOpenExit)
  <2>1. ToOpen \in Seq(Literals)
    BY DEF Literals, ToOpen
  <2>2. ToOpen # <<>> /\ Head(ToOpen) = "openEntry" /\ Tail(ToOpen) = ToOpenExit
    BY DEF ToOpen, ToOpenExit
  <2> QED
    BY <2>1, <2>2, HeadAndTail DEF Begins
<1>7. Begins(ToQuery, "query", ToOpen)
  <2>1. ToQuery \in Seq(Literals)
    BY DEF Literals, ToQuery
  <2>2. ToQuery # <<>> /\ Head(ToQuery) = "query" /\ Tail(ToQuery) = ToOpen
    BY DEF ToQuery, ToOpen
  <2> QED
    BY <2>1, <2>2, HeadAndTail DEF Begins
<1>8. Begins(ToOnceIn, "once", ToOpen)
  <2>1. ToOnceIn \in Seq(Literals)
    BY DEF Literals, ToOnceIn
  <2>2. ToOnceIn # <<>> /\ Head(ToOnceIn) = "once" /\ Tail(ToOnceIn) = ToOpen
    BY DEF ToOnceIn, ToOpen
  <2> QED
    BY <2>1, <2>2, HeadAndTail DEF Begins
<1>9. Begins(ToAddIn, "add", ToOnceIn)
  <2>1. ToAddIn \in Seq(Literals)
    BY DEF Literals, ToAddIn
  <2>2. ToAddIn # <<>> /\ Head(ToAddIn) = "add" /\ Tail(ToAddIn) = ToOnceIn
    BY DEF ToAddIn, ToOnceIn
  <2> QED
    BY <2>1, <2>2, HeadAndTail DEF Begins
<1>10. Begins(EntryOpen, "entry", ToOpen)
  <2>1. EntryOpen \in Seq(Literals)
    BY DEF Literals, EntryOpen
  <2>2. EntryOpen # <<>> /\ Head(EntryOpen) = "entry" /\ Tail(EntryOpen) = ToOpen
    BY DEF EntryOpen, ToOpen
  <2> QED
    BY <2>1, <2>2, HeadAndTail DEF Begins
<1>11. Begins(ExitOpen, "exit", EntryOpen)
  <2>1. ExitOpen \in Seq(Literals)
    BY DEF Literals, ExitOpen
  <2>2. ExitOpen # <<>> /\ Head(ExitOpen) = "exit" /\ Tail(ExitOpen) = EntryOpen
    BY DEF ExitOpen, EntryOpen
  <2> QED
    BY <2>1, <2>2, HeadAndTail DEF Begins
<1>12. Begins(ListOpen, "list", ExitOpen)
  <2>1. ListOpen \in Seq(Literals)
    BY DEF Literals, ListOpen
  <2>2. ListOpen # <<>> /\ Head(ListOpen) = "list" /\ Tail(ListOpen) = ExitOpen
    BY DEF ListOpen, ExitOpen
  <2> QED
    BY <2>1, <2>2, HeadAndTail DEF Begins
<1>13. Begins(EntryQuery, "entry", ToQuery)
  <2>1. EntryQuery \in Seq(Literals)
    BY DEF Literals, EntryQuery
  <2>2. EntryQuery # <<>> /\ Head(EntryQuery) = "entry" /\ Tail(EntryQuery) = ToQuery
    BY DEF EntryQuery, ToQuery
  <2> QED
    BY <2>1, <2>2, HeadAndTail DEF Begins
<1>14. Begins(ExitQuery, "exit", EntryQuery)
  <2>1. ExitQuery \in Seq(Literals)
    BY DEF Literals, ExitQuery
  <2>2. ExitQuery # <<>> /\ Head(ExitQuery) = "exit" /\ Tail(ExitQuery) = EntryQuery
    BY DEF ExitQuery, EntryQuery
  <2> QED
    BY <2>1, <2>2, HeadAndTail DEF Begins
<1>15. Begins(ListQuery, "list", ExitQuery)
  <2>1. ListQuery \in Seq(Literals)
    BY DEF Literals, ListQuery
  <2>2. ListQuery # <<>> /\ Head(ListQuery) = "list" /\ Tail(ListQuery) = ExitQuery
    BY DEF ListQuery, ExitQuery
  <2> QED
    BY <2>1, <2>2, HeadAndTail DEF Begins
<1>16. Begins(EntryAdd, "entry", ToAddIn)
  <2>1. EntryAdd \in Seq(Literals)
    BY DEF Literals, EntryAdd
  <2>2. EntryAdd # <<>> /\ Head(EntryAdd) = "entry" /\ Tail(EntryAdd) = ToAddIn
    BY DEF EntryAdd, ToAddIn
  <2> QED
    BY <2>1, <2>2, HeadAndTail DEF Begins
<1>17. Begins(ExitAdd, "exit", EntryAdd)
  <2>1. ExitAdd \in Seq(Literals)
    BY DEF Literals, ExitAdd
  <2>2. ExitAdd # <<>> /\ Head(ExitAdd) = "exit" /\ Tail(ExitAdd) = EntryAdd
    BY DEF ExitAdd, EntryAdd
  <2> QED
    BY <2>1, <2>2, HeadAndTail DEF Begins
<1>18. Begins(ListAdd, "list", ExitAdd)
  <2>1. ListAdd \in Seq(Literals)
    BY DEF Literals, ListAdd
  <2>2. ListAdd # <<>> /\ Head(ListAdd) = "list" /\ Tail(ListAdd) = ExitAdd
    BY DEF ListAdd, ExitAdd
  <2> QED
    BY <2>1, <2>2, HeadAndTail DEF Begins
<1>19. Begins(FailOnce, "once", ListOpen)
  <2>1. FailOnce \in Seq(Literals)
    BY DEF Literals, FailOnce
  <2>2. FailOnce # <<>> /\ Head(FailOnce) = "once" /\ Tail(FailOnce) = ListOpen
    BY DEF FailOnce, ListOpen
  <2> QED
    BY <2>1, <2>2, HeadAndTail DEF Begins
<1>20. Begins(FailAdd, "add", FailOnce)
  <2>1. FailAdd \in Seq(Literals)
    BY DEF Literals, FailAdd
  <2>2. FailAdd # <<>> /\ Head(FailAdd) = "add" /\ Tail(FailAdd) = FailOnce
    BY DEF FailAdd, FailOnce
  <2> QED
    BY <2>1, <2>2, HeadAndTail DEF Begins
<1>21. Begins(ToCheck, "check", ListAdd)
  <2>1. ToCheck \in Seq(Literals)
    BY DEF Literals, ToCheck
  <2>2. ToCheck # <<>> /\ Head(ToCheck) = "check" /\ Tail(ToCheck) = ListAdd
    BY DEF ToCheck, ListAdd
  <2> QED
    BY <2>1, <2>2, HeadAndTail DEF Begins
<1>22. Begins(AbortOnce, "once", ToCheck)
  <2>1. AbortOnce \in Seq(Literals)
    BY DEF Literals, AbortOnce
  <2>2. AbortOnce # <<>> /\ Head(AbortOnce) = "once" /\ Tail(AbortOnce) = ToCheck
    BY DEF AbortOnce, ToCheck
  <2> QED
    BY <2>1, <2>2, HeadAndTail DEF Begins
<1>23. Begins(AbortAdd, "add", AbortOnce)
  <2>1. AbortAdd \in Seq(Literals)
    BY DEF Literals, AbortAdd
  <2>2. AbortAdd # <<>> /\ Head(AbortAdd) = "add" /\ Tail(AbortAdd) = AbortOnce
    BY DEF AbortAdd, AbortOnce
  <2> QED
    BY <2>1, <2>2, HeadAndTail DEF Begins
<1>24. Begins(ToFetch, "fetch", <<>>)
  <2>1. ToFetch \in Seq(Literals)
    BY DEF Literals, ToFetch
  <2>2. ToFetch # <<>> /\ Head(ToFetch) = "fetch" /\ Tail(ToFetch) = <<>>
    BY DEF ToFetch
  <2> QED
    BY <2>1, <2>2, HeadAndTail DEF Begins
<1>25. Begins(ToAuthorize, "authorize", <<>>)
  <2>1. ToAuthorize \in Seq(Literals)
    BY DEF Literals, ToAuthorize
  <2>2. ToAuthorize # <<>> /\ Head(ToAuthorize) = "authorize" /\ Tail(ToAuthorize) = <<>>
    BY DEF ToAuthorize
  <2> QED
    BY <2>1, <2>2, HeadAndTail DEF Begins
<1> QED
  BY <1>1, <1>2, <1>3, <1>4, <1>5, <1>6, <1>7, <1>8, <1>9, <1>10, <1>11,
     <1>12, <1>13, <1>14, <1>15, <1>16, <1>17, <1>18, <1>19, <1>20, <1>21,
     <1>22, <1>23, <1>24, <1>25

\* The programs the code gives to threads.
LEMMA Given ==
  /\ Reports = ToAdd
  /\ Schedules = ToAdd
  /\ <<>> \o Reports = ToAdd
  /\ Schedules \o Reports = ToAddTwice
  /\ Reports \o Enters \o Leaves = FailAdd
  /\ Enters \o <<"query">> \o Leaves = ListQuery
  /\ <<>> \o (<<"check">> \o Enters \o Schedules \o Leaves) = ToCheck
  /\ Schedules \o (<<"check">> \o Enters \o Schedules \o Leaves) = AbortAdd
<1>1. Schedules = ToAdd /\ Reports = ToAdd /\ Leaves = ToOpen
  BY DEF Schedules, Reports, Leaves, ToAdd, ToOpen
<1>2. /\ Schedules \in Seq(Literals) /\ Enters \in Seq(Literals)
      /\ <<"query">> \in Seq(Literals) /\ <<"check">> \in Seq(Literals)
  BY DEF Schedules, Enters, Literals
<1>3. ASSUME NEW t, NEW u, NEW r, t \in Seq(Literals),
             Begins(u, "once", t), Begins(r, "add", u)
      PROVE  Schedules \o t = r
  <2>1. "add" \in Literals /\ "once" \in Literals
    BY DEF Literals
  <2>2. <<"add", "once">> \o t = <<"add">> \o (<<"once">> \o t)
    BY <1>3, <2>1, Unfold
  <2> QED
    BY <1>3, <2>2 DEF Begins, Schedules
<1>4. ASSUME NEW t, NEW u, NEW v, NEW r, t \in Seq(Literals),
             Begins(u, "entry", t), Begins(v, "exit", u), Begins(r, "list", v)
      PROVE  Enters \o t = r
  <2>1. "list" \in Literals /\ "exit" \in Literals /\ "entry" \in Literals
    BY DEF Literals
  <2>2. <<"list", "exit", "entry">> \o t
          = <<"list">> \o (<<"exit">> \o (<<"entry">> \o t))
    BY <1>4, <2>1, UnfoldThree
  <2> QED
    BY <1>4, <2>2 DEF Begins, Enters
<1>5. /\ ToAdd \in Seq(Literals) /\ ToOpen \in Seq(Literals)
      /\ ListOpen \in Seq(Literals) /\ ToQuery \in Seq(Literals)
      /\ ToAddIn \in Seq(Literals) /\ ToCheck \in Seq(Literals)
      /\ <<"query">> \o ToOpen = ToQuery
      /\ <<"check">> \o ListAdd = ToCheck
  BY Remainders DEF Begins
<1>6. Enters \o Leaves = ListOpen
  BY <1>1, <1>4, <1>5, Remainders
<1>7. Enters \o ToQuery = ListQuery
  BY <1>4, <1>5, Remainders
<1>8. Enters \o ToAddIn = ListAdd
  BY <1>4, <1>5, Remainders
<1>9. Schedules \o Reports = ToAddTwice
  BY <1>1, <1>3, <1>5, Remainders
<1>10. Schedules \o ListOpen = FailAdd
  BY <1>3, <1>5, Remainders
<1>11. Schedules \o Leaves = ToAddIn
  BY <1>1, <1>3, <1>5, Remainders
<1>12. Schedules \o ToCheck = AbortAdd
  BY <1>3, <1>5, Remainders
<1>13. Reports \o Enters \o Leaves = FailAdd
  <2>1. Leaves \in Seq(Literals)
    BY <1>1, <1>5
  <2>2. (Schedules \o Enters) \o Leaves = Schedules \o (Enters \o Leaves)
    BY <1>2, <2>1, ConcatAssociative
  <2> QED
    BY <1>1, <1>6, <1>10, <2>2
<1>14. Enters \o <<"query">> \o Leaves = ListQuery
  <2>1. Leaves \in Seq(Literals)
    BY <1>1, <1>5
  <2>2. (Enters \o <<"query">>) \o Leaves = Enters \o (<<"query">> \o Leaves)
    BY <1>2, <2>1, ConcatAssociative
  <2> QED
    BY <1>1, <1>5, <1>7, <2>2
<1>15. <<"check">> \o Enters \o Schedules \o Leaves = ToCheck
  <2>1. Leaves \in Seq(Literals) /\ ToAddIn \in Seq(Literals)
    BY <1>1, <1>5
  <2>2. <<"check">> \o Enters \in Seq(Literals)
    <3> DEFINE c == <<"check">>
    <3>1. c \in Seq(Literals)
      BY <1>2
    <3> HIDE DEF c
    <3>2. c \o Enters \in Seq(Literals)
      BY <3>1, <1>2, ConcatProperties
    <3> QED
      BY <3>2 DEF c
  <2>3. ((<<"check">> \o Enters) \o Schedules) \o Leaves
          = (<<"check">> \o Enters) \o (Schedules \o Leaves)
    <3> DEFINE c == <<"check">> \o Enters
    <3>1. c \in Seq(Literals)
      BY <2>2
    <3> HIDE DEF c
    <3>2. Schedules \in Seq(Literals) /\ Leaves \in Seq(Literals)
      BY <1>2, <2>1
    <3>3. (c \o Schedules) \o Leaves = c \o (Schedules \o Leaves)
      BY <3>1, <3>2, ConcatAssociative
    <3> QED
      BY <3>3 DEF c
  <2>4. (<<"check">> \o Enters) \o ToAddIn = <<"check">> \o (Enters \o ToAddIn)
    <3> DEFINE c == <<"check">>
    <3>1. c \in Seq(Literals)
      BY <1>2
    <3> HIDE DEF c
    <3>2. Enters \in Seq(Literals) /\ ToAddIn \in Seq(Literals)
      BY <1>2, <2>1
    <3>3. (c \o Enters) \o ToAddIn = c \o (Enters \o ToAddIn)
      BY <3>1, <3>2, ConcatAssociative
    <3> QED
      BY <3>3 DEF c
  <2> QED
    BY <1>5, <1>8, <1>11, <2>3, <2>4
<1>16. <<>> \o ToAdd = ToAdd /\ <<>> \o ToCheck = ToCheck
  BY <1>5, ConcatEmptySeq
<1> QED
  BY <1>1, <1>9, <1>12, <1>13, <1>14, <1>15, <1>16

\* The remainders by their first step.
LEMMA Shapes ==
  /\ ToOnce # Nothing /\ First(ToOnce) = "once" /\ Later(ToOnce) = Nothing
  /\ ToAdd # Nothing /\ First(ToAdd) = "add" /\ Later(ToAdd) = ToOnce
  /\ ToOnceAdd # Nothing /\ First(ToOnceAdd) = "once" /\ Later(ToOnceAdd) = ToAdd
  /\ ToAddTwice # Nothing /\ First(ToAddTwice) = "add" /\ Later(ToAddTwice) = ToOnceAdd
  /\ ToOpenExit # Nothing /\ First(ToOpenExit) = "openExit" /\ Later(ToOpenExit) = Nothing
  /\ ToOpen # Nothing /\ First(ToOpen) = "openEntry" /\ Later(ToOpen) = ToOpenExit
  /\ ToQuery # Nothing /\ First(ToQuery) = "query" /\ Later(ToQuery) = ToOpen
  /\ ToOnceIn # Nothing /\ First(ToOnceIn) = "once" /\ Later(ToOnceIn) = ToOpen
  /\ ToAddIn # Nothing /\ First(ToAddIn) = "add" /\ Later(ToAddIn) = ToOnceIn
  /\ EntryOpen # Nothing /\ First(EntryOpen) = "entry" /\ Later(EntryOpen) = ToOpen
  /\ ExitOpen # Nothing /\ First(ExitOpen) = "exit" /\ Later(ExitOpen) = EntryOpen
  /\ ListOpen # Nothing /\ First(ListOpen) = "list" /\ Later(ListOpen) = ExitOpen
  /\ EntryQuery # Nothing /\ First(EntryQuery) = "entry" /\ Later(EntryQuery) = ToQuery
  /\ ExitQuery # Nothing /\ First(ExitQuery) = "exit" /\ Later(ExitQuery) = EntryQuery
  /\ ListQuery # Nothing /\ First(ListQuery) = "list" /\ Later(ListQuery) = ExitQuery
  /\ EntryAdd # Nothing /\ First(EntryAdd) = "entry" /\ Later(EntryAdd) = ToAddIn
  /\ ExitAdd # Nothing /\ First(ExitAdd) = "exit" /\ Later(ExitAdd) = EntryAdd
  /\ ListAdd # Nothing /\ First(ListAdd) = "list" /\ Later(ListAdd) = ExitAdd
  /\ FailOnce # Nothing /\ First(FailOnce) = "once" /\ Later(FailOnce) = ListOpen
  /\ FailAdd # Nothing /\ First(FailAdd) = "add" /\ Later(FailAdd) = FailOnce
  /\ ToCheck # Nothing /\ First(ToCheck) = "check" /\ Later(ToCheck) = ListAdd
  /\ AbortOnce # Nothing /\ First(AbortOnce) = "once" /\ Later(AbortOnce) = ToCheck
  /\ AbortAdd # Nothing /\ First(AbortAdd) = "add" /\ Later(AbortAdd) = AbortOnce
  /\ ToFetch # Nothing /\ First(ToFetch) = "fetch" /\ Later(ToFetch) = Nothing
  /\ ToAuthorize # Nothing /\ First(ToAuthorize) = "authorize" /\ Later(ToAuthorize) = Nothing
  BY Remainders DEF Begins, Nothing, First, Later

LEMMA ByFirstStep ==
  ASSUME NEW r \in Programs, r # Nothing
  PROVE  /\ First(r) = "once" => r \in {ToOnce, ToOnceAdd, ToOnceIn, FailOnce, AbortOnce}
         /\ First(r) = "add" => r \in {ToAdd, ToAddTwice, ToAddIn, FailAdd, AbortAdd}
         /\ First(r) = "openExit" => r \in {ToOpenExit}
         /\ First(r) = "openEntry" => r \in {ToOpen}
         /\ First(r) = "query" => r \in {ToQuery}
         /\ First(r) = "entry" => r \in {EntryOpen, EntryQuery, EntryAdd}
         /\ First(r) = "exit" => r \in {ExitOpen, ExitQuery, ExitAdd}
         /\ First(r) = "list" => r \in {ListOpen, ListQuery, ListAdd}
         /\ First(r) = "check" => r \in {ToCheck}
         /\ First(r) = "fetch" => r \in {ToFetch}
         /\ First(r) = "authorize" => r \in {ToAuthorize}
<1>1. First(r) = "once" => r \in {ToOnce, ToOnceAdd, ToOnceIn, FailOnce, AbortOnce}
  BY Shapes DEF Programs, Within, BeforeEntry, BeforeExit, BeforeList
<1>2. First(r) = "add" => r \in {ToAdd, ToAddTwice, ToAddIn, FailAdd, AbortAdd}
  BY Shapes DEF Programs, Within, BeforeEntry, BeforeExit, BeforeList
<1>3. First(r) = "openExit" => r \in {ToOpenExit}
  BY Shapes DEF Programs, Within, BeforeEntry, BeforeExit, BeforeList
<1>4. First(r) = "openEntry" => r \in {ToOpen}
  BY Shapes DEF Programs, Within, BeforeEntry, BeforeExit, BeforeList
<1>5. First(r) = "query" => r \in {ToQuery}
  BY Shapes DEF Programs, Within, BeforeEntry, BeforeExit, BeforeList
<1>6. First(r) = "entry" => r \in {EntryOpen, EntryQuery, EntryAdd}
  BY Shapes DEF Programs, Within, BeforeEntry, BeforeExit, BeforeList
<1>7. First(r) = "exit" => r \in {ExitOpen, ExitQuery, ExitAdd}
  BY Shapes DEF Programs, Within, BeforeEntry, BeforeExit, BeforeList
<1>8. First(r) = "list" => r \in {ListOpen, ListQuery, ListAdd}
  BY Shapes DEF Programs, Within, BeforeEntry, BeforeExit, BeforeList
<1>9. First(r) = "check" => r \in {ToCheck}
  BY Shapes DEF Programs, Within, BeforeEntry, BeforeExit, BeforeList
<1>10. First(r) = "fetch" => r \in {ToFetch}
  BY Shapes DEF Programs, Within, BeforeEntry, BeforeExit, BeforeList
<1>11. First(r) = "authorize" => r \in {ToAuthorize}
  BY Shapes DEF Programs, Within, BeforeEntry, BeforeExit, BeforeList
<1> QED
  BY <1>1, <1>2, <1>3, <1>4, <1>5, <1>6, <1>7, <1>8, <1>9, <1>10, <1>11

\* Which remainders a step can be taken from, and where it leads.
LEMMA Moves ==
  ASSUME NEW r \in Programs, r # Nothing
  PROVE  /\ First(r) \in {"add", "once"} =>
              /\ \/ r \in Outside /\ Later(r) \in Outside
                 \/ r \in Within /\ Later(r) \in Within
              /\ r \notin Resting /\ Later(r) \notin WillAsk
              /\ r \notin WillAsk
         /\ First(r) = "list" => r \in BeforeList /\ Later(r) \in BeforeExit
         /\ First(r) = "exit" => r \in BeforeExit /\ Later(r) \in BeforeEntry
         /\ First(r) = "entry" => r \in BeforeEntry /\ Later(r) \in Within
         /\ First(r) \in {"list", "exit", "entry"} =>
              /\ r \notin Resting
              /\ Later(r) \in WillAsk => r \in WillAsk
         /\ First(r) = "openEntry" => r = ToOpen /\ Later(r) = ToOpenExit
         /\ First(r) = "openExit" => r = ToOpenExit /\ Later(r) = Nothing
         /\ First(r) = "query" => r = ToQuery /\ Later(r) = ToOpen
         /\ First(r) = "check" => r = ToCheck /\ Later(r) = ListAdd
         /\ First(r) = "fetch" => r = ToFetch
         /\ First(r) = "authorize" => r = ToAuthorize
<1> USE Shapes, ByFirstStep DEF Programs, Outside, Holding, Within, BeforeEntry,
        BeforeExit, BeforeList, WillAsk, Resting
<1>2. First(r) \in {"add", "once"} =>
        /\ \/ r \in Outside /\ Later(r) \in Outside
           \/ r \in Within /\ Later(r) \in Within
        /\ r \notin Resting /\ Later(r) \notin WillAsk /\ r \notin WillAsk
  OBVIOUS
<1>3. /\ First(r) = "list" => r \in BeforeList /\ Later(r) \in BeforeExit
      /\ First(r) = "exit" => r \in BeforeExit /\ Later(r) \in BeforeEntry
      /\ First(r) = "entry" => r \in BeforeEntry /\ Later(r) \in Within
  OBVIOUS
<1>4. First(r) \in {"list", "exit", "entry"} =>
        /\ r \notin Resting
        /\ Later(r) \in WillAsk => r \in WillAsk
  OBVIOUS
<1>5. /\ First(r) = "openEntry" => r = ToOpen /\ Later(r) = ToOpenExit
      /\ First(r) = "openExit" => r = ToOpenExit /\ Later(r) = Nothing
      /\ First(r) = "query" => r = ToQuery /\ Later(r) = ToOpen
      /\ First(r) = "check" => r = ToCheck /\ Later(r) = ListAdd
      /\ First(r) = "fetch" => r = ToFetch
      /\ First(r) = "authorize" => r = ToAuthorize
  OBVIOUS
<1> QED
  BY <1>2, <1>3, <1>4, <1>5

\* The kinds of remainders exclude each other.
LEMMA Kept ==
  /\ Outside \cap Holding = {}
  /\ Within \cap BeforeEntry = {} /\ ToOpenExit \notin Within \cup BeforeEntry
  /\ ToFetch \in Outside /\ ToAuthorize \in Outside /\ Nothing \in Outside
  /\ {ToAdd, ToAddTwice, FailAdd, ListQuery, ToCheck, AbortAdd} \subseteq Outside
  /\ {ToAdd, ToAddTwice, FailAdd, ToCheck, AbortAdd, ToAuthorize} \cap WillAsk = {}
  /\ WillAsk \cap Resting = {} /\ Nothing # ToFetch /\ Nothing # ToAuthorize
  /\ ToAuthorize \notin Resting
  /\ Within \subseteq Holding /\ BeforeEntry \subseteq Holding /\ ToOpenExit \in Holding
  /\ BeforeExit \subseteq Outside /\ BeforeList \subseteq Outside
<1>2. Outside \cap Holding = {}
  BY DEF Outside
<1>4. /\ Within \subseteq Holding /\ BeforeEntry \subseteq Holding
      /\ ToOpenExit \in Holding
  BY DEF Holding
<1>3. ASSUME NEW r \in BeforeEntry
      PROVE  r # Nothing /\ First(r) = "entry"
  BY Shapes DEF BeforeEntry
<1>5. ASSUME NEW r \in Within
      PROVE  /\ r # Nothing /\ First(r) \in {"query", "openEntry", "add", "once"}
             /\ First(r) = "add" => Later(r) = ToOnceIn
             /\ First(r) = "once" => Later(r) = ToOpen
  BY Shapes DEF Within
<1>6. ToOpenExit # Nothing /\ First(ToOpenExit) = "openExit"
  BY Shapes
<1>7. ASSUME NEW r \in Holding
      PROVE  /\ r # Nothing
             /\ First(r) \in {"entry", "query", "openEntry", "openExit", "add", "once"}
             /\ First(r) = "add" => Later(r) = ToOnceIn
             /\ First(r) = "once" => Later(r) = ToOpen
  BY <1>3, <1>5, <1>6 DEF Holding
<1>8. ASSUME NEW r \in BeforeExit \cup BeforeList \cup {ToFetch, ToAuthorize, ToCheck}
      PROVE  /\ r # Nothing /\ r \in Programs
             /\ First(r) \in {"exit", "list", "fetch", "authorize", "check"}
  BY Shapes DEF BeforeExit, BeforeList, Programs
<1>9. ASSUME NEW r \in {ToAdd, ToAddTwice, FailAdd, AbortAdd}
      PROVE  r # Nothing /\ r \in Programs /\ First(r) = "add" /\ Later(r) # ToOnceIn
  BY Shapes DEF Programs
<1>10. Nothing \in Programs
  BY DEF Programs
<1>11. \A r \in BeforeExit \cup BeforeList \cup {ToFetch, ToAuthorize, ToCheck} :
         r \in Outside
  BY <1>7, <1>8 DEF Outside
<1>12. \A r \in {ToAdd, ToAddTwice, FailAdd, AbortAdd, Nothing} : r \in Outside
  BY <1>7, <1>9, <1>10 DEF Outside
<1>13. Within \cap BeforeEntry = {} /\ ToOpenExit \notin Within \cup BeforeEntry
  BY <1>3, <1>5, <1>6
<1>14. ListQuery \in BeforeList
  BY DEF BeforeList
<1>15. {ToAdd, ToAddTwice, FailAdd, ToCheck, AbortAdd, ToAuthorize} \cap WillAsk = {}
  BY Shapes DEF WillAsk
<1>16. WillAsk \cap Resting = {}
  BY Shapes DEF WillAsk, Resting
<1>17. Nothing # ToFetch /\ Nothing # ToAuthorize /\ ToAuthorize \notin Resting
  BY Shapes DEF Resting
<1> QED
  BY <1>2, <1>4, <1>11, <1>12, <1>13, <1>14, <1>15, <1>16, <1>17

\* Every remainder consists of steps.
LEMMA ProgramsAreSteps == Programs \subseteq Seq(Steps)
<1>1. Literals = Steps
  BY WorkAssumption DEF Literals, Steps
<1>2. \A q, step, rest : Begins(q, step, rest) => q \in Seq(Literals)
  BY DEF Begins
<1>3. Nothing \in Seq(Literals)
  BY DEF Nothing
<1> QED
  BY <1>1, <1>2, <1>3, Remainders
  DEF Programs, Within, BeforeEntry, BeforeExit, BeforeList

----------------------------------------------------------------------------
\* The locks.

\* A thread holds the exit mutex of its process from the time it has put its
\* event on the list, and no two threads do; the main thread holds it only to
\* close the entry.
ExitHeld ==
  /\ \A t \in Threads : thread[t] \in Holding => exit[t[1]] = "thread"
  /\ \A t, u \in Threads :
       thread[t] \in Holding /\ thread[u] \in Holding /\ t[1] = u[1] => t = u
  /\ \A p \in Jobs : exit[p] = "main" => main = "entry" /\ syncing = p
  /\ main = "entry" => exit[syncing] = "main"

\* The entry is open or taken only while the main thread is in Sync for it, and
\* taken by a thread that is inside; a thread that has been inside leaves before
\* the main thread goes on.
EntryHeld ==
  /\ main \in {"exit", "entry"} => syncing \in Jobs
  /\ \A p \in Jobs :
       entry[p] = "nobody" => main \in {"exit", "entry"} /\ syncing = p
  /\ \A p \in Jobs :
       entry[p] = "thread" => \E t \in Threads : t[1] = p /\ thread[t] \in Within
  /\ \A t \in Threads : thread[t] \in Within => entry[t[1]] = "thread"
  /\ \A t \in Threads : thread[t] \in Within \cup {ToOpenExit}
                          => main = "exit" /\ syncing = t[1]

Locks ==
  /\ thread \in [Threads -> Programs]
  /\ ExitHeld
  /\ EntryHeld

\* The types of the variables the locks are about.
LockTypes ==
  /\ entry \in [Jobs -> Holders]
  /\ exit \in [Jobs -> Holders]
  /\ events \in Seq(Jobs)

LEMMA ThreadPairs == \A t \in Threads : t[1] \in Jobs /\ t[2] \in Slots
  BY DEF Threads

\* What a step of a thread leaves it with.
LEMMA Takes ==
  ASSUME thread \in [Threads -> Programs], NEW t \in Threads, NEW step, At(t, step)
  PROVE  /\ thread[t] \in Programs
         /\ thread[t] # Nothing /\ First(thread[t]) = step
         /\ Goes(t) => thread' = [thread EXCEPT ![t] = Later(thread[t])]
  BY DEF At, Goes, Nothing, First, Later

\* Threads that stay outside, or inside, and main steps outside of Sync do not
\* matter.
LEMMA LocksKept ==
  ASSUME Locks,
         thread' \in [Threads -> Programs],
         UNCHANGED <<syncing, entry, exit>>,
         \/ main' = main
         \/ main \notin {"exit", "entry"} /\ main' \notin {"exit", "entry"},
         \A t \in Threads : \/ thread'[t] = thread[t]
                            \/ thread[t] \in Outside /\ thread'[t] \in Outside
                            \/ thread[t] \in Within /\ thread'[t] \in Within
  PROVE  Locks'
<1> USE DEF Locks
<1>1. ExitHeld'
  BY Kept, ThreadPairs DEF ExitHeld, EntryHeld
<1>2. EntryHeld'
  BY Kept, ThreadPairs DEF ExitHeld, EntryHeld
<1> QED
  BY <1>1, <1>2

\* The same for one thread that goes on.
LEMMA LocksKeptByStep ==
  ASSUME Locks, NEW t \in Threads, NEW r \in Programs,
         thread' = [thread EXCEPT ![t] = r],
         UNCHANGED <<syncing, entry, exit, main>>,
         \/ thread[t] \in Outside /\ r \in Outside
         \/ thread[t] \in Within /\ r \in Within
  PROVE  Locks'
<1>1. thread' \in [Threads -> Programs]
  BY DEF Locks
<1>2. \A u \in Threads : \/ thread'[u] = thread[u]
                         \/ thread[u] \in Outside /\ thread'[u] \in Outside
                         \/ thread[u] \in Within /\ thread'[u] \in Within
  BY DEF Locks
<1> QED
  BY <1>1, <1>2, LocksKept

LEMMA TakeListLocks ==
  ASSUME Locks, NEW t \in Threads, TakeList(t)
  PROVE  Locks'
<1>1. /\ thread[t] \in Programs /\ thread[t] # Nothing /\ First(thread[t]) = "list"
      /\ thread' = [thread EXCEPT ![t] = Later(thread[t])]
  BY Takes DEF TakeList, Locks
<1>2. thread[t] \in BeforeList /\ Later(thread[t]) \in BeforeExit
  BY <1>1, Moves
<1>3. Later(thread[t]) \in Programs
  BY <1>2, Kept DEF Outside
<1> QED
  BY <1>1, <1>2, <1>3, Kept, LocksKeptByStep DEF TakeList

LEMMA TakeExitLocks ==
  ASSUME Locks, LockTypes, NEW t \in Threads, TakeExit(t)
  PROVE  Locks'
<1>1. /\ thread[t] \in Programs /\ thread[t] # Nothing /\ First(thread[t]) = "exit"
      /\ thread' = [thread EXCEPT ![t] = Later(thread[t])]
  BY Takes DEF TakeExit, Locks
<1>2. /\ thread[t] \in Outside /\ thread[t] \notin Holding
      /\ Later(thread[t]) \in Holding
      /\ Later(thread[t]) \notin Within \cup {ToOpenExit}
  BY <1>1, Moves, Kept
<1>3. thread' \in [Threads -> Programs]
  BY <1>1, <1>2 DEF Locks, Holding, Programs
<1>4. /\ exit[t[1]] = "nobody" /\ exit' = [exit EXCEPT ![t[1]] = "thread"]
      /\ UNCHANGED <<main, syncing, entry>>
  BY DEF TakeExit
<1>5. \A u \in Threads : u # t => thread'[u] = thread[u]
  BY <1>1 DEF Locks
<1>6. thread'[t] = Later(thread[t])
  BY <1>1 DEF Locks
<1>7. ExitHeld'
  BY <1>2, <1>4, <1>5, <1>6, ThreadPairs DEF Locks, ExitHeld, LockTypes, EntryHeld
<1>8. EntryHeld'
  BY <1>2, <1>4, <1>5, <1>6, ThreadPairs, Kept DEF Locks, EntryHeld
<1> QED
  BY <1>3, <1>7, <1>8 DEF Locks

LEMMA TakeEntryLocks ==
  ASSUME Locks, LockTypes, NEW t \in Threads, TakeEntry(t)
  PROVE  Locks'
<1>1. /\ thread[t] \in Programs /\ thread[t] # Nothing /\ First(thread[t]) = "entry"
      /\ thread' = [thread EXCEPT ![t] = Later(thread[t])]
  BY Takes DEF TakeEntry, Locks
<1>2. /\ thread[t] \in Holding /\ thread[t] \notin Within
      /\ Later(thread[t]) \in Within /\ Later(thread[t]) \in Holding
  BY <1>1, Moves, Kept
<1>3. thread' \in [Threads -> Programs]
  BY <1>1, <1>2 DEF Locks, Holding, Programs
<1>4. /\ entry[t[1]] = "nobody" /\ entry' = [entry EXCEPT ![t[1]] = "thread"]
      /\ UNCHANGED <<main, syncing, exit>>
  BY DEF TakeEntry
<1>5. \A u \in Threads : u # t => thread'[u] = thread[u]
  BY <1>1 DEF Locks
<1>6. thread'[t] = Later(thread[t])
  BY <1>1 DEF Locks
<1>7. ExitHeld'
  BY <1>2, <1>4, <1>5, <1>6, ThreadPairs DEF Locks, ExitHeld
<1>8. main = "exit" /\ syncing = t[1]
  BY <1>2, <1>4, ThreadPairs DEF Locks, ExitHeld, EntryHeld
<1>9. EntryHeld'
  BY <1>2, <1>4, <1>5, <1>6, <1>8, ThreadPairs DEF Locks, EntryHeld, LockTypes
<1> QED
  BY <1>3, <1>7, <1>9 DEF Locks

LEMMA OpenEntryLocks ==
  ASSUME Locks, LockTypes, NEW t \in Threads, OpenEntry(t)
  PROVE  Locks'
<1>1. /\ thread[t] \in Programs /\ thread[t] # Nothing
      /\ First(thread[t]) = "openEntry"
      /\ thread' = [thread EXCEPT ![t] = Later(thread[t])]
  BY Takes DEF OpenEntry, Locks
<1>2. thread[t] = ToOpen /\ Later(thread[t]) = ToOpenExit
  BY <1>1, Moves
<1>3. /\ thread[t] \in Within /\ thread[t] \in Holding
      /\ ToOpenExit \in Holding /\ ToOpenExit \notin Within
  BY <1>2, Kept DEF Within
<1>4. thread' \in [Threads -> Programs]
  BY <1>1, <1>2, <1>3 DEF Locks, Holding, Programs
<1>5. /\ entry' = [entry EXCEPT ![t[1]] = "nobody"]
      /\ UNCHANGED <<main, syncing, exit>>
  BY DEF OpenEntry
<1>6. \A u \in Threads : u # t => thread'[u] = thread[u]
  BY <1>1 DEF Locks
<1>7. thread'[t] = ToOpenExit
  BY <1>1, <1>2 DEF Locks
<1>8. ExitHeld'
  BY <1>3, <1>5, <1>6, <1>7, ThreadPairs DEF Locks, ExitHeld
<1>9. main = "exit" /\ syncing = t[1]
  BY <1>3 DEF Locks, EntryHeld
<1>10. \A u \in Threads : u # t /\ u[1] = t[1] => thread[u] \notin Within
  BY <1>3, Kept DEF Locks, ExitHeld
<1>11. EntryHeld'
  BY <1>3, <1>5, <1>6, <1>7, <1>9, <1>10, ThreadPairs DEF Locks, EntryHeld, LockTypes
<1> QED
  BY <1>4, <1>8, <1>11 DEF Locks

LEMMA OpenExitLocks ==
  ASSUME Locks, LockTypes, NEW t \in Threads, OpenExit(t)
  PROVE  Locks'
<1>1. /\ thread[t] \in Programs /\ thread[t] # Nothing
      /\ First(thread[t]) = "openExit"
      /\ thread' = [thread EXCEPT ![t] = Later(thread[t])]
  BY Takes DEF OpenExit, Locks
<1>2. thread[t] = ToOpenExit /\ Later(thread[t]) = Nothing
  <2>1. Later(thread[t]) = <<>> \/ Later(thread[t]) = Nothing
    BY <1>1, Moves
  <2> QED
    BY <1>1, <2>1, Moves DEF Nothing
<1>3. /\ thread[t] \in Holding /\ thread[t] \notin Within
      /\ Nothing \in Outside /\ Nothing \notin Holding /\ Nothing \notin Within
      /\ Nothing # ToOpenExit
  BY <1>2, Kept
<1>4. thread' \in [Threads -> Programs]
  BY <1>1, <1>2, <1>3 DEF Locks, Programs
<1>5. /\ exit' = [exit EXCEPT ![t[1]] = "nobody"]
      /\ UNCHANGED <<main, syncing, entry>>
  BY DEF OpenExit
<1>6. \A u \in Threads : u # t => thread'[u] = thread[u]
  BY <1>1 DEF Locks
<1>7. thread'[t] = Nothing
  BY <1>1, <1>2 DEF Locks
<1>8. main = "exit" /\ syncing = t[1]
  BY <1>2 DEF Locks, EntryHeld
<1>9. \A u \in Threads : u # t /\ u[1] = t[1] => thread[u] \notin Holding
  BY <1>3 DEF Locks, ExitHeld
<1>10. ExitHeld'
  BY <1>3, <1>5, <1>6, <1>7, <1>8, <1>9, ThreadPairs DEF Locks, ExitHeld, LockTypes
<1>11. EntryHeld'
  BY <1>3, <1>5, <1>6, <1>7, <1>8, ThreadPairs DEF Locks, EntryHeld
<1> QED
  BY <1>4, <1>10, <1>11 DEF Locks

LEMMA SyncNextLocks ==
  ASSUME Locks, LockTypes, SyncNext
  PROVE  Locks'
<1> DEFINE p == events[Len(events)]
<1>1. p \in Jobs
  BY DEF SyncNext, LockTypes
<1>2. /\ main = "sync" /\ main' = "exit" /\ syncing' = p
      /\ entry' = [entry EXCEPT ![p] = "nobody"]
      /\ UNCHANGED <<exit, thread>>
  BY DEF SyncNext, MainGoes
<1> HIDE DEF p
<1>3. ExitHeld'
  BY <1>1, <1>2 DEF Locks, ExitHeld
<1>4. \A t \in Threads : thread[t] \notin Within \cup {ToOpenExit}
  BY <1>2 DEF Locks, EntryHeld
<1>5. EntryHeld'
  BY <1>1, <1>2, <1>4 DEF Locks, EntryHeld, LockTypes
<1> QED
  BY <1>2, <1>3, <1>5 DEF Locks

\* Once it has the exit mutex, nobody is inside.
LEMMA AwaitExitLocks ==
  ASSUME Locks, LockTypes, AwaitExit
  PROVE  Locks'
<1>1. /\ main = "exit" /\ main' = "entry" /\ exit[syncing] = "nobody"
      /\ exit' = [exit EXCEPT ![syncing] = "main"]
      /\ UNCHANGED <<syncing, entry, thread>>
  BY DEF AwaitExit, MainGoes
<1>2. syncing \in Jobs
  BY <1>1 DEF Locks, EntryHeld
<1>3. \A t \in Threads : thread[t] \in Holding => t[1] # syncing
  BY <1>1 DEF Locks, ExitHeld
<1>4. ExitHeld'
  BY <1>1, <1>2, <1>3 DEF Locks, ExitHeld, LockTypes
<1>5. \A t \in Threads : thread[t] \notin Within \cup {ToOpenExit}
  BY <1>3, Kept DEF Locks, EntryHeld
<1>6. EntryHeld'
  BY <1>1, <1>2, <1>5 DEF Locks, EntryHeld
<1> QED
  BY <1>1, <1>4, <1>6 DEF Locks

LEMMA CloseEntryLocks ==
  ASSUME Locks, LockTypes, CloseEntry
  PROVE  Locks'
<1>1. /\ main = "entry" /\ main' = "sync" /\ entry[syncing] = "nobody"
      /\ exit' = [exit EXCEPT ![syncing] = "nobody"]
      /\ entry' = [entry EXCEPT ![syncing] = "main"]
      /\ UNCHANGED thread
  BY DEF CloseEntry, MainGoes
<1>2. syncing \in Jobs /\ exit[syncing] = "main"
  BY <1>1 DEF Locks, EntryHeld, ExitHeld
<1>3. \A t \in Threads : thread[t] \in Holding => t[1] # syncing
  BY <1>2 DEF Locks, ExitHeld
<1>4. ExitHeld'
  BY <1>1, <1>2, <1>3 DEF Locks, ExitHeld, LockTypes
<1>5. \A t \in Threads : thread[t] \notin Within \cup {ToOpenExit}
  BY <1>1, <1>3, Kept DEF Locks, EntryHeld
<1>6. EntryHeld'
  BY <1>1, <1>2, <1>5 DEF Locks, EntryHeld, LockTypes
<1> QED
  BY <1>1, <1>4, <1>6 DEF Locks

LEMMA MainLocks ==
  ASSUME Locks, LockTypes, MainStep
  PROVE  Locks'
<1>1. CASE \/ CallFinishAll \/ NoTasksLeft \/ ForgetCurrent \/ NothingToDo
           \/ LeaveToDo \/ StartSync \/ EndSync
  <2>1. /\ UNCHANGED <<syncing, entry, exit, thread>>
        /\ main \notin {"exit", "entry"} /\ main' \notin {"exit", "entry"}
    BY <1>1 DEF CallFinishAll, NoTasksLeft, ForgetCurrent, NothingToDo, LeaveToDo,
       StartSync, EndSync, MainGoes, InLoop, syncVars, todoVars
  <2>2. thread' \in [Threads -> Programs]
    BY <2>1 DEF Locks
  <2> QED
    BY <2>1, <2>2, LocksKept
<1>2. CASE SyncNext
  BY <1>2, SyncNextLocks
<1>3. CASE AwaitExit
  BY <1>3, AwaitExitLocks
<1>4. CASE CloseEntry
  BY <1>4, CloseEntryLocks
<1> QED
  BY <1>1, <1>2, <1>3, <1>4 DEF MainStep

LEMMA ThreadLocks ==
  ASSUME Locks, LockTypes, NEW t \in Threads, ThreadStep(t)
  PROVE  Locks'
<1>1. CASE AddTask(t) \/ ListTask(t)
  <2>1. /\ thread[t] \in Programs /\ thread[t] # Nothing
        /\ First(thread[t]) \in {"add", "once"}
        /\ thread' = [thread EXCEPT ![t] = Later(thread[t])]
    BY <1>1, Takes DEF AddTask, ListTask, Locks
  <2>2. \/ thread[t] \in Outside /\ Later(thread[t]) \in Outside
        \/ thread[t] \in Within /\ Later(thread[t]) \in Within
    BY <2>1, Moves
  <2>3. Later(thread[t]) \in Programs
    BY <2>2 DEF Outside, Programs
  <2>4. UNCHANGED <<syncing, entry, exit, main>>
    BY <1>1 DEF AddTask, ListTask, syncVars
  <2> QED
    BY <2>1, <2>2, <2>3, <2>4, LocksKeptByStep
<1> QED
  BY <1>1, TakeListLocks, TakeExitLocks, TakeEntryLocks, OpenEntryLocks,
     OpenExitLocks DEF ThreadStep

\* The steps of a login's threads.
LEMMA LoginThreadLocks ==
  ASSUME Locks, LockTypes, NEW t \in Threads,
         FetchInfo(t) \/ Query(t) \/ Authorize(t) \/ Check(t)
  PROVE  Locks'
<1>1. UNCHANGED <<syncing, entry, exit, main>>
  BY DEF FetchInfo, Query, Authorize, Check, syncVars
<1>2. CASE FetchInfo(t)
  <2>1. At(t, "fetch")
    BY <1>2 DEF FetchInfo
  <2>2. thread[t] = ToFetch /\ thread[t] \in Programs
    BY <2>1, Takes, Moves DEF Locks
  <2>3. PICK r \in {FailAdd, ListQuery, ToAdd} : thread' = [thread EXCEPT ![t] = r]
    BY <1>2, Given DEF FetchInfo
  <2> QED
    BY <1>1, <2>2, <2>3, Kept, LocksKeptByStep DEF Outside
<1>3. CASE Query(t)
  <2>1. /\ thread[t] = ToQuery /\ thread[t] \in Programs
        /\ thread' = [thread EXCEPT ![t] = ToOpen]
    BY <1>3, Takes, Moves DEF Query, Locks
  <2>2. ToQuery \in Within /\ ToOpen \in Within /\ ToOpen \in Programs
    BY DEF Within, Programs
  <2> QED
    BY <1>1, <2>1, <2>2, LocksKeptByStep
<1>4. CASE Authorize(t)
  <2>1. At(t, "authorize")
    BY <1>4 DEF Authorize
  <2>2. thread[t] = ToAuthorize /\ thread[t] \in Programs
    BY <2>1, Takes, Moves DEF Locks
  <2>3. PICK r \in {ToAdd, ToAddTwice, ToCheck, AbortAdd} :
          thread' = [thread EXCEPT ![t] = r]
    BY <1>4, Given DEF Authorize
  <2> QED
    BY <1>1, <2>2, <2>3, Kept, LocksKeptByStep DEF Outside
<1>5. CASE Check(t)
  <2>1. /\ thread[t] = ToCheck /\ thread[t] \in Programs
        /\ thread' = [thread EXCEPT ![t] = ListAdd]
    BY <1>5, Takes, Moves DEF Check, Locks
  <2>2. ListAdd \in Outside
    BY Kept DEF BeforeList
  <2> QED
    BY <1>1, <2>1, <2>2, Kept, LocksKeptByStep DEF Outside
<1> QED
  BY <1>2, <1>3, <1>4, <1>5

----------------------------------------------------------------------------
\* Starting processes.

\* A process that was never started has no threads under way, the wish to log in
\* is that of a client who is there, as is each process, and a machine has one
\* process at most.
Present ==
  /\ \A t \in Threads : t[1] \in Fresh => thread[t] = Nothing
  /\ \A c \in Clients : wanted[c] => online[c]
  /\ \A p \in listed : online[login[p].user]
  /\ \A p, q \in listed :
       MachineOf[login[p].user] = MachineOf[login[q].user] => p = q

\* What TypeOK says of logins.
LoginsTyped == login \in [Jobs -> LoginType] /\ listed \subseteq Jobs \ Fresh

LEMMA NewLogins ==
  ASSUME NEW c \in Clients
  PROVE  /\ NewLogin(c) \in LoginType /\ NewLogin(c) # Unused
         /\ NewLogin(c).user = c /\ NewLogin(c).of = Nobody
<1>1. NewLogin(c) # Unused
  BY DEF NewLogin, Unused
<1>2. NewLogin(c) \in LoginType
  BY DEF NewLogin, LoginType, Kinds
<1>3. NewLogin(c).user = c /\ NewLogin(c).of = Nobody
  BY DEF NewLogin
<1> QED
  BY <1>1, <1>2, <1>3

\* A process that is listed was started for some client.
LEMMA Users ==
  ASSUME LoginsTyped, NEW p \in listed
  PROVE  p \in Jobs /\ login[p].user \in Clients /\ p \notin Fresh
         /\ MachineOf[login[p].user] \in Machines
<1>1. p \in Jobs /\ login[p] \in LoginType /\ login[p] # Unused /\ p \notin Fresh
  BY DEF LoginsTyped, Fresh
<1>2. login[p].user \in Clients
  BY <1>1 DEF LoginType
<1> QED
  BY <1>1, <1>2, LoginAssumption

\* What Start does: each client gets a process of its own, which was never used,
\* and one thread of it starts.
Started(clients, gone, id) ==
  /\ id \in [clients -> Fresh]
  /\ \A c, d \in clients : c # d => id[c] # id[d]
  /\ \A c \in clients : login'[id[c]] = NewLogin(c)
  /\ \A p \in Jobs : (\A c \in clients : id[c] # p) => login'[p] = login[p]
  /\ listed' = (listed \ gone) \cup {id[c] : c \in clients}
  /\ \A t \in Threads :
       \/ thread'[t] = thread[t]
       \/ /\ \E c \in clients : id[c] = t[1]
          /\ t[2] = FirstFree(t[1])
          /\ thread[t] = Nothing /\ thread'[t] = ToFetch

LEMMA Starting ==
  ASSUME Locks, LoginsTyped, Present, NEW clients \in SUBSET Clients, NEW gone,
         Start(clients, gone)
  PROVE  /\ \E id : Started(clients, gone, id)
         /\ LoginsTyped'
         /\ thread' \in [Threads -> Programs]
<1> PICK id \in [clients -> Fresh] :
      /\ \A c, d \in clients : c # d => id[c] # id[d]
      /\ login' = [p \in Jobs |-> IF p \in {id[c] : c \in clients}
                    THEN NewLogin(CHOOSE c \in clients : id[c] = p)
                    ELSE login[p]]
      /\ listed' = (listed \ gone) \cup {id[c] : c \in clients}
      /\ thread' = [t \in Threads |->
                     IF t[1] \in {id[c] : c \in clients} /\ t[2] = FirstFree(t[1])
                     THEN <<"fetch">> ELSE thread[t]]
  BY DEF Start
<1>1. \A c \in clients : id[c] \in Jobs /\ id[c] \in Fresh
  BY DEF Fresh
<1>2. \A p \in {id[c] : c \in clients} :
        /\ (CHOOSE c \in clients : id[c] = p) \in clients
        /\ id[CHOOSE c \in clients : id[c] = p] = p
  OBVIOUS
<1>3. \A c \in clients : (CHOOSE d \in clients : id[d] = id[c]) = c
  BY <1>2
<1>4. \A c \in clients : login'[id[c]] = NewLogin(c)
  BY <1>1, <1>3
<1>5. \A p \in Jobs : (\A c \in clients : id[c] # p) => login'[p] = login[p]
  OBVIOUS
<1>6. \A t \in Threads :
        \/ thread'[t] = thread[t]
        \/ /\ \E c \in clients : id[c] = t[1]
           /\ t[2] = FirstFree(t[1])
           /\ thread[t] = Nothing /\ thread'[t] = ToFetch
  BY <1>1 DEF Present, ToFetch
<1>7. login' \in [Jobs -> LoginType]
  <2>1. \A p \in Jobs : p \in {id[c] : c \in clients}
          => NewLogin(CHOOSE c \in clients : id[c] = p) \in LoginType
    BY <1>2, NewLogins
  <2> QED
    BY <2>1 DEF LoginsTyped
<1>8. listed' \subseteq Jobs \ Fresh'
  <2>1. \A c \in clients : login'[id[c]] # Unused
    BY <1>4, NewLogins
  <2>2. \A p \in listed : p \in Jobs /\ login[p] # Unused
    BY DEF LoginsTyped, Fresh
  <2>3. \A p \in listed : login'[p] # Unused
    BY <2>1, <2>2, <1>5
  <2>4. ASSUME NEW p \in listed' PROVE p \in Jobs /\ login'[p] # Unused
    <3>1. p \in listed \/ \E c \in clients : id[c] = p
      OBVIOUS
    <3> QED
      BY <3>1, <1>1, <2>1, <2>2, <2>3
  <2>5. Fresh' = {p \in Jobs : login'[p] = Unused}
    BY DEF Fresh, Unused
  <2> QED
    BY <2>4, <2>5
<1>9. thread' \in [Threads -> Programs]
  <2>1. <<"fetch">> \in Programs
    BY Kept DEF ToFetch, Outside
  <2> QED
    BY <2>1 DEF Locks
<1>10. Started(clients, gone, id)
  BY <1>4, <1>5, <1>6 DEF Started
<1> QED
  BY <1>7, <1>8, <1>9, <1>10 DEF LoginsTyped

\* Clients a process may be started for: they are there, and no two processes of
\* one machine come of it.
May(clients, gone) ==
  /\ clients \subseteq Clients
  /\ \A c \in clients : online[c]
  /\ \A c \in clients : \A p \in listed \ gone :
       MachineOf[login[p].user] # MachineOf[c]
  /\ \A c, d \in clients : c # d => MachineOf[c] # MachineOf[d]

LEMMA StartPresent ==
  ASSUME Locks, LoginsTyped, Present, NEW clients, NEW gone,
         May(clients, gone), Start(clients, gone), UNCHANGED online,
         \A c \in Clients : wanted'[c] => wanted[c]
  PROVE  Present'
<1>1. PICK id : Started(clients, gone, id)
  BY Starting DEF May
<1>2. \A c \in clients : c \in Clients /\ id[c] \in Jobs /\ id[c] \in Fresh
  BY <1>1 DEF Started, May, Fresh
<1>3. \A p \in Fresh' : p \in Fresh /\ \A c \in clients : id[c] # p
  BY <1>1, <1>2, NewLogins DEF Started, Fresh
<1>4. \A t \in Threads : t[1] \in Fresh' => thread'[t] = Nothing
  BY <1>1, <1>3 DEF Started, Present
<1>5. \A c \in Clients : wanted'[c] => online'[c]
  BY DEF Present
<1>6. \A p \in listed' : \/ \E c \in clients : p = id[c] /\ login'[p].user = c
                         \/ p \in listed \ gone /\ login'[p] = login[p]
  <2>1. \A p \in listed : p \in Jobs /\ p \notin Fresh
    BY Users
  <2> QED
    BY <1>1, <1>2, <2>1, NewLogins DEF Started
<1>7. \A p \in listed' : online'[login'[p].user]
  BY <1>6 DEF Present, May
<1>8. ASSUME NEW p \in listed', NEW q \in listed',
             MachineOf[login'[p].user] = MachineOf[login'[q].user]
      PROVE  p = q
  <2>1. CASE p \in listed \ gone /\ login'[p] = login[p]
             /\ q \in listed \ gone /\ login'[q] = login[q]
    BY <1>8, <2>1 DEF Present
  <2>2. CASE \E c \in clients : p = id[c] /\ login'[p].user = c
    BY <1>6, <1>8, <2>2 DEF May
  <2>3. CASE \E c \in clients : q = id[c] /\ login'[q].user = c
    BY <1>6, <1>8, <2>3 DEF May
  <2> QED
    BY <1>6, <2>1, <2>2, <2>3
<1> QED
  BY <1>4, <1>5, <1>7, <1>8 DEF Present

\* The threads that start are outside.
LEMMA StartLocks ==
  ASSUME Locks, LoginsTyped, Present, NEW clients \in SUBSET Clients, NEW gone,
         Start(clients, gone), UNCHANGED <<syncing, entry, exit, main>>
  PROVE  Locks'
<1>1. PICK id : Started(clients, gone, id)
  BY Starting
<1>2. thread' \in [Threads -> Programs]
  BY Starting
<1>3. \A t \in Threads : \/ thread'[t] = thread[t]
                         \/ thread[t] \in Outside /\ thread'[t] \in Outside
  BY <1>1, Kept DEF Started
<1> QED
  BY <1>2, <1>3, LocksKept

\* RequestScheduledLogins starts processes that may start.
LEMMA Scheduling ==
  ASSUME LoginsTyped, Present, NEW gone, NEW redo, May(redo, gone),
         Schedule(gone, redo)
  PROVE  /\ \E clients : May(clients, gone) /\ Start(clients, gone)
         /\ \A c \in Clients : wanted'[c] => wanted[c]
<1> DEFINE busy == {MachineOf[login[p].user] : p \in listed \ gone}
                   \cup {MachineOf[c] : c \in redo}
           wishes == {c \in Clients : wanted[c] /\ MachineOf[c] \notin busy}
           grants == {S \in SUBSET wishes :
                        \A c, d \in S : c # d => MachineOf[c] # MachineOf[d]}
           room == {S \in grants : Cardinality(S \cup redo) <= Cardinality(Fresh)}
<1>1. CASE room = {}
  <2>1. Start({}, gone) /\ UNCHANGED wanted
    BY <1>1 DEF Schedule
  <2>2. May({}, gone)
    BY DEF May
  <2> QED
    BY <2>1, <2>2
<1>2. CASE room # {}
  <2>1. PICK S \in room :
          /\ Start(S \cup redo, gone)
          /\ wanted' = [c \in Clients |-> wanted[c] /\ c \notin S]
    BY <1>2 DEF Schedule
  <2>2. S \in SUBSET wishes /\ \A c, d \in S : c # d => MachineOf[c] # MachineOf[d]
    OBVIOUS
  <2>3. \A c \in S : c \in Clients /\ wanted[c] /\ online[c] /\ MachineOf[c] \notin busy
    BY <2>2 DEF Present
  <2>4. \A c \in S : /\ \A p \in listed \ gone : MachineOf[login[p].user] # MachineOf[c]
                     /\ \A d \in redo : MachineOf[d] # MachineOf[c]
    BY <2>3
  <2> HIDE DEF busy, wishes, grants, room
  <2>5. May(S \cup redo, gone)
    BY <2>2, <2>3, <2>4 DEF May
  <2>6. \A c \in Clients : wanted'[c] => wanted[c]
    BY <2>1
  <2> QED
    BY <2>1, <2>5, <2>6
<1> QED
  BY <1>1, <1>2

----------------------------------------------------------------------------
\* Finishing, and the other handlers of the main thread.

\* A process that is finished, with the one its client may be granted at once.
LEMMA Finishing ==
  ASSUME LoginsTyped, Present, NEW p \in Jobs, Finish(p)
  PROVE  \/ UNCHANGED <<playerVars, loginVars, thread>>
         \/ /\ p \in listed /\ UNCHANGED online
            /\ \E clients : May(clients, {p}) /\ Start(clients, {p})
            /\ \A c \in Clients : wanted'[c] => wanted[c]
<1>1. CASE p \in listed /\ ~UNCHANGED <<playerVars, loginVars, thread>>
  <2> DEFINE c == login[p].user
  <2>1. May({}, {p}) /\ May({c}, {p})
    BY <1>1, Users DEF May, Present
  <2>2. UNCHANGED online
    BY <1>1 DEF Finish
  <2>3. \/ Start({}, {p}) /\ UNCHANGED wanted
        \/ Schedule({p}, {}) \/ Schedule({p}, {c})
    BY <1>1 DEF Finish
  <2> HIDE DEF c
  <2>4. CASE Start({}, {p}) /\ UNCHANGED wanted
    BY <1>1, <2>1, <2>2, <2>4
  <2>5. CASE Schedule({p}, {}) \/ Schedule({p}, {c})
    BY <1>1, <2>1, <2>2, <2>5, Scheduling
  <2> QED
    BY <2>3, <2>4, <2>5
<1>2. CASE p \notin listed
  BY <1>2 DEF Finish
<1> QED
  BY <1>1, <1>2

LEMMA FinishTaskSafe ==
  ASSUME Locks, LoginsTyped, Present, pending \in Seq(Jobs), FinishTask
  PROVE  LoginsTyped' /\ Locks' /\ Present'
<1> DEFINE p == Head(pending)
<1>1. p \in Jobs
  BY DEF FinishTask, TakeTask
<1>2. Finish(p) /\ UNCHANGED <<main, syncVars>>
  BY DEF FinishTask, TakeTask
<1> HIDE DEF p
<1>3. CASE UNCHANGED <<playerVars, loginVars, thread>>
  <2>1. LoginsTyped'
    BY <1>3 DEF LoginsTyped, loginVars, Fresh
  <2>2. Present'
    BY <1>3 DEF Present, loginVars, playerVars, Fresh
  <2>3. Locks'
    BY <1>2, <1>3 DEF Locks, ExitHeld, EntryHeld, syncVars
  <2> QED
    BY <2>1, <2>2, <2>3
<1>4. CASE ~UNCHANGED <<playerVars, loginVars, thread>>
  <2>1. PICK clients : May(clients, {p}) /\ Start(clients, {p})
    BY <1>1, <1>2, <1>4, Finishing
  <2>2. UNCHANGED online /\ \A c \in Clients : wanted'[c] => wanted[c]
    BY <1>1, <1>2, <1>4, Finishing
  <2>3. clients \in SUBSET Clients
    BY <2>1 DEF May
  <2>4. LoginsTyped'
    BY <2>1, <2>3, Starting
  <2>5. Present'
    BY <2>1, <2>2, StartPresent
  <2>6. Locks'
    BY <1>2, <2>1, <2>3, StartLocks DEF syncVars
  <2> QED
    BY <2>4, <2>5, <2>6
<1> QED
  BY <1>3, <1>4

LEMMA WantLoginSafe ==
  ASSUME Locks, LoginsTyped, Present, wanted \in [Clients -> BOOLEAN],
         NEW c \in Clients, WantLogin(c)
  PROVE  LoginsTyped' /\ Locks' /\ Present'
<1>1. UNCHANGED <<syncing, entry, exit, main, online>> /\ online[c]
  BY DEF WantLogin, syncVars
<1>2. CASE On(MachineOf[c]) = {} /\ Start({c}, {})
           /\ wanted' = [wanted EXCEPT ![c] = FALSE]
  <2>1. May({c}, {})
    BY <1>1, <1>2 DEF May, On
  <2>2. \A d \in Clients : wanted'[d] => wanted[d]
    BY <1>2
  <2>3. LoginsTyped'
    BY <1>2, Starting
  <2>4. Present'
    BY <1>1, <1>2, <2>1, <2>2, StartPresent
  <2>5. Locks'
    BY <1>1, <1>2, StartLocks
  <2> QED
    BY <2>3, <2>4, <2>5
<1>3. CASE /\ wanted' = [wanted EXCEPT ![c] = TRUE]
           /\ UNCHANGED <<loginVars, thread>>
  <2>1. LoginsTyped'
    BY <1>3 DEF LoginsTyped, loginVars, Fresh
  <2>2. \A d \in Clients : wanted'[d] => wanted[d] \/ d = c
    BY <1>3
  <2>3. Present'
    BY <1>1, <1>3, <2>2 DEF Present, loginVars, Fresh
  <2>4. Locks'
    BY <1>1, <1>3 DEF Locks, ExitHeld, EntryHeld
  <2> QED
    BY <2>1, <2>3, <2>4
<1> QED
  BY <1>2, <1>3 DEF WantLogin

LEMMA JoinLeaveSafe ==
  ASSUME Locks, LoginsTyped, Present, online \in [Clients -> BOOLEAN],
         wanted \in [Clients -> BOOLEAN],
         NEW c \in Clients, Join(c) \/ Leave(c)
  PROVE  LoginsTyped' /\ Locks' /\ Present'
<1>1. UNCHANGED <<taskVars, login>> /\ listed' = listed \ On(MachineOf[c])
  BY DEF Join, Leave, Killed
<1>2. LoginsTyped'
  BY <1>1 DEF LoginsTyped, Fresh
<1>3. Locks'
  BY <1>1 DEF Locks, ExitHeld, EntryHeld, taskVars, syncVars
<1>4. \A d \in Clients : d # c => online'[d] = online[d]
  BY DEF Join, Leave
<1>5. \A p \in listed' : p \in listed /\ login'[p].user # c
  BY <1>1 DEF On
<1>6. \A d \in Clients : wanted'[d] => online'[d]
  <2>1. CASE Join(c)
    BY <2>1 DEF Join, Present
  <2>2. CASE Leave(c)
    BY <2>2 DEF Leave, Present
  <2> QED
    BY <2>1, <2>2
<1>7. \A p \in listed' : online'[login'[p].user]
  BY <1>1, <1>4, <1>5, Users DEF Present
<1>8. Present'
  BY <1>1, <1>5, <1>6, <1>7 DEF Present, taskVars, Fresh
<1> QED
  BY <1>2, <1>3, <1>8

\* An answer starts a thread that was done.
LEMMA ReceiveAnswerSafe ==
  ASSUME Locks, LoginsTyped, Present, NEW m \in answers, m \in Answers,
         ReceiveAnswer(m)
  PROVE  LoginsTyped' /\ Locks' /\ Present'
<1>1. UNCHANGED <<syncing, entry, exit, main, online, wanted, listed>>
  BY DEF ReceiveAnswer, syncVars, playerVars
<1>2. CASE UNCHANGED <<login, thread>>
  <2>1. LoginsTyped' /\ Present'
    BY <1>1, <1>2 DEF LoginsTyped, Present, Fresh
  <2>2. Locks'
    BY <1>1, <1>2 DEF Locks, ExitHeld, EntryHeld
  <2> QED
    BY <2>1, <2>2
<1>3. CASE \E p \in On(MachineOf[m.from]) :
            /\ \E s \in Slots : thread[<<p, s>>] = <<>>
            /\ login' = [login EXCEPT ![p].of = m.of, ![p].kind = m.kind,
                           ![p].automatic = m.automatic, ![p].success = FALSE]
            /\ thread' =
                 [thread EXCEPT ![<<p, FirstFree(p)>>] = <<"authorize">>]
  <2>1. PICK p \in On(MachineOf[m.from]) :
            /\ \E s \in Slots : thread[<<p, s>>] = <<>>
            /\ login' = [login EXCEPT ![p].of = m.of, ![p].kind = m.kind,
                           ![p].automatic = m.automatic, ![p].success = FALSE]
            /\ thread' =
                 [thread EXCEPT ![<<p, FirstFree(p)>>] = <<"authorize">>]
    BY <1>3
  <2>2. p \in listed /\ p \in Jobs /\ p \notin Fresh
    BY Users DEF On
  <2> DEFINE t == <<p, FirstFree(p)>>
  <2>3. t \in Threads /\ thread[t] = Nothing /\ t[1] = p
    BY <2>1, <2>2 DEF FirstFree, Threads, Nothing
  <2>4. login[p] \in [user : Clients, of : Jobs \cup {Nobody}, kind : Kinds,
                      automatic : BOOLEAN, success : BOOLEAN]
    BY <2>2 DEF LoginsTyped, LoginType, Fresh
  <2>5. /\ login'[p] \in [user : Clients, of : Jobs \cup {Nobody}, kind : Kinds,
                          automatic : BOOLEAN, success : BOOLEAN]
        /\ login'[p].user = login[p].user
        /\ \A q \in Jobs : q # p => login'[q] = login[q]
    BY <2>1, <2>2, <2>4 DEF LoginsTyped, Answers
  <2>6. login'[p] # Unused
    BY <2>5 DEF Unused
  <2>7. login' \in [Jobs -> LoginType]
    BY <2>1, <2>2, <2>5 DEF LoginsTyped, LoginType
  <2>8. Fresh' = Fresh
    BY <2>2, <2>5, <2>6 DEF Fresh, Unused
  <2>9. thread' = [thread EXCEPT ![t] = ToAuthorize]
    BY <2>1 DEF ToAuthorize
  <2> HIDE DEF t
  <2>10. LoginsTyped'
    BY <1>1, <2>7, <2>8 DEF LoginsTyped
  <2>11. Locks'
    BY <1>1, <2>3, <2>9, Kept, LocksKeptByStep DEF Outside
  <2>12. \A q \in listed : login'[q].user = login[q].user
    BY <2>5, Users
  <2>13. \A u \in Threads : u # t => thread'[u] = thread[u]
    BY <2>9 DEF Locks
  <2>14. Present'
    BY <1>1, <2>2, <2>3, <2>8, <2>12, <2>13 DEF Present
  <2> QED
    BY <2>10, <2>11, <2>14
<1> QED
  BY <1>2, <1>3 DEF ReceiveAnswer

----------------------------------------------------------------------------
\* Threads.

\* A step of a thread leaves processes and players alone but for the result of a
\* check, and only a thread that has something to do takes one.
LEMMA ThreadsPresent ==
  ASSUME Locks, LoginsTyped, Present, NEW t \in Threads, ThreadGoes(t)
  PROVE  LoginsTyped' /\ Present'
<1>1. thread[t] # Nothing
  BY DEF ThreadGoes, ThreadStep, AddTask, ListTask, TakeList, TakeExit, TakeEntry,
     OpenEntry, OpenExit, FetchInfo, Query, Authorize, Check, At, Nothing
<1>2. \A u \in Threads : u # t => thread'[u] = thread[u]
  BY DEF ThreadGoes, ThreadStep, AddTask, ListTask, TakeList, TakeExit, TakeEntry,
     OpenEntry, OpenExit, FetchInfo, Query, Authorize, Check, Goes, Locks
<1>3. UNCHANGED <<playerVars, listed>>
  BY DEF ThreadGoes, FetchInfo, Query, Authorize, Check, loginVars
<1>4. t[1] \in Jobs /\ t[1] \notin Fresh
  BY <1>1, ThreadPairs DEF Present
<1>5. /\ LoginsTyped' /\ Fresh' = Fresh
      /\ \A p \in listed : login'[p].user = login[p].user
  <2>1. CASE UNCHANGED login
    BY <1>3, <2>1 DEF LoginsTyped, Fresh
  <2>2. CASE Check(t)
    <3>1. PICK success \in {FALSE, login[t[1]].of = t[1]} :
            login' = [login EXCEPT ![t[1]].success = success]
      BY <2>2 DEF Check
    <3>2. success \in BOOLEAN
      BY <3>1
    <3>3. login[t[1]] \in [user : Clients, of : Jobs \cup {Nobody}, kind : Kinds,
                           automatic : BOOLEAN, success : BOOLEAN]
      BY <1>4 DEF LoginsTyped, LoginType, Fresh
    <3>4. /\ login'[t[1]] \in [user : Clients, of : Jobs \cup {Nobody}, kind : Kinds,
                               automatic : BOOLEAN, success : BOOLEAN]
          /\ login'[t[1]].user = login[t[1]].user
          /\ \A q \in Jobs : q # t[1] => login'[q] = login[q]
      BY <1>4, <3>1, <3>2, <3>3 DEF LoginsTyped
    <3>5. login'[t[1]] # Unused
      BY <3>4 DEF Unused
    <3>6. login' \in [Jobs -> LoginType]
      BY <1>4, <3>1, <3>4 DEF LoginsTyped, LoginType
    <3>7. Fresh' = Fresh
      BY <1>4, <3>4, <3>5 DEF Fresh, Unused
    <3>8. \A p \in listed : login'[p].user = login[p].user
      BY <3>4, Users
    <3> QED
      BY <1>3, <3>6, <3>7, <3>8 DEF LoginsTyped
  <2> QED
    BY <2>1, <2>2 DEF ThreadGoes, loginVars, FetchInfo, Query, Authorize
<1>6. Present'
  BY <1>2, <1>3, <1>4, <1>5 DEF Present, playerVars
<1> QED
  BY <1>5, <1>6

LEMMA ThreadGoesLocks ==
  ASSUME Locks, LockTypes, NEW t \in Threads, ThreadGoes(t)
  PROVE  Locks'
  BY ThreadLocks, LoginThreadLocks DEF ThreadGoes

\* Clients' steps touch neither threads nor processes.
LEMMA ClientSafe ==
  ASSUME Locks, LoginsTyped, Present, NEW c \in Clients, ClientGoes(c)
  PROVE  LoginsTyped' /\ Locks' /\ Present'
<1>1. UNCHANGED <<taskVars, playerVars, loginVars>>
  BY DEF ClientGoes, ReceiveRequest, Answer
<1> QED
  BY <1>1 DEF taskVars, syncVars, playerVars, loginVars, Locks, ExitHeld, EntryHeld,
     LoginsTyped, Present, Fresh

LEMMA MainSafe ==
  ASSUME Locks, LockTypes, LoginsTyped, Present, MainStep,
         UNCHANGED <<playerVars, loginVars>>
  PROVE  LoginsTyped' /\ Locks' /\ Present'
<1>1. UNCHANGED thread
  BY DEF MainStep, CallFinishAll, NoTasksLeft, ForgetCurrent, NothingToDo, LeaveToDo,
     StartSync, SyncNext, AwaitExit, CloseEntry, EndSync
<1> QED
  BY <1>1, MainLocks DEF playerVars, loginVars, LoginsTyped, Present, Fresh

----------------------------------------------------------------------------
\* Types.

\* What TypeOK says of the variables that LoginsTyped and Locks do not speak of.
TasksTyped ==
  /\ pending \in Seq(Jobs)
  /\ main \in {"game", "tasks", "return", "todo", "lock", "sync", "exit", "entry"}
  /\ syncing \in Jobs \cup {Nobody}
  /\ listLock \in Holders
  /\ LockTypes

FlagsTyped == queued \in BOOLEAN /\ current \in BOOLEAN

PlayersTyped ==
  /\ online \in [Clients -> BOOLEAN]
  /\ wanted \in [Clients -> BOOLEAN]
  /\ authed \in [Clients -> BOOLEAN]
  /\ failedLast \in [Machines -> BOOLEAN]

NetTyped ==
  /\ asked \in [Clients -> Questions \cup {NoQuestion}]
  /\ requests \subseteq Requests
  /\ answers \subseteq Answers

LEMMA Typed ==
  ASSUME TasksTyped, FlagsTyped, PlayersTyped, NetTyped, LoginsTyped, Locks
  PROVE  TypeOK
<1>1. thread \in [Threads -> Seq(Steps)]
  BY ProgramsAreSteps DEF Locks
<1>2. TaskTypeOK
  BY <1>1 DEF TasksTyped, FlagsTyped, LockTypes, TaskTypeOK
<1> QED
  BY <1>2 DEF PlayersTyped, NetTyped, LoginsTyped, TypeOK

LEMMA EventsGo ==
  ASSUME events \in Seq(Jobs), events # <<>>
  PROVE  /\ events[Len(events)] \in Jobs
         /\ SubSeq(events, 1, Len(events) - 1) \in Seq(Jobs)
<1>1. Len(events) \in Nat \ {0}
  BY EmptySeq
<1>2. \A i \in 1..Len(events) - 1 : events[i] \in Jobs
  BY <1>1
<1> QED
  BY <1>1, <1>2, SubSeqProperties

LEMMA MainTypes ==
  ASSUME TasksTyped, Locks, MainStep
  PROVE  TasksTyped'
<1>1. CASE \/ CallFinishAll \/ NoTasksLeft \/ ForgetCurrent \/ NothingToDo
           \/ LeaveToDo \/ StartSync \/ EndSync
  BY <1>1 DEF CallFinishAll, NoTasksLeft, ForgetCurrent, NothingToDo, LeaveToDo,
     StartSync, EndSync, MainGoes, syncVars, todoVars, TasksTyped, LockTypes, Holders
<1>2. CASE SyncNext
  BY <1>2, EventsGo DEF SyncNext, MainGoes, todoVars, TasksTyped, LockTypes, Holders
<1>3. CASE AwaitExit
  BY <1>3 DEF AwaitExit, MainGoes, todoVars, TasksTyped, LockTypes, Holders
<1>4. CASE CloseEntry
  BY <1>4 DEF CloseEntry, MainGoes, todoVars, TasksTyped, LockTypes, Holders
<1> QED
  BY <1>1, <1>2, <1>3, <1>4 DEF MainStep

LEMMA ThreadTypes ==
  ASSUME TasksTyped, NEW t \in Threads, ThreadGoes(t)
  PROVE  TasksTyped'
<1>1. t[1] \in Jobs
  BY ThreadPairs
<1>2. CASE FetchInfo(t) \/ Query(t) \/ Authorize(t) \/ Check(t)
  BY <1>2 DEF FetchInfo, Query, Authorize, Check, todoVars, syncVars, TasksTyped,
     LockTypes
<1>3. CASE AddTask(t)
  <2>1. Append(pending, t[1]) \in Seq(Jobs)
    BY <1>1 DEF TasksTyped
  <2> QED
    BY <1>3, <2>1 DEF AddTask, syncVars, TasksTyped, LockTypes
<1>6. CASE ListTask(t)
  <2>1. UNCHANGED <<pending, main, syncing, listLock, events, entry, exit>>
    BY <1>6, Zenon DEF ListTask, syncVars
  <2> QED
    BY <2>1 DEF TasksTyped, LockTypes
<1>4. CASE TakeList(t)
  BY <1>4 DEF TakeList, todoVars, TasksTyped, LockTypes, Holders
<1>7. CASE TakeExit(t)
  <2>1. Append(events, t[1]) \in Seq(Jobs)
    BY <1>1 DEF TasksTyped, LockTypes
  <2>2. [exit EXCEPT ![t[1]] = "thread"] \in [Jobs -> Holders]
    BY DEF TasksTyped, LockTypes, Holders
  <2> QED
    BY <1>7, <2>1, <2>2 DEF TakeExit, todoVars, TasksTyped, LockTypes, Holders
<1>5. CASE TakeEntry(t) \/ OpenEntry(t) \/ OpenExit(t)
  BY <1>1, <1>5 DEF TakeEntry, OpenEntry, OpenExit, todoVars, TasksTyped, LockTypes,
     Holders
<1> QED
  BY <1>2, <1>3, <1>4, <1>5, <1>6, <1>7 DEF ThreadGoes, ThreadStep

LEMMA OtherTypes ==
  ASSUME TasksTyped, NEW c \in Clients,
         \/ FinishTask \/ Join(c) \/ Leave(c) \/ WantLogin(c) \/ ClientGoes(c)
         \/ \E m \in answers : ReceiveAnswer(m)
  PROVE  TasksTyped'
<1>1. CASE FinishTask
  BY <1>1 DEF FinishTask, TakeTask, syncVars, TasksTyped, LockTypes
<1>2. CASE \/ Join(c) \/ Leave(c) \/ WantLogin(c) \/ ClientGoes(c)
           \/ \E m \in answers : ReceiveAnswer(m)
  BY <1>2 DEF Join, Leave, WantLogin, ClientGoes, ReceiveRequest, Answer,
     ReceiveAnswer, taskVars, todoVars, syncVars, TasksTyped, LockTypes
<1> QED
  BY <1>1, <1>2

LEMMA FlagTypes ==
  ASSUME FlagsTyped, Next
  PROVE  FlagsTyped'
<1>1. UNCHANGED <<queued, current>>
      \/ (\E t \in Threads : ListTask(t)) \/ CallFinishAll \/ ForgetCurrent
  <2>1. CASE \E t \in Threads : ThreadGoes(t)
    BY <2>1 DEF ThreadGoes, ThreadStep, AddTask, TakeList, TakeExit, TakeEntry,
       OpenEntry, OpenExit, FetchInfo, Query, Authorize, Check, todoVars
  <2>2. CASE MainGoesOn
    BY <2>2 DEF MainGoesOn, FinishTask, TakeTask, MainStep, NoTasksLeft, NothingToDo,
       LeaveToDo, StartSync, SyncNext, AwaitExit, CloseEntry, EndSync, todoVars
  <2>3. CASE \E c \in Clients :
               Join(c) \/ Leave(c) \/ WantLogin(c) \/ ClientGoes(c) \/ Answered(c)
    BY <2>3 DEF Join, Leave, WantLogin, ClientGoes, ReceiveRequest, Answer, Answered,
       ReceiveAnswer, taskVars, todoVars
  <2> QED
    BY <2>1, <2>2, <2>3 DEF Next
<1>2. CASE UNCHANGED <<queued, current>>
  BY <1>2 DEF FlagsTyped
<1>3. CASE \E t \in Threads : ListTask(t)
  <2>1. queued' = (queued \/ ~current) /\ current' = current
    BY <1>3 DEF ListTask, ListOnce
  <2> QED
    BY <2>1, Zenon DEF FlagsTyped
<1>4. CASE CallFinishAll \/ ForgetCurrent
  <2>1. /\ queued' = FALSE \/ queued' = queued
        /\ current' = TRUE \/ current' = FALSE
    BY <1>4, Zenon DEF CallFinishAll, ForgetCurrent
  <2> QED
    BY <2>1, Zenon DEF FlagsTyped
<1> QED
  BY <1>1, <1>2, <1>3, <1>4

----------------------------------------------------------------------------
\* Requests and answers, where each machine has one client.

OneClientEach == \A c, d \in Clients : MachineOf[c] = MachineOf[d] => c = d

\* The processes whose end is due.
Due == {pending[i] : i \in 1..Len(pending)}

\* Process p waits for client c: it is listed for him, it is not about to be
\* finished, and its threads have done what they had to.
Asking(c, p) ==
  /\ p \in listed /\ login[p].user = c
  /\ p \notin Due
  /\ \A t \in Threads : t[1] = p => thread[t] \in Resting

\* Whatever is under way between a client and the server is about the process
\* that waits for it, and there is one such thing at a time.
UnderWay ==
  /\ \A m \in requests : Asking(m.to, m.of)
  /\ \A c \in Clients :
       asked[c] # NoQuestion => Asking(c, asked[c].of) /\ asked[c].spoiled = FALSE
  /\ \A a \in answers : Asking(a.from, a.of)

OneAtATime ==
  /\ \A m, n \in requests : m.to = n.to => m = n
  /\ \A a, b \in answers : a.from = b.from => a = b
  /\ \A m \in requests : asked[m.to] = NoQuestion
  /\ \A m \in requests, a \in answers : a.from # m.to
  /\ \A a \in answers : asked[a.from] = NoQuestion

\* A process has one thread at a time, and one that is due to be finished will
\* not ask its client any more.
OneThread ==
  \A t, u \in Threads :
    t[1] = u[1] /\ thread[t] # Nothing /\ thread[u] # Nothing => t = u

DueAreDone ==
  /\ \A t \in Threads : t[1] \in Due => thread[t] \notin WillAsk
  /\ Due \cap Fresh = {}

Questioning == UnderWay /\ OneAtATime /\ OneThread /\ DueAreDone /\ OwnAnswersOnly

LEMMA DueGrows ==
  ASSUME pending \in Seq(Jobs), NEW p \in Jobs, pending' = Append(pending, p)
  PROVE  Due' = Due \cup {p}
<1>1. Len(pending) \in Nat /\ Len(pending') = Len(pending) + 1
  OBVIOUS
<1>2. \A i \in 1..Len(pending) : pending'[i] = pending[i]
  OBVIOUS
<1>3. pending'[Len(pending) + 1] = p
  OBVIOUS
<1> QED
  BY <1>1, <1>2, <1>3 DEF Due

LEMMA DueShrinks ==
  ASSUME pending \in Seq(Jobs), pending # <<>>, pending' = Tail(pending)
  PROVE  Due' \subseteq Due /\ Head(pending) \in Due
<1>1. Len(pending) \in Nat /\ Len(pending) > 0 /\ Len(pending') = Len(pending) - 1
  BY EmptySeq, HeadTailProperties
<1>2. \A i \in 1..Len(pending') : pending'[i] = pending[i + 1]
  BY HeadTailProperties
<1>3. Head(pending) = pending[1]
  OBVIOUS
<1> QED
  BY <1>1, <1>2, <1>3 DEF Due

\* Two processes of one client are one.
LEMMA AskingOne ==
  ASSUME Present, NEW c, NEW p, NEW q, Asking(c, p), q \in listed, login[q].user = c
  PROVE  p = q
  BY DEF Asking, Present

\* What is under way is not disturbed by what leaves the processes that wait alone.
LEMMA UnderWayKept ==
  ASSUME UnderWay, OneAtATime, UNCHANGED netVars, NetTyped,
         \A c \in Clients : \A p \in listed : Asking(c, p) => Asking(c, p)'
  PROVE  UnderWay' /\ OneAtATime'
<1>1. UNCHANGED <<requests, asked, answers>>
  BY DEF netVars
<1>2. \A m \in requests : m.to \in Clients
  BY DEF NetTyped, Requests
<1>3. \A a \in answers : a.from \in Clients
  BY DEF NetTyped, Answers
<1>4. \A c, p : Asking(c, p) => p \in listed
  BY DEF Asking
<1>5. OneAtATime'
  BY <1>1 DEF OneAtATime, NoQuestion
<1>6. UnderWay'
  <2>1. \A m \in requests : Asking(m.to, m.of)'
    BY <1>2, <1>4 DEF UnderWay
  <2>2. \A a \in answers : Asking(a.from, a.of)'
    BY <1>3, <1>4 DEF UnderWay
  <2>3. \A c \in Clients :
          asked[c] # NoQuestion => Asking(c, asked[c].of)' /\ asked[c].spoiled = FALSE
    BY <1>1, <1>4 DEF UnderWay
  <2> QED
    BY <1>1, <2>1, <2>2, <2>3 DEF UnderWay, NoQuestion
<1> QED
  BY <1>5, <1>6

\* Starting processes, when those that are gone were due.
LEMMA StartQuestioning ==
  ASSUME Locks, LoginsTyped, Present, NetTyped, Questioning,
         NEW clients \in SUBSET Clients, NEW gone \in SUBSET Due,
         Start(clients, gone), UNCHANGED netVars, Due' \subseteq Due
  PROVE  Questioning'
<1>1. PICK id : Started(clients, gone, id)
  BY Starting
<1>2. \A c \in clients : id[c] \in Jobs /\ id[c] \in Fresh
  BY <1>1 DEF Started, Fresh
<1>3. \A p \in listed : p \in Jobs /\ p \notin Fresh
  BY Users
<1>4. \A p \in listed : login'[p] = login[p]
  BY <1>1, <1>2, <1>3 DEF Started
<1>5. \A t \in Threads : t[1] \notin Fresh => thread'[t] = thread[t]
  BY <1>1, <1>2 DEF Started
<1>6. Fresh' \subseteq Fresh
  BY <1>1, <1>2, NewLogins DEF Started, Fresh
<1>7. ASSUME NEW c \in Clients, NEW p \in listed, Asking(c, p)
      PROVE  Asking(c, p)'
  <2>1. p \in listed'
    BY <1>1, <1>7 DEF Started, Asking
  <2>2. \A t \in Threads : t[1] = p => thread'[t] \in Resting
    BY <1>3, <1>5, <1>7 DEF Asking
  <2> QED
    BY <1>4, <1>7, <2>1, <2>2 DEF Asking
<1>8. UnderWay' /\ OneAtATime'
  BY <1>7, UnderWayKept DEF Questioning
<1>9. OneThread'
  <2> SUFFICES ASSUME NEW t \in Threads, NEW u \in Threads, t[1] = u[1],
                      thread'[t] # Nothing, thread'[u] # Nothing
               PROVE  t = u
    BY DEF OneThread
  <2>1. CASE t[1] \in Fresh
    <3>1. thread[t] = Nothing /\ thread[u] = Nothing
      BY <2>1 DEF Present
    <3>2. t[2] = FirstFree(t[1]) /\ u[2] = FirstFree(u[1])
      BY <1>1, <3>1 DEF Started
    <3> QED
      BY <3>2 DEF Threads
  <2>2. CASE t[1] \notin Fresh
    BY <1>5, <2>2 DEF Questioning, OneThread
  <2> QED
    BY <2>1, <2>2
<1>10. DueAreDone'
  <2>1. ASSUME NEW t \in Threads, t[1] \in Due'
        PROVE  thread'[t] \notin WillAsk
    BY <1>5, <2>1 DEF Questioning, DueAreDone
  <2> QED
    BY <1>6, <2>1 DEF Questioning, DueAreDone
<1>11. OwnAnswersOnly'
  <2>1. \A p \in listed' : \/ p \in listed /\ login'[p] = login[p]
                           \/ login'[p].of = Nobody
    BY <1>1, <1>4, NewLogins DEF Started
  <2> QED
    BY <2>1 DEF Questioning, OwnAnswersOnly
<1> QED
  BY <1>8, <1>9, <1>10, <1>11 DEF Questioning

LEMMA FinishTaskQuestioning ==
  ASSUME Locks, LoginsTyped, Present, NetTyped, Questioning, pending \in Seq(Jobs),
         FinishTask
  PROVE  Questioning'
<1> DEFINE p == Head(pending)
<1>1. /\ pending # <<>> /\ pending' = Tail(pending)
      /\ Finish(p) /\ UNCHANGED netVars
  BY DEF FinishTask, TakeTask
<1>2. p \in Jobs
  BY <1>1
<1>3. Due' \subseteq Due /\ p \in Due
  BY <1>1, DueShrinks
<1> HIDE DEF p
<1>4. CASE UNCHANGED <<playerVars, loginVars, thread>>
  <2>1. UNCHANGED <<login, listed, thread>>
    BY <1>4 DEF loginVars
  <2>2. \A c \in Clients : \A q \in listed : Asking(c, q) => Asking(c, q)'
    BY <1>3, <2>1 DEF Asking
  <2>3. UnderWay' /\ OneAtATime'
    BY <1>1, <2>2, UnderWayKept DEF Questioning
  <2> QED
    BY <1>3, <2>1, <2>3 DEF Questioning, OneThread, DueAreDone, OwnAnswersOnly, Fresh
<1>5. CASE ~UNCHANGED <<playerVars, loginVars, thread>>
  <2>1. PICK clients : May(clients, {p}) /\ Start(clients, {p})
    BY <1>1, <1>2, <1>5, Finishing
  <2>2. clients \in SUBSET Clients
    BY <2>1 DEF May
  <2> QED
    BY <1>1, <1>3, <2>1, <2>2, StartQuestioning
<1> QED
  BY <1>4, <1>5

LEMMA WantLoginQuestioning ==
  ASSUME Locks, LoginsTyped, Present, NetTyped, Questioning,
         NEW c \in Clients, WantLogin(c)
  PROVE  Questioning'
<1>1. UNCHANGED <<pending, netVars>>
  BY DEF WantLogin, todoVars
<1>2. Due' = Due
  BY <1>1 DEF Due
<1>3. CASE Start({c}, {})
  BY <1>1, <1>2, <1>3, StartQuestioning
<1>4. CASE UNCHANGED <<loginVars, thread>>
  <2>1. UNCHANGED <<login, listed, thread>>
    BY <1>4 DEF loginVars
  <2>2. UnderWay' /\ OneAtATime'
    BY <1>1, <1>2, <2>1, UnderWayKept DEF Questioning, Asking
  <2> QED
    BY <1>2, <2>1, <2>2 DEF Questioning, OneThread, DueAreDone, OwnAnswersOnly, Fresh
<1> QED
  BY <1>3, <1>4 DEF WantLogin

\* A client that joins finds no process of its machine; one that leaves takes all
\* of it along.
LEMMA JoinQuestioning ==
  ASSUME OneClientEach, LoginsTyped, Present, NetTyped, Questioning,
         NEW c \in Clients, Join(c)
  PROVE  Questioning'
<1>1. UNCHANGED <<pending, thread, login, netVars>>
      /\ listed' = listed \ On(MachineOf[c]) /\ ~online[c]
  BY DEF Join, taskVars, todoVars, Killed
<1>2. On(MachineOf[c]) = {}
  BY <1>1, Users DEF On, OneClientEach, Present
<1>3. Due' = Due /\ listed' = listed
  BY <1>1, <1>2 DEF Due
<1>4. UnderWay' /\ OneAtATime'
  BY <1>1, <1>3, UnderWayKept DEF Questioning, Asking
<1> QED
  BY <1>1, <1>3, <1>4 DEF Questioning, OneThread, DueAreDone, OwnAnswersOnly, Fresh

LEMMA LeaveQuestioning ==
  ASSUME OneClientEach, LoginsTyped, NetTyped, Questioning, NEW c \in Clients, Leave(c)
  PROVE  Questioning'
<1>1. UNCHANGED <<pending, thread, login>>
      /\ listed' = listed \ On(MachineOf[c])
  BY DEF Leave, taskVars, todoVars, Killed
<1>2. /\ asked' = [asked EXCEPT ![c] = NoQuestion]
      /\ requests' = {m \in requests : m.to # c}
      /\ answers' = {m \in answers : m.from # c}
  BY DEF Leave
<1>3. Due' = Due
  BY <1>1 DEF Due
<1>4. ASSUME NEW d \in Clients, NEW p, d # c, Asking(d, p)
      PROVE  Asking(d, p)'
  <2>1. p \in listed /\ p \notin On(MachineOf[c])
    BY <1>4 DEF Asking, On, OneClientEach
  <2> QED
    BY <1>1, <1>3, <1>4, <2>1 DEF Asking
<1>5. asked \in [Clients -> Questions \cup {NoQuestion}]
      /\ (\A m \in requests : m.to \in Clients) /\ \A a \in answers : a.from \in Clients
  BY DEF NetTyped, Requests, Answers
<1>6. \A d \in Clients : asked'[d] # NoQuestion => d # c /\ asked'[d] = asked[d]
  BY <1>2, <1>5
<1>7. UnderWay'
  <2>1. \A m \in requests' : Asking(m.to, m.of)'
    BY <1>2, <1>4, <1>5 DEF Questioning, UnderWay
  <2>2. \A a \in answers' : Asking(a.from, a.of)'
    BY <1>2, <1>4, <1>5 DEF Questioning, UnderWay
  <2>3. ASSUME NEW d \in Clients, asked'[d] # NoQuestion
        PROVE  Asking(d, asked[d].of)' /\ asked'[d].spoiled = FALSE
    <3>1. PICK p : p = asked[d].of
      OBVIOUS
    <3>2. Asking(d, p) /\ d # c /\ asked'[d].of = p /\ asked'[d].spoiled = FALSE
      BY <1>6, <2>3, <3>1 DEF Questioning, UnderWay
    <3> QED
      BY <1>4, <3>2
  <2> QED
    BY <2>1, <2>2, <2>3 DEF UnderWay, NoQuestion
<1>8. OneAtATime'
  BY <1>2, <1>5, <1>6 DEF Questioning, OneAtATime, NoQuestion
<1> QED
  BY <1>1, <1>3, <1>7, <1>8 DEF Questioning, OneThread, DueAreDone, OwnAnswersOnly, Fresh

\* In the game nobody is inside, so the threads of a process that waits are done.
LEMMA DoneInGame ==
  ASSUME Locks, main = "game", NEW c, NEW p, Asking(c, p)
  PROVE  \A t \in Threads : t[1] = p => thread[t] = Nothing
<1>1. \A t \in Threads : thread[t] \notin Within \cup {ToOpenExit}
  BY DEF Locks, EntryHeld
<1>2. ToOpen \in Within
  BY DEF Within
<1> QED
  BY <1>1, <1>2 DEF Asking, Resting

LEMMA ReceiveAnswerQuestioning ==
  ASSUME OneClientEach, Locks, LoginsTyped, Present, NetTyped, Questioning,
         NEW m \in answers, ReceiveAnswer(m)
  PROVE  Questioning'
<1> DEFINE p == m.of
<1>1. /\ main = "game" /\ answers' = answers \ {m}
      /\ UNCHANGED <<pending, listed, asked, requests>>
  BY DEF ReceiveAnswer, todoVars
<1>2. /\ m.from \in Clients /\ Asking(m.from, p) /\ p \in listed
      /\ login[p].user = m.from
  BY DEF NetTyped, Answers, Questioning, UnderWay, Asking
<1>3. p \in Jobs /\ p \notin Fresh /\ \A q \in On(MachineOf[m.from]) : q = p
  BY <1>2, Users DEF On, Present
<1>4. p \in On(MachineOf[m.from])
  BY <1>2 DEF On
<1>5. /\ \E s \in Slots : thread[<<p, s>>] = <<>>
      /\ login' = [login EXCEPT ![p].of = m.of, ![p].kind = m.kind,
                           ![p].automatic = m.automatic, ![p].success = FALSE]
      /\ thread' = [thread EXCEPT ![<<p, FirstFree(p)>>] = <<"authorize">>]
  BY <1>3, <1>4 DEF ReceiveAnswer
<1> DEFINE t == <<p, FirstFree(p)>>
<1>6. t \in Threads /\ t[1] = p
  BY <1>3, <1>5 DEF FirstFree, Threads
<1>7. thread'[t] = ToAuthorize /\ \A u \in Threads : u # t => thread'[u] = thread[u]
  BY <1>5, <1>6 DEF ToAuthorize, Locks
<1>8. login[p] \in [user : Clients, of : Jobs \cup {Nobody}, kind : Kinds,
                    automatic : BOOLEAN, success : BOOLEAN]
  BY <1>2, <1>3 DEF LoginsTyped, LoginType, Fresh
<1>9. /\ \A q \in Jobs : q # p => login'[q] = login[q]
      /\ login'[p].of = p /\ login'[p].user = m.from
  BY <1>2, <1>3, <1>5, <1>8 DEF LoginsTyped
<1> HIDE DEF t, p
<1>10. Due' = Due
  BY <1>1 DEF Due
<1>11. ASSUME NEW c, NEW q \in listed, c # m.from, Asking(c, q)
       PROVE  Asking(c, q)'
  <2>1. q # p /\ q \in Jobs
    BY <1>2, <1>11, Users DEF Asking
  <2> QED
    BY <1>1, <1>6, <1>7, <1>9, <1>10, <1>11, <2>1 DEF Asking
<1>12. \A c, q : Asking(c, q) => q \in listed
  BY DEF Asking
<1>13. UnderWay' /\ OneAtATime'
  <2>1. OneAtATime'
    BY <1>1 DEF Questioning, OneAtATime, NoQuestion
  <2>2. \A r \in requests : r.to # m.from
    BY DEF Questioning, OneAtATime
  <2>3. \A r \in requests : Asking(r.to, r.of)'
    BY <1>11, <1>12, <2>2 DEF Questioning, UnderWay
  <2>4. \A a \in answers' : a \in answers /\ a.from # m.from
    BY <1>1 DEF Questioning, OneAtATime
  <2>5. \A a \in answers' : Asking(a.from, a.of)'
    BY <1>11, <1>12, <2>4 DEF Questioning, UnderWay
  <2>6. ASSUME NEW c \in Clients, asked[c] # NoQuestion
        PROVE  Asking(c, asked[c].of)' /\ asked[c].spoiled = FALSE
    <3>1. c # m.from
      BY <2>6 DEF Questioning, OneAtATime
    <3> QED
      BY <1>1, <1>11, <1>12, <2>6, <3>1 DEF Questioning, UnderWay
  <2> QED
    BY <1>1, <2>1, <2>3, <2>5, <2>6 DEF UnderWay, NoQuestion
<1>14. OneThread'
  BY <1>1, <1>2, <1>6, <1>7, DoneInGame DEF Questioning, OneThread
<1>15. ToAuthorize \notin WillAsk
  BY Kept
<1>16. Fresh' \subseteq Fresh
  <2>1. login'[p] \in [user : Clients, of : Jobs \cup {Nobody}, kind : Kinds,
                       automatic : BOOLEAN, success : BOOLEAN]
    BY <1>3, <1>5, <1>8 DEF LoginsTyped, NetTyped, Answers
  <2>2. login'[p] # Unused
    BY <2>1 DEF Unused
  <2> QED
    BY <1>9, <2>2 DEF Fresh, Unused
<1>17. DueAreDone'
  BY <1>7, <1>10, <1>15, <1>16 DEF Questioning, DueAreDone
<1>18. OwnAnswersOnly'
  BY <1>1, <1>9, Users DEF Questioning, OwnAnswersOnly
<1> QED
  BY <1>13, <1>14, <1>17, <1>18 DEF Questioning

----------------------------------------------------------------------------
\* Threads: one that goes on and asks nothing.
LEMMA StepQuestioning ==
  ASSUME Locks, NetTyped, Questioning, NEW t \in Threads, NEW r,
         thread[t] # Nothing, thread' = [thread EXCEPT ![t] = r],
         thread[t] \in Resting => r \in Resting,
         r \in WillAsk => thread[t] \in WillAsk,
         UNCHANGED <<pending, listed, netVars>>, Fresh' = Fresh,
         \A p \in listed : login'[p].user = login[p].user /\ login'[p].of = login[p].of
  PROVE  Questioning'
<1>1. thread'[t] = r /\ \A u \in Threads : u # t => thread'[u] = thread[u]
  BY DEF Locks
<1>2. Due' = Due
  BY DEF Due
<1>3. UnderWay' /\ OneAtATime'
  <2>1. ASSUME NEW c \in Clients, NEW p \in listed, Asking(c, p)
        PROVE  Asking(c, p)'
    BY <1>1, <1>2, <2>1 DEF Asking
  <2> QED
    BY <2>1, UnderWayKept DEF Questioning
<1>4. OneThread'
  BY <1>1 DEF Questioning, OneThread
<1>5. DueAreDone'
  BY <1>1, <1>2 DEF Questioning, DueAreDone
<1>6. OwnAnswersOnly'
  BY DEF Questioning, OwnAnswersOnly
<1> QED
  BY <1>3, <1>4, <1>5, <1>6 DEF Questioning

LEMMA AddTaskQuestioning ==
  ASSUME Locks, LoginsTyped, Present, NetTyped, Questioning, pending \in Seq(Jobs),
         NEW t \in Threads, AddTask(t), UNCHANGED <<loginVars, netVars>>
  PROVE  Questioning'
<1>1. /\ thread[t] \in Programs /\ thread[t] # Nothing /\ First(thread[t]) = "add"
      /\ thread' = [thread EXCEPT ![t] = Later(thread[t])]
  BY Takes DEF AddTask, Locks
<1>2. thread[t] \notin Resting /\ Later(thread[t]) \notin WillAsk
  BY <1>1, Moves
<1>3. Due' = Due \cup {t[1]} /\ t[1] \in Jobs /\ t[1] \notin Fresh
  BY <1>1, ThreadPairs, DueGrows DEF AddTask, Present
<1>4. /\ thread'[t] = Later(thread[t])
      /\ \A u \in Threads : u # t => thread'[u] = thread[u]
  BY <1>1 DEF Locks
<1>5. UNCHANGED <<login, listed>> /\ Fresh' = Fresh
  BY DEF loginVars, Fresh
<1>6. UnderWay' /\ OneAtATime'
  <2>1. ASSUME NEW c \in Clients, NEW p \in listed, Asking(c, p)
        PROVE  Asking(c, p)'
    <3>1. p # t[1]
      BY <1>2, <2>1 DEF Asking
    <3> QED
      BY <1>3, <1>4, <1>5, <2>1, <3>1 DEF Asking
  <2> QED
    BY <2>1, UnderWayKept DEF Questioning
<1>7. OneThread'
  BY <1>1, <1>4 DEF Questioning, OneThread
<1>8. DueAreDone'
  <2>1. \A u \in Threads : u # t /\ u[1] = t[1] => thread[u] = Nothing
    BY <1>1 DEF Questioning, OneThread
  <2>2. Nothing \notin WillAsk
    BY Kept DEF Resting
  <2> QED
    BY <1>2, <1>3, <1>4, <1>5, <2>1, <2>2 DEF Questioning, DueAreDone
<1>9. OwnAnswersOnly'
  BY <1>5 DEF Questioning, OwnAnswersOnly
<1> QED
  BY <1>6, <1>7, <1>8, <1>9 DEF Questioning

LEMMA ThreadStepQuestioning ==
  ASSUME Locks, LoginsTyped, Present, NetTyped, Questioning, pending \in Seq(Jobs),
         NEW t \in Threads, ThreadStep(t), UNCHANGED <<loginVars, netVars>>
  PROVE  Questioning'
<1>1. CASE AddTask(t)
  BY <1>1, AddTaskQuestioning
<1>2. CASE ~AddTask(t)
  <2>1. PICK step \in {"once", "list", "exit", "entry", "openEntry", "openExit"} :
          At(t, step)
    BY <1>2 DEF ThreadStep, ListTask, TakeList, TakeExit, TakeEntry, OpenEntry,
       OpenExit
  <2>2. Goes(t) /\ UNCHANGED pending
    BY <1>2 DEF ThreadStep, ListTask, TakeList, TakeExit, TakeEntry, OpenEntry,
       OpenExit, todoVars
  <2>3. /\ thread[t] \in Programs /\ thread[t] # Nothing /\ First(thread[t]) = step
        /\ thread' = [thread EXCEPT ![t] = Later(thread[t])]
    BY <2>1, <2>2, Takes DEF Locks
  <2>4. Nothing \in Resting /\ ToOpenExit \in Resting /\ WillAsk \cap Resting = {}
    BY Kept DEF Resting
  <2>5. /\ thread[t] \in Resting => Later(thread[t]) \in Resting
        /\ Later(thread[t]) \in WillAsk => thread[t] \in WillAsk
    BY <2>1, <2>3, <2>4, Moves
  <2>6. UNCHANGED <<login, listed>> /\ Fresh' = Fresh
    BY DEF loginVars, Fresh
  <2> QED
    BY <2>2, <2>3, <2>5, <2>6, StepQuestioning
<1> QED
  BY <1>1, <1>2

LEMMA Resume ==
  /\ ToFetch \in WillAsk /\ ToFetch \notin Resting /\ ToFetch # Nothing
  /\ ToAuthorize \notin Resting /\ ToAuthorize # Nothing
  /\ ToCheck \notin Resting /\ ToCheck # Nothing /\ ListAdd \notin WillAsk
  /\ ToQuery \in WillAsk /\ ToQuery \notin Resting /\ ToOpen \in Resting
  /\ ToQuery # Nothing /\ ToOpen \notin WillAsk /\ Nothing \in Resting
<1>1. ListAdd \notin WillAsk /\ ToCheck \notin Resting
  BY Shapes DEF WillAsk, Resting
<1> QED
  BY <1>1, Shapes, Kept DEF WillAsk, Resting

LEMMA FetchInfoQuestioning ==
  ASSUME Locks, NetTyped, Questioning, NEW t \in Threads, FetchInfo(t)
  PROVE  Questioning'
<1>1. At(t, "fetch") /\ UNCHANGED <<pending, login, listed, netVars>>
  BY DEF FetchInfo, todoVars, loginVars
<1>2. thread[t] = ToFetch
  BY <1>1, Takes, Moves DEF Locks
<1>3. PICK r \in {FailAdd, ListQuery, ToAdd} : thread' = [thread EXCEPT ![t] = r]
  BY Given DEF FetchInfo
<1>4. Fresh' = Fresh
  BY <1>1 DEF Fresh
<1> QED
  BY <1>1, <1>2, <1>3, <1>4, Resume, StepQuestioning

LEMMA AuthorizeQuestioning ==
  ASSUME Locks, NetTyped, Questioning, NEW t \in Threads, Authorize(t)
  PROVE  Questioning'
<1>1. At(t, "authorize") /\ UNCHANGED <<pending, login, listed, netVars>>
  BY DEF Authorize, todoVars, loginVars
<1>2. thread[t] = ToAuthorize
  BY <1>1, Takes, Moves DEF Locks
<1>3. PICK r \in {ToAdd, ToAddTwice, ToCheck, AbortAdd} :
        thread' = [thread EXCEPT ![t] = r]
  BY Given DEF Authorize
<1>4. r \notin WillAsk
  BY Kept
<1>5. Fresh' = Fresh
  BY <1>1 DEF Fresh
<1> QED
  BY <1>1, <1>2, <1>3, <1>4, <1>5, Resume, StepQuestioning

LEMMA CheckQuestioning ==
  ASSUME Locks, LoginsTyped, Present, NetTyped, Questioning,
         NEW t \in Threads, Check(t)
  PROVE  Questioning'
<1>1. At(t, "check") /\ Goes(t) /\ UNCHANGED <<pending, listed, netVars>>
  BY DEF Check, todoVars
<1>2. thread[t] = ToCheck /\ thread' = [thread EXCEPT ![t] = ListAdd]
  BY <1>1, Takes, Moves DEF Locks
<1>3. t[1] \in Jobs /\ t[1] \notin Fresh
  BY <1>2, Resume, ThreadPairs DEF Present
<1>4. PICK success : login' = [login EXCEPT ![t[1]].success = success]
  BY DEF Check
<1>5. login[t[1]] \in [user : Clients, of : Jobs \cup {Nobody}, kind : Kinds,
                       automatic : BOOLEAN, success : BOOLEAN]
  BY <1>3 DEF LoginsTyped, LoginType, Fresh
<1>6. /\ \A p \in Jobs : p # t[1] => login'[p] = login[p]
      /\ login'[t[1]].user = login[t[1]].user
      /\ login'[t[1]].of = login[t[1]].of
  BY <1>3, <1>4, <1>5 DEF LoginsTyped
<1>7. login'[t[1]] # Unused
  BY <1>3, <1>4, <1>5 DEF LoginsTyped, Unused
<1>8. Fresh' = Fresh
  BY <1>3, <1>6, <1>7 DEF Fresh, Unused
<1>9. \A p \in listed : login'[p].user = login[p].user /\ login'[p].of = login[p].of
  BY <1>6, Users
<1> QED
  BY <1>1, <1>2, <1>8, <1>9, Resume, StepQuestioning

\* A client is asked for a process that has asked for nothing before.
LEMMA QueryQuestioning ==
  ASSUME OneClientEach, Locks, LoginsTyped, Present, NetTyped, Questioning,
         NEW t \in Threads, Query(t)
  PROVE  Questioning'
<1> DEFINE p == t[1]
           c == login[p].user
           m == [to |-> c, of |-> p, failLast |-> failedLast[MachineOf[c]]]
<1>1. /\ At(t, "query") /\ Goes(t)
      /\ requests' = IF Active(p) THEN requests \cup {m} ELSE requests
      /\ UNCHANGED <<pending, login, listed, asked, answers>>
  BY DEF Query, todoVars, loginVars
<1>2. thread[t] = ToQuery /\ thread' = [thread EXCEPT ![t] = ToOpen]
  BY <1>1, Takes, Moves DEF Locks
<1>3. Fresh' = Fresh /\ Due' = Due
  BY <1>1 DEF Fresh, Due
<1>4. CASE p \notin listed
  <2>1. UNCHANGED netVars
    BY <1>1, <1>4 DEF netVars, Active
  <2> QED
    BY <1>1, <1>2, <1>3, <2>1, Resume, StepQuestioning
<1>5. CASE p \in listed
  <2>1. requests' = requests \cup {m} /\ m.to = c /\ m.of = p
    BY <1>1, <1>5 DEF Active
  <2> HIDE DEF m
  <2>2. \A q : ~Asking(c, q)
    <3> SUFFICES ASSUME NEW q, Asking(c, q) PROVE FALSE
      OBVIOUS
    <3>1. q = p
      BY <1>5, AskingOne
    <3> QED
      BY <1>2, <3>1, Resume DEF Asking
  <2>3. c \in Clients
    BY <1>5, Users
  <2>4. /\ \A n \in requests : n.to # c
        /\ asked[c] = NoQuestion
        /\ \A a \in answers : a.from # c
    BY <2>2, <2>3 DEF Questioning, UnderWay
  <2>5. thread'[t] = ToOpen /\ \A u \in Threads : u # t => thread'[u] = thread[u]
    BY <1>2 DEF Locks
  <2>6. p \notin Due
    BY <1>2, Resume DEF Questioning, DueAreDone
  <2>7. \A u \in Threads : u # t /\ u[1] = p => thread[u] = Nothing
    BY <1>2, Resume DEF Questioning, OneThread
  <2>8. Asking(c, p)'
    BY <1>1, <1>3, <1>5, <2>5, <2>6, <2>7, Resume DEF Asking
  <2>9. \A d, q : Asking(d, q) => Asking(d, q)'
    <3> SUFFICES ASSUME NEW d, NEW q, Asking(d, q) PROVE Asking(d, q)'
      OBVIOUS
    <3>1. q # p
      BY <2>2 DEF Asking
    <3> QED
      BY <1>1, <1>3, <2>5, <3>1 DEF Asking
  <2>10. UnderWay'
    BY <1>1, <2>1, <2>8, <2>9 DEF Questioning, UnderWay, NoQuestion
  <2>11. OneAtATime'
    BY <1>1, <2>1, <2>4 DEF Questioning, OneAtATime, NoQuestion
  <2>12. OneThread'
    BY <1>2, <2>5, Resume DEF Questioning, OneThread
  <2>13. DueAreDone'
    BY <1>3, <2>5, Resume DEF Questioning, DueAreDone
  <2>14. OwnAnswersOnly'
    BY <1>1 DEF Questioning, OwnAnswersOnly
  <2> QED
    BY <2>10, <2>11, <2>12, <2>13, <2>14 DEF Questioning
<1> QED
  BY <1>4, <1>5

----------------------------------------------------------------------------
\* The client's side.
LEMMA ClientQuestioning ==
  ASSUME NetTyped, Questioning, NEW c \in Clients, ClientGoes(c)
  PROVE  Questioning'
<1>1. UNCHANGED <<pending, thread, login, listed>>
  BY DEF ClientGoes, ReceiveRequest, Answer, taskVars, todoVars, loginVars
<1>2. Due' = Due /\ Fresh' = Fresh
  BY <1>1 DEF Due, Fresh
<1>3. \A d, q : Asking(d, q) <=> Asking(d, q)'
  BY <1>1, <1>2 DEF Asking
<1>4. OneThread' /\ DueAreDone' /\ OwnAnswersOnly'
  BY <1>1, <1>2 DEF Questioning, OneThread, DueAreDone, OwnAnswersOnly
<1>5. asked \in [Clients -> Questions \cup {NoQuestion}]
  BY DEF NetTyped
<1>6. ASSUME NEW m \in requests, m.to = c, ReceiveRequest(m)
      PROVE  UnderWay' /\ OneAtATime'
  <2>1. asked[c] = NoQuestion
    BY <1>6 DEF Questioning, OneAtATime
  <2>2. /\ requests' = requests \ {m} /\ UNCHANGED answers
        /\ asked' = [asked EXCEPT ![c] =
             [of |-> m.of, failLast |-> m.failLast, spoiled |-> FALSE]]
    BY <1>6, <2>1 DEF ReceiveRequest
  <2>3. asked'[c].of = m.of /\ asked'[c].spoiled = FALSE
        /\ \A d \in Clients : d # c => asked'[d] = asked[d]
    BY <1>5, <2>2
  <2>4. Asking(c, m.of)
    BY <1>6 DEF Questioning, UnderWay
  <2>5. \A n \in requests' : n \in requests /\ n.to # c
    BY <1>6, <2>2 DEF Questioning, OneAtATime
  <2>6. \A a \in answers : a.from # c
    BY <1>6 DEF Questioning, OneAtATime
  <2>7. \A d \in Clients :
          asked'[d] # NoQuestion => Asking(d, asked'[d].of) /\ asked'[d].spoiled = FALSE
    BY <2>3, <2>4 DEF Questioning, UnderWay
  <2>8. (\A n \in requests : n.to \in Clients) /\ \A a \in answers : a.from \in Clients
    BY DEF NetTyped, Requests, Answers
  <2>9. UnderWay'
    <3>1. \A n \in requests' : Asking(n.to, n.of)
      BY <2>5 DEF Questioning, UnderWay
    <3>2. \A a \in answers' : Asking(a.from, a.of)
      BY <2>2 DEF Questioning, UnderWay
    <3> QED
      BY <1>3, <2>7, <3>1, <3>2 DEF UnderWay, NoQuestion
  <2>10. OneAtATime'
    BY <2>2, <2>3, <2>5, <2>6, <2>8 DEF Questioning, OneAtATime, NoQuestion
  <2> QED
    BY <2>9, <2>10
<1>7. ASSUME Answer(c)
      PROVE  UnderWay' /\ OneAtATime'
  <2>1. asked[c] # NoQuestion /\ asked' = [asked EXCEPT ![c] = NoQuestion]
        /\ UNCHANGED requests
    BY <1>7 DEF Answer
  <2>2. Asking(c, asked[c].of) /\ asked[c].spoiled = FALSE
    BY <2>1 DEF Questioning, UnderWay
  <2>3. PICK kind, automatic :
          answers' = answers \cup
            {[from |-> c,
              of |-> IF asked[c].spoiled THEN Nobody ELSE asked[c].of,
              kind |-> kind, automatic |-> automatic]}
    BY <1>7 DEF Answer
  <2> DEFINE m == [from |-> c, of |-> asked[c].of,
                   kind |-> kind, automatic |-> automatic]
  <2>4. answers' = answers \cup {m}
    BY <2>2, <2>3
  <2>5. m.from = c /\ m.of = asked[c].of
    OBVIOUS
  <2> HIDE DEF m
  <2>6. asked'[c] = NoQuestion /\ \A d \in Clients : d # c => asked'[d] = asked[d]
    BY <1>5, <2>1
  <2>7. (\A n \in requests : n.to # c) /\ \A a \in answers : a.from # c
    BY <2>1 DEF Questioning, OneAtATime
  <2>8. (\A n \in requests : n.to \in Clients) /\ \A a \in answers : a.from \in Clients
    BY DEF NetTyped, Requests, Answers
  <2>9. UnderWay'
    <3>1. \A n \in requests' : Asking(n.to, n.of)
      BY <2>1 DEF Questioning, UnderWay
    <3>2. \A a \in answers' : Asking(a.from, a.of)
      BY <2>2, <2>4, <2>5 DEF Questioning, UnderWay
    <3>3. \A d \in Clients :
            asked'[d] # NoQuestion => Asking(d, asked'[d].of) /\ asked'[d].spoiled = FALSE
      BY <2>6 DEF Questioning, UnderWay
    <3> QED
      BY <1>3, <3>1, <3>2, <3>3 DEF UnderWay, NoQuestion
  <2>10. OneAtATime'
    BY <2>1, <2>4, <2>5, <2>6, <2>7, <2>8 DEF Questioning, OneAtATime, NoQuestion
  <2> QED
    BY <2>9, <2>10
<1> QED
  BY <1>4, <1>6, <1>7 DEF ClientGoes, Questioning

\* Granting wishes only takes them back.
LEMMA WishTypes ==
  ASSUME wanted \in [Clients -> BOOLEAN], NEW gone, NEW redo, Schedule(gone, redo)
  PROVE  wanted' \in [Clients -> BOOLEAN]
<1>1. UNCHANGED wanted
      \/ \E S : wanted' = [c \in Clients |-> wanted[c] /\ c \notin S]
  BY DEF Schedule
<1>2. CASE UNCHANGED wanted
  BY <1>2
<1>3. CASE \E S : wanted' = [c \in Clients |-> wanted[c] /\ c \notin S]
  <2>1. PICK S : wanted' = [c \in Clients |-> wanted[c] /\ c \notin S]
    BY <1>3
  <2>2. \A c \in Clients : (wanted[c] /\ c \notin S) \in BOOLEAN
    BY Zenon
  <2> QED
    BY <2>1, <2>2, Zenon
<1> QED
  BY <1>1, <1>2, <1>3

LEMMA FinishTypes ==
  ASSUME PlayersTyped, LoginsTyped, NEW p \in Jobs, Finish(p)
  PROVE  PlayersTyped'
<1>1. CASE UNCHANGED playerVars
  BY <1>1 DEF playerVars, PlayersTyped
<1>2. CASE p \in listed /\ ~UNCHANGED playerVars
  <2> DEFINE c == login[p].user
  <2>1. /\ UNCHANGED online
        /\ failedLast' = [failedLast EXCEPT ![MachineOf[c]] = ~login[p].success]
    BY <1>2 DEF Finish
  <2>2. failedLast' \in [Machines -> BOOLEAN]
    <3>1. (~login[p].success) \in BOOLEAN
      BY Zenon
    <3> HIDE DEF c
    <3> QED
      BY <2>1, <3>1, Zenon DEF PlayersTyped
  <2>3. UNCHANGED wanted \/ \E redo : Schedule({p}, redo)
    BY <1>2 DEF Finish
  <2>4. wanted' \in [Clients -> BOOLEAN]
    BY <2>3, WishTypes DEF PlayersTyped
  <2>5. UNCHANGED authed \/ authed' = [authed EXCEPT ![c] = TRUE]
    BY <1>2 DEF Finish
  <2>6. authed' \in [Clients -> BOOLEAN]
    BY <2>5 DEF PlayersTyped
  <2> QED
    BY <2>1, <2>2, <2>4, <2>6 DEF PlayersTyped
<1> QED
  BY <1>1, <1>2 DEF Finish

LEMMA PlayerTypes ==
  ASSUME PlayersTyped, LoginsTyped, TasksTyped, Next
  PROVE  PlayersTyped'
<1>1. CASE UNCHANGED playerVars
  BY <1>1 DEF playerVars, PlayersTyped
<1>2. CASE FinishTask
  <2>1. Head(pending) \in Jobs
    BY <1>2 DEF FinishTask, TakeTask, TasksTyped
  <2> QED
    BY <1>2, <2>1, FinishTypes DEF FinishTask
<1>3. ASSUME NEW c \in Clients, Join(c)
      PROVE  PlayersTyped'
  BY <1>3 DEF Join, PlayersTyped
<1>4. ASSUME NEW c \in Clients, Leave(c)
      PROVE  PlayersTyped'
  BY <1>4 DEF Leave, PlayersTyped
<1>5. ASSUME NEW c \in Clients, WantLogin(c)
      PROVE  PlayersTyped'
  BY <1>5 DEF WantLogin, PlayersTyped
<1>6. \/ UNCHANGED playerVars
      \/ FinishTask
      \/ \E c \in Clients : Join(c) \/ Leave(c) \/ WantLogin(c)
  BY DEF Next, MainGoesOn, ThreadGoes, ClientGoes, Answered, FetchInfo, Query,
     Authorize, Check, ReceiveRequest, ReceiveAnswer, Answer
<1> QED
  BY <1>1, <1>2, <1>3, <1>4, <1>5, <1>6

LEMMA QueryTypes ==
  ASSUME NetTyped, LoginsTyped, PlayersTyped, NEW t \in Threads, Query(t)
  PROVE  NetTyped'
<1> DEFINE m == [to |-> login[t[1]].user, of |-> t[1],
                 failLast |-> failedLast[MachineOf[login[t[1]].user]]]
<1>1. UNCHANGED <<asked, answers>>
      /\ requests' = IF Active(t[1]) THEN requests \cup {m} ELSE requests
  BY DEF Query
<1>2. ASSUME Active(t[1]) PROVE m \in Requests
  <2>1. t[1] \in listed
    BY <1>2 DEF Active
  <2>2. login[t[1]].user \in Clients /\ MachineOf[login[t[1]].user] \in Machines
        /\ t[1] \in Jobs
    BY <2>1, Users
  <2>3. failedLast[MachineOf[login[t[1]].user]] \in BOOLEAN
    BY <2>2 DEF PlayersTyped
  <2> QED
    BY <2>2, <2>3 DEF Requests
<1> HIDE DEF m
<1> QED
  BY <1>1, <1>2 DEF NetTyped

LEMMA ReceiveRequestTypes ==
  ASSUME NetTyped, NEW m \in requests, ReceiveRequest(m)
  PROVE  NetTyped'
<1> DEFINE q == asked[m.to]
           r == IF q = NoQuestion
                THEN [of |-> m.of, failLast |-> m.failLast, spoiled |-> FALSE]
                ELSE [q EXCEPT !.spoiled = TRUE]
<1>1. asked' = [asked EXCEPT ![m.to] = r] /\ requests' = requests \ {m}
      /\ UNCHANGED answers
  BY DEF ReceiveRequest
<1>2. m \in Requests /\ m.to \in Clients /\ m.of \in Jobs /\ m.failLast \in BOOLEAN
  BY DEF NetTyped, Requests
<1>3. q \in Questions \cup {NoQuestion}
  BY <1>2 DEF NetTyped
<1>4. r \in Questions
  <2>1. CASE q = NoQuestion
    BY <1>2, <2>1 DEF Questions
  <2>2. CASE q # NoQuestion
    <3>1. q \in Questions
      BY <1>3, <2>2
    <3>2. [q EXCEPT !.spoiled = TRUE] \in Questions
      BY <3>1 DEF Questions
    <3> QED
      BY <2>2, <3>2
  <2> QED
    BY <2>1, <2>2
<1> HIDE DEF q, r
<1> QED
  BY <1>1, <1>2, <1>4 DEF NetTyped

LEMMA AnswerTypes ==
  ASSUME NetTyped, NEW c \in Clients, Answer(c)
  PROVE  NetTyped'
<1>1. asked[c] \in Questions
  BY DEF NetTyped, Answer
<1>2. PICK kind \in Kinds, automatic \in BOOLEAN :
        answers' = answers \cup
          {[from |-> c,
            of |-> IF asked[c].spoiled THEN Nobody ELSE asked[c].of,
            kind |-> kind, automatic |-> automatic]}
  BY DEF Answer
<1>3. asked' = [asked EXCEPT ![c] = NoQuestion] /\ UNCHANGED requests
  BY DEF Answer
<1>4. (IF asked[c].spoiled THEN Nobody ELSE asked[c].of) \in Jobs \cup {Nobody}
  BY <1>1 DEF Questions
<1>5. answers' \subseteq Answers
  BY <1>2, <1>4 DEF NetTyped, Answers
<1> QED
  BY <1>3, <1>5 DEF NetTyped

LEMMA NetTypes ==
  ASSUME NetTyped, LoginsTyped, PlayersTyped, Next
  PROVE  NetTyped'
<1>1. CASE UNCHANGED netVars
  BY <1>1 DEF netVars, NetTyped
<1>2. ASSUME NEW c \in Clients, Leave(c)
      PROVE  NetTyped'
  BY <1>2 DEF Leave, NetTyped
<1>3. ASSUME NEW m \in answers, ReceiveAnswer(m)
      PROVE  NetTyped'
  BY <1>3 DEF ReceiveAnswer, NetTyped
<1>4. \/ UNCHANGED netVars
      \/ \E t \in Threads : Query(t)
      \/ \E m \in requests : ReceiveRequest(m)
      \/ \E m \in answers : ReceiveAnswer(m)
      \/ \E c \in Clients : Leave(c) \/ Answer(c)
  BY DEF Next, MainGoesOn, ThreadGoes, ClientGoes, Answered, FetchInfo, FinishTask,
     Authorize, Check, Join, WantLogin
<1> QED
  BY <1>1, <1>2, <1>3, <1>4, QueryTypes, ReceiveRequestTypes, AnswerTypes

----------------------------------------------------------------------------
\* The invariant of logins in general.
LoginInv ==
  /\ TasksTyped /\ FlagsTyped /\ PlayersTyped /\ NetTyped /\ LoginsTyped
  /\ Locks
  /\ Present

LEMMA LoginInit == Init => LoginInv
<1> SUFFICES ASSUME Init PROVE LoginInv
  OBVIOUS
<1> USE DEF Init, TaskInit
<1>1. TasksTyped /\ FlagsTyped
  <2>1. pending \in Seq(Jobs) /\ events \in Seq(Jobs)
    OBVIOUS
  <2>2. entry \in [Jobs -> Holders] /\ exit \in [Jobs -> Holders]
        /\ listLock \in Holders
    BY DEF Holders
  <2>3. main = "game" /\ syncing = Nobody /\ queued = FALSE /\ current = FALSE
    OBVIOUS
  <2>4. FlagsTyped
    BY <2>3, Zenon DEF FlagsTyped
  <2> HIDE DEF Init, TaskInit
  <2> QED
    BY <2>1, <2>2, <2>3, <2>4 DEF TasksTyped, LockTypes
<1>2. PlayersTyped /\ NetTyped
  BY DEF PlayersTyped, NetTyped
<1>3. LoginsTyped /\ Present
  BY DEF LoginsTyped, LoginType, Present, Nothing
<1>4. Nothing \in Programs /\ Nothing \notin Holding /\ Nothing \notin Within
      /\ Nothing # ToOpenExit
  BY Kept DEF Outside
<1>5. thread \in [Threads -> Programs] /\ \A t \in Threads : thread[t] = Nothing
  BY <1>4 DEF Nothing
<1>6. Locks
  <2>1. main = "game" /\ syncing = Nobody
        /\ \A p \in Jobs : entry[p] = "main" /\ exit[p] = "nobody"
    OBVIOUS
  <2> QED
    BY <1>4, <1>5, <2>1 DEF Locks, ExitHeld, EntryHeld
<1> QED
  BY <1>1, <1>2, <1>3, <1>6 DEF LoginInv

LEMMA LoginStep == LoginInv /\ [Next]_vars => LoginInv'
<1> SUFFICES ASSUME LoginInv, [Next]_vars PROVE LoginInv'
  OBVIOUS
<1>1. CASE UNCHANGED vars
  BY <1>1 DEF vars, taskVars, todoVars, syncVars, playerVars, loginVars, netVars,
     LoginInv, TasksTyped, LockTypes, FlagsTyped, PlayersTyped, NetTyped, LoginsTyped,
     Locks, ExitHeld, EntryHeld, Present, Fresh
<1>2. CASE Next
  <2>1. TasksTyped /\ FlagsTyped /\ PlayersTyped /\ NetTyped /\ LoginsTyped /\ Locks
        /\ Present
    BY DEF LoginInv
  <2>2. FlagsTyped' /\ PlayersTyped' /\ NetTyped'
    BY <1>2, <2>1, FlagTypes, PlayerTypes, NetTypes
  <2>3. /\ LockTypes /\ pending \in Seq(Jobs) /\ answers \subseteq Answers
        /\ online \in [Clients -> BOOLEAN] /\ wanted \in [Clients -> BOOLEAN]
    BY <2>1 DEF TasksTyped, PlayersTyped, NetTyped
  <2>4. ASSUME TasksTyped', LoginsTyped', Locks', Present'
        PROVE  LoginInv'
    BY <2>2, <2>4, Zenon DEF LoginInv
  <2>5. CASE FinishTask
    <3>1. Tail(pending) \in Seq(Jobs)
      BY <2>3, <2>5 DEF FinishTask, TakeTask
    <3>2. TasksTyped'
      BY <2>1, <2>5, <3>1 DEF FinishTask, TakeTask, syncVars, TasksTyped, LockTypes
    <3> QED
      BY <2>1, <2>3, <2>4, <2>5, <3>2, FinishTaskSafe
  <2>6. CASE MainStep /\ UNCHANGED <<playerVars, loginVars, netVars>>
    BY <2>1, <2>3, <2>4, <2>6, MainTypes, MainSafe
  <2>7. ASSUME NEW t \in Threads, ThreadGoes(t)
        PROVE  LoginInv'
    BY <2>1, <2>3, <2>4, <2>7, ThreadTypes, ThreadsPresent, ThreadGoesLocks
  <2>8. ASSUME NEW c \in Clients,
               Join(c) \/ Leave(c) \/ WantLogin(c) \/ ClientGoes(c)
        PROVE  LoginInv'
    <3>1. TasksTyped'
      BY <2>1, <2>8, OtherTypes
    <3> QED
      BY <2>1, <2>3, <2>4, <2>8, <3>1, JoinLeaveSafe, WantLoginSafe, ClientSafe
  <2>9. ASSUME NEW c \in Clients, Answered(c)
        PROVE  LoginInv'
    <3>1. PICK m \in answers : ReceiveAnswer(m)
      BY <2>9 DEF Answered
    <3>2. m \in Answers
      BY <2>3
    <3>3. TasksTyped'
      BY <2>1, <3>1, OtherTypes
    <3> QED
      BY <2>1, <2>4, <3>1, <3>2, <3>3, ReceiveAnswerSafe
  <2> QED
    BY <1>2, <2>5, <2>6, <2>7, <2>8, <2>9 DEF Next, MainGoesOn
<1> QED
  BY <1>1, <1>2

\* Every variable keeps its type, and a thread only ever has a remainder of one of
\* the programs the code gives it.
THEOREM TypeCorrect == Spec => []TypeOK
<1>1. LoginInv => TypeOK
  BY Typed DEF LoginInv
<1> QED
  BY <1>1, LoginInit, LoginStep, PTL DEF Spec

\* A background thread is inside only while the main thread stands still for it
\* (tBackgroundSyncEvent::Sync), whatever the number of processes and threads.
THEOREM StandsStill == Spec => []MainStandsStill
<1>1. LoginInv => MainStandsStill
  BY DEF LoginInv, Locks, EntryHeld, MainStandsStill
<1> QED
  BY <1>1, LoginInit, LoginStep, PTL DEF Spec

\* A login process is that of a player who is there, and the only one of his
\* machine (nLoginProcess::Find, sn_Reset).
THEOREM PresentOnly == Spec => []LoginsOfThosePresent
<1>1. LoginInv => LoginsOfThosePresent
  BY DEF LoginInv, Present, LoginsOfThosePresent, On
<1> QED
  BY <1>1, LoginInit, LoginStep, PTL DEF Spec

----------------------------------------------------------------------------
\* The invariant where each machine has one client.
LEMMA QuestioningInit == Init => Questioning
<1> SUFFICES ASSUME Init PROVE Questioning
  OBVIOUS
<1> USE DEF Init, TaskInit
<1>1. UnderWay /\ OneAtATime
  BY DEF UnderWay, OneAtATime
<1>2. OneThread
  BY DEF OneThread, Nothing
<1>3. Due = {}
  BY DEF Due
<1>4. DueAreDone
  BY <1>3 DEF DueAreDone
<1>5. OwnAnswersOnly
  BY DEF OwnAnswersOnly
<1> QED
  BY <1>1, <1>2, <1>4, <1>5 DEF Questioning

LEMMA QuestioningStep ==
  ASSUME OneClientEach, LoginInv, Questioning, [Next]_vars
  PROVE  Questioning'
<1>1. Locks /\ LoginsTyped /\ Present /\ NetTyped /\ pending \in Seq(Jobs)
  BY DEF LoginInv, TasksTyped
<1>2. CASE UNCHANGED <<pending, thread, login, listed, netVars>>
  <2>1. Due' = Due /\ Fresh' = Fresh
    BY <1>2 DEF Due, Fresh
  <2>2. UnderWay' /\ OneAtATime'
    BY <1>1, <1>2, <2>1, UnderWayKept DEF Questioning, Asking
  <2> QED
    BY <1>2, <2>1, <2>2 DEF Questioning, OneThread, DueAreDone, OwnAnswersOnly
<1>3. CASE FinishTask
  BY <1>1, <1>3, FinishTaskQuestioning
<1>4. ASSUME NEW t \in Threads, ThreadGoes(t)
      PROVE  Questioning'
  BY <1>1, <1>4, ThreadStepQuestioning, FetchInfoQuestioning, QueryQuestioning,
     AuthorizeQuestioning, CheckQuestioning DEF ThreadGoes
<1>5. ASSUME NEW c \in Clients,
             Join(c) \/ Leave(c) \/ WantLogin(c) \/ ClientGoes(c) \/ Answered(c)
      PROVE  Questioning'
  BY <1>1, <1>5, JoinQuestioning, LeaveQuestioning, WantLoginQuestioning,
     ClientQuestioning, ReceiveAnswerQuestioning DEF Answered
<1>6. CASE MainStep /\ UNCHANGED <<playerVars, loginVars, netVars>>
  <2>1. UNCHANGED <<pending, thread>>
    BY <1>6 DEF MainStep, CallFinishAll, NoTasksLeft, ForgetCurrent, NothingToDo,
       LeaveToDo, StartSync, SyncNext, AwaitExit, CloseEntry, EndSync, todoVars
  <2> QED
    BY <1>2, <1>6, <2>1 DEF loginVars
<1>7. CASE UNCHANGED vars
  BY <1>2, <1>7 DEF vars, taskVars, todoVars, loginVars
<1> QED
  BY <1>3, <1>4, <1>5, <1>6, <1>7 DEF Next, MainGoesOn

LEMMA OneAtMost ==
  ASSUME NEW S, \A r, s \in S : r = s
  PROVE  Cardinality(S) <= 1
<1>1. CASE S = {}
  <2>1. Cardinality(S) = 0
    BY <1>1, FS_EmptySet
  <2> QED
    BY <2>1
<1>2. CASE S # {}
  <2>1. PICK s \in S : TRUE
    BY <1>2
  <2>2. S = {s}
    BY <2>1
  <2>3. Cardinality({s}) = 1
    BY FS_Singleton
  <2>4. Cardinality(S) = 1
    BY <2>2, <2>3
  <2> QED
    BY <2>4
<1> QED
  BY <1>1, <1>2

\* Where each machine has one client, a process has one background thread at a
\* time (so that tBackgroundSync is never entered twice), ...
THEOREM OneThreadEach ==
  ASSUME OneClientEach
  PROVE  Spec => []OneThreadPerSync
<1>1. Questioning => OneThreadPerSync
  <2> SUFFICES ASSUME Questioning, NEW p \in Jobs
               PROVE  Cardinality({s \in Slots : thread[<<p, s>>] # <<>>}) <= 1
    BY DEF OneThreadPerSync
  <2> DEFINE S == {s \in Slots : thread[<<p, s>>] # <<>>}
  <2>1. \A r, s \in S : r = s
    <3>1. ASSUME NEW r \in S, NEW s \in S PROVE r = s
      <4>1. <<p, r>> \in Threads /\ <<p, s>> \in Threads
        BY DEF Threads
      <4>2. <<p, r>> = <<p, s>>
        BY <4>1 DEF Questioning, OneThread, Nothing
      <4> QED
        BY <4>2
    <3> QED
      BY <3>1
  <2> HIDE DEF S
  <2>2. Cardinality(S) <= 1
    BY <2>1, OneAtMost
  <2> QED
    BY <2>2 DEF S
<1> QED
  BY <1>1, LoginInit, LoginStep, QuestioningInit, QuestioningStep, PTL DEF Spec

\* ... and it works with no answer but that to its own request (nLoginProcess::
\* ProcessClientAnswer does not check).
THEOREM AnswersAreOwn ==
  ASSUME OneClientEach
  PROVE  Spec => []OwnAnswersOnly
<1>1. Questioning => OwnAnswersOnly
  BY DEF Questioning
<1> QED
  BY <1>1, LoginInit, LoginStep, QuestioningInit, QuestioningStep, PTL DEF Spec
=============================================================================
