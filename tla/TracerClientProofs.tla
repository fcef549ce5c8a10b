------------------------- MODULE TracerClientProofs -------------------------
(***************************************************************************)
(* For any number of events, pings and sessions, any size of the merge     *)
(* buffer and of the send list: events arrive in order and once, and a     *)
(* Close() over a connection that is not lost leaves none behind.          *)
(***************************************************************************)
EXTENDS TracerClient, TLAPS

-----------------------------------------------------------------------------
(* Marks                                                                   *)

MarkOf(p) == {n \in 0 .. Final : p = Mark(n)}

LEMMA MarkOfMark ==
  ASSUME NEW k \in 0 .. Final
  PROVE  MarkOf(Mark(k)) = {k}
<1>0. MaxEvents \in Nat /\ Final \in Nat /\ Final # 0
  BY ClientAssumption DEF Final
<1>1. ASSUME NEW n \in 0 .. Final, Mark(n) = Mark(k) PROVE n = k
  BY <1>0, <1>1 DEF Mark, SymbolData, Shutdown, Event
<1> QED
  BY <1>1 DEF MarkOf

LEMMA MarkOfOthers == MarkOf(Ping) = {} /\ MarkOf(Hello) = {}
BY DEF MarkOf, Mark, SymbolData, Shutdown, Event, Ping, Hello

LEMMA MarkIsPacket ==
  ASSUME NEW k \in 0 .. Final
  PROVE  Mark(k) \in Packets
<1>0. MaxEvents \in Nat
  BY ClientAssumption
<1> QED
  BY <1>0 DEF Mark, Packets, Final

LEMMA NoMarks == Marks(<<>>) = {} /\ ListMarks(<<>>) = {} /\ Sorted(<<>>) /\ ListSorted(<<>>)
BY DEF Marks, ListMarks, Sorted, ListSorted, Contains

LEMMA MarksAreNumbers ==
  \A q : Marks(q) \subseteq 0 .. Final
BY DEF Marks

LEMMA AppendIs ==
  ASSUME NEW S, NEW q \in Seq(S), NEW p \in S
  PROVE  /\ Append(q, p) \in Seq(S) /\ Len(Append(q, p)) = Len(q) + 1 /\ Append(q, p)[Len(q) + 1] = p
         /\ \A i \in 1 .. Len(q) : Append(q, p)[i] = q[i]
OBVIOUS

LEMMA TailIs ==
  ASSUME NEW S, NEW q \in Seq(S), q # <<>>
  PROVE  /\ Head(q) \in S /\ q[1] = Head(q) /\ Tail(q) \in Seq(S) /\ Len(q) \in Nat \ {0} /\ Len(Tail(q)) = Len(q) - 1
         /\ \A i \in 1 .. Len(q) - 1 : Tail(q)[i] = q[i + 1]
OBVIOUS

LEMMA AppendMarks ==
  ASSUME NEW q \in Seq(Packets), NEW p \in Packets
  PROVE  /\ Marks(Append(q, p)) = Marks(q) \cup MarkOf(p)
         /\ Sorted(q) /\ Before(Marks(q), MarkOf(p)) => Sorted(Append(q, p))
<1> PICK l \in Nat : l = Len(q)
  OBVIOUS
<1>1. PICK a \in Seq(Packets) : a = Append(q, p) /\ Len(a) = l + 1 /\ a[l + 1] = p /\ \A i \in 1 .. l : a[i] = q[i]
  <2>1. /\ Append(q, p) \in Seq(Packets) /\ Len(Append(q, p)) = l + 1 /\ Append(q, p)[l + 1] = p
        /\ \A i \in 1 .. l : Append(q, p)[i] = q[i]
    BY AppendIs
  <2> QED
    BY <2>1
<1>2. ASSUME NEW n \in 0 .. Final PROVE Contains(a, Mark(n)) <=> Contains(q, Mark(n)) \/ p = Mark(n)
  <2>1. ASSUME NEW i \in 1 .. l + 1, a[i] = Mark(n) PROVE Contains(q, Mark(n)) \/ p = Mark(n)
    <3>1. CASE i = l + 1
      BY <1>1, <2>1, <3>1
    <3>2. CASE i # l + 1
      <4>1. i \in 1 .. l
        BY <3>2
      <4> QED
        BY <1>1, <2>1, <4>1 DEF Contains
    <3> QED
      BY <3>1, <3>2
  <2>2. ASSUME NEW i \in 1 .. l, q[i] = Mark(n) PROVE Contains(a, Mark(n))
    <3>1. i \in 1 .. l + 1
      OBVIOUS
    <3> QED
      BY <1>1, <2>2, <3>1 DEF Contains
  <2>3. ASSUME p = Mark(n) PROVE Contains(a, Mark(n))
    <3>1. l + 1 \in 1 .. l + 1
      OBVIOUS
    <3> QED
      BY <1>1, <2>3, <3>1 DEF Contains
  <2> QED
    BY <1>1, <2>1, <2>2, <2>3 DEF Contains
<1>3. Marks(a) = Marks(q) \cup MarkOf(p)
  BY <1>2 DEF Marks, MarkOf
<1>4. ASSUME Sorted(q), Before(Marks(q), MarkOf(p)) PROVE Sorted(a)
  <2>1. ASSUME NEW i \in 1 .. l + 1, NEW j \in 1 .. l + 1, NEW m \in 0 .. Final, NEW n \in 0 .. Final,
               i < j, a[i] = Mark(m), a[j] = Mark(n)
        PROVE  m < n
    <3>0. i \in 1 .. l
      BY <2>1
    <3>1. CASE j = l + 1
      <4>1. m \in Marks(q) /\ n \in MarkOf(p)
        BY <1>1, <2>1, <3>0, <3>1 DEF Marks, MarkOf, Contains
      <4> QED
        BY <1>4, <4>1 DEF Before
    <3>2. CASE j # l + 1
      <4>1. j \in 1 .. l
        BY <3>2
      <4>2. q[i] = Mark(m) /\ q[j] = Mark(n)
        BY <1>1, <2>1, <3>0, <4>1
      <4> QED
        BY <1>4, <2>1, <3>0, <4>1, <4>2 DEF Sorted
    <3> QED
      BY <3>1, <3>2
  <2> QED
    BY <1>1, <2>1 DEF Sorted
<1> QED
  BY <1>1, <1>3, <1>4

LEMMA OneMark ==
  ASSUME NEW p \in Packets
  PROVE  <<p>> \in Seq(Packets) /\ <<p>> # <<>> /\ Marks(<<p>>) = MarkOf(p) /\ Sorted(<<p>>)
<1>1. <<p>> = Append(<<>>, p) /\ <<>> \in Seq(Packets)
  OBVIOUS
<1>2. Marks(Append(<<>>, p)) = Marks(<<>>) \cup MarkOf(p)
  BY <1>1, AppendMarks
<1>3. Before(Marks(<<>>), MarkOf(p))
  BY NoMarks DEF Before
<1>4. Sorted(Append(<<>>, p))
  BY <1>1, <1>3, NoMarks, AppendMarks
<1>5. <<p>> \in Seq(Packets) /\ <<p>> # <<>>
  OBVIOUS
<1> QED
  BY <1>1, <1>2, <1>4, <1>5, NoMarks, Zenon

LEMMA TailMarks ==
  ASSUME NEW q \in Seq(Packets), q # <<>>
  PROVE  /\ Head(q) \in Packets /\ Tail(q) \in Seq(Packets)
         /\ Marks(q) = MarkOf(Head(q)) \cup Marks(Tail(q))
         /\ Sorted(q) => Sorted(Tail(q)) /\ Before(MarkOf(Head(q)), Marks(Tail(q)))
<1> PICK l \in Nat : l = Len(q) - 1
  BY TailIs
<1>1. PICK t \in Seq(Packets), h \in Packets :
         t = Tail(q) /\ h = Head(q) /\ Len(q) = l + 1 /\ Len(t) = l /\ q[1] = h /\ \A i \in 1 .. l : t[i] = q[i + 1]
  <2>1. /\ Head(q) \in Packets /\ Tail(q) \in Seq(Packets) /\ Len(q) = l + 1 /\ Len(Tail(q)) = l /\ q[1] = Head(q)
        /\ \A i \in 1 .. l : Tail(q)[i] = q[i + 1]
    BY TailIs
  <2> QED
    BY <2>1
<1>2. ASSUME NEW n \in 0 .. Final PROVE Contains(q, Mark(n)) <=> h = Mark(n) \/ Contains(t, Mark(n))
  <2>1. ASSUME NEW i \in 1 .. l + 1, q[i] = Mark(n) PROVE h = Mark(n) \/ Contains(t, Mark(n))
    <3>1. CASE i = 1
      BY <1>1, <2>1, <3>1
    <3>2. CASE i # 1
      <4>1. i - 1 \in 1 .. l /\ (i - 1) + 1 = i
        BY <3>2
      <4>2. t[i - 1] = q[i]
        BY <1>1, <4>1
      <4> QED
        BY <1>1, <2>1, <4>1, <4>2 DEF Contains
    <3> QED
      BY <3>1, <3>2
  <2>2. ASSUME NEW i \in 1 .. l, t[i] = Mark(n) PROVE Contains(q, Mark(n))
    <3>1. i + 1 \in 1 .. l + 1
      OBVIOUS
    <3> QED
      BY <1>1, <2>2, <3>1 DEF Contains
  <2>3. ASSUME h = Mark(n) PROVE Contains(q, Mark(n))
    <3>1. 1 \in 1 .. l + 1
      OBVIOUS
    <3> QED
      BY <1>1, <2>3, <3>1 DEF Contains
  <2> QED
    BY <1>1, <2>1, <2>2, <2>3 DEF Contains
<1>3. Marks(q) = MarkOf(h) \cup Marks(t)
  BY <1>2 DEF Marks, MarkOf
<1>4. ASSUME Sorted(q) PROVE Sorted(t) /\ Before(MarkOf(h), Marks(t))
  <2>1. ASSUME NEW i \in 1 .. l, NEW j \in 1 .. l, NEW m \in 0 .. Final, NEW n \in 0 .. Final,
               i < j, t[i] = Mark(m), t[j] = Mark(n)
        PROVE  m < n
    <3>1. i + 1 \in 1 .. l + 1 /\ j + 1 \in 1 .. l + 1 /\ i + 1 < j + 1
      BY <2>1
    <3>2. q[i + 1] = Mark(m) /\ q[j + 1] = Mark(n)
      BY <1>1, <2>1
    <3> QED
      BY <1>1, <1>4, <3>1, <3>2 DEF Sorted
  <2>2. ASSUME NEW m \in MarkOf(h), NEW n \in Marks(t) PROVE m < n
    <3>1. m \in 0 .. Final /\ n \in 0 .. Final /\ q[1] = Mark(m)
      BY <1>1 DEF MarkOf, Marks
    <3>2. PICK j \in 1 .. l : t[j] = Mark(n)
      BY <1>1 DEF Marks, Contains
    <3>3. q[j + 1] = Mark(n) /\ 1 \in 1 .. l + 1 /\ j + 1 \in 1 .. l + 1 /\ 1 < j + 1
      BY <1>1, <3>2
    <3> QED
      BY <1>1, <1>4, <3>1, <3>3 DEF Sorted
  <2> QED
    BY <1>1, <2>1, <2>2 DEF Sorted, Before
<1> QED
  BY <1>1, <1>3, <1>4

-----------------------------------------------------------------------------
(* Send lists                                                              *)

Lists == Seq(Seq(Packets))

LEMMA ListMark ==
  ASSUME NEW list, NEW n
  PROVE  n \in ListMarks(list) <=> \E k \in 1 .. Len(list) : n \in Marks(list[k])
BY DEF ListMarks

LEMMA AppendList ==
  ASSUME NEW list \in Lists, NEW q \in Seq(Packets)
  PROVE  /\ Append(list, q) \in Lists /\ Len(Append(list, q)) = Len(list) + 1
         /\ ListMarks(Append(list, q)) = ListMarks(list) \cup Marks(q)
         /\ ListSorted(list) /\ q # <<>> /\ Sorted(q) /\ Before(ListMarks(list), Marks(q)) => ListSorted(Append(list, q))
<1> PICK l \in Nat : l = Len(list)
  BY DEF Lists
<1>1. PICK a \in Lists : a = Append(list, q) /\ Len(a) = l + 1 /\ a[l + 1] = q /\ \A i \in 1 .. l : a[i] = list[i]
  <2>1. /\ Append(list, q) \in Lists /\ Len(Append(list, q)) = l + 1 /\ Append(list, q)[l + 1] = q
        /\ \A i \in 1 .. l : Append(list, q)[i] = list[i]
    BY AppendIs DEF Lists
  <2> QED
    BY <2>1
<1>2. ListMarks(a) = ListMarks(list) \cup Marks(q)
  <2>1. ASSUME NEW n, NEW k \in 1 .. l + 1, n \in Marks(a[k]) PROVE n \in ListMarks(list) \cup Marks(q)
    <3>1. CASE k = l + 1
      BY <1>1, <2>1, <3>1
    <3>2. CASE k # l + 1
      <4>1. k \in 1 .. l
        BY <3>2
      <4> QED
        BY <1>1, <2>1, <4>1, ListMark
    <3> QED
      BY <3>1, <3>2
  <2>2. ASSUME NEW n, NEW k \in 1 .. l, n \in Marks(list[k]) PROVE n \in ListMarks(a)
    <3>1. k \in 1 .. l + 1
      OBVIOUS
    <3> QED
      BY <1>1, <2>2, <3>1, ListMark
  <2>3. Marks(q) \subseteq ListMarks(a)
    <3>1. l + 1 \in 1 .. l + 1
      OBVIOUS
    <3> QED
      BY <1>1, <3>1, ListMark
  <2>4. \A n : n \in ListMarks(a) => n \in ListMarks(list) \cup Marks(q)
    BY <1>1, <2>1, ListMark
  <2>5. \A n : n \in ListMarks(list) => n \in ListMarks(a)
    BY <2>2, ListMark
  <2> QED
    BY <2>3, <2>4, <2>5
<1>3. ASSUME ListSorted(list), q # <<>>, Sorted(q), Before(ListMarks(list), Marks(q)) PROVE ListSorted(a)
  <2>1. ASSUME NEW k \in 1 .. l + 1 PROVE a[k] # <<>> /\ Sorted(a[k])
    <3>1. CASE k = l + 1
      BY <1>1, <1>3, <3>1
    <3>2. CASE k # l + 1
      <4>1. k \in 1 .. l
        BY <3>2
      <4> QED
        BY <1>1, <1>3, <4>1 DEF ListSorted
    <3> QED
      BY <3>1, <3>2
  <2>2. ASSUME NEW k \in 1 .. l + 1, NEW m \in 1 .. l + 1, k < m PROVE Before(Marks(a[k]), Marks(a[m]))
    <3>0. k \in 1 .. l
      BY <2>2
    <3>1. CASE m = l + 1
      <4>1. Marks(a[k]) \subseteq ListMarks(list)
        BY <1>1, <3>0, ListMark
      <4> QED
        BY <1>1, <1>3, <3>1, <4>1 DEF Before
    <3>2. CASE m # l + 1
      <4>1. m \in 1 .. l
        BY <3>2
      <4> QED
        BY <1>1, <1>3, <2>2, <3>0, <4>1 DEF ListSorted
    <3> QED
      BY <3>1, <3>2
  <2> QED
    BY <1>1, <2>1, <2>2 DEF ListSorted
<1> QED
  BY <1>1, <1>2, <1>3

LEMMA TailList ==
  ASSUME NEW list \in Lists, list # <<>>
  PROVE  /\ Head(list) \in Seq(Packets) /\ Tail(list) \in Lists /\ Len(Tail(list)) < Len(list) /\ Len(list) \in Nat
         /\ ListMarks(list) = Marks(Head(list)) \cup ListMarks(Tail(list))
         /\ ListSorted(list) => /\ Head(list) # <<>> /\ Sorted(Head(list)) /\ ListSorted(Tail(list))
                                /\ Before(Marks(Head(list)), ListMarks(Tail(list)))
<1> PICK l \in Nat : l = Len(list) - 1
  <2>1. Len(list) \in Nat \ {0}
    BY TailIs DEF Lists
  <2>2. PICK n \in Nat \ {0} : n = Len(list)
    BY <2>1
  <2>3. n - 1 \in Nat
    OBVIOUS
  <2> QED
    BY <2>2, <2>3
<1>1. PICK t \in Lists, h \in Seq(Packets) :
         t = Tail(list) /\ h = Head(list) /\ Len(list) = l + 1 /\ Len(t) = l /\ list[1] = h /\ \A i \in 1 .. l : t[i] = list[i + 1]
  <2>1. /\ Head(list) \in Seq(Packets) /\ Tail(list) \in Lists /\ Len(list) = l + 1 /\ Len(Tail(list)) = l /\ list[1] = Head(list)
        /\ \A i \in 1 .. l : Tail(list)[i] = list[i + 1]
    BY TailIs DEF Lists
  <2> QED
    BY <2>1
<1>0. 1 \in 1 .. l + 1 /\ \A i \in 1 .. l : i + 1 \in 1 .. l + 1
  OBVIOUS
<1>2. ListMarks(list) = Marks(h) \cup ListMarks(t)
  <2>1. ASSUME NEW n, NEW k \in 1 .. l + 1, n \in Marks(list[k]) PROVE n \in Marks(h) \cup ListMarks(t)
    <3>1. CASE k = 1
      BY <1>1, <2>1, <3>1
    <3>2. CASE k # 1
      <4>1. k - 1 \in 1 .. l /\ (k - 1) + 1 = k
        BY <3>2
      <4>2. t[k - 1] = list[k]
        BY <1>1, <4>1
      <4> QED
        BY <1>1, <2>1, <4>1, <4>2, ListMark
    <3> QED
      BY <3>1, <3>2
  <2>2. ASSUME NEW n, NEW k \in 1 .. l, n \in Marks(t[k]) PROVE n \in ListMarks(list)
    BY <1>0, <1>1, <2>2, ListMark
  <2>3. Marks(h) \subseteq ListMarks(list)
    BY <1>0, <1>1, ListMark
  <2>4. \A n : n \in ListMarks(list) => n \in Marks(h) \cup ListMarks(t)
    BY <1>1, <2>1, ListMark
  <2>5. \A n : n \in ListMarks(t) => n \in ListMarks(list)
    BY <1>1, <2>2, ListMark
  <2> QED
    BY <2>3, <2>4, <2>5
<1>3. ASSUME ListSorted(list) PROVE h # <<>> /\ Sorted(h) /\ ListSorted(t) /\ Before(Marks(h), ListMarks(t))
  <2>1. h # <<>> /\ Sorted(h)
    BY <1>0, <1>1, <1>3 DEF ListSorted
  <2>2. ASSUME NEW k \in 1 .. l PROVE t[k] # <<>> /\ Sorted(t[k]) /\ Before(Marks(h), Marks(t[k]))
    <3>1. 1 < k + 1 /\ k + 1 \in 1 .. l + 1
      OBVIOUS
    <3> QED
      BY <1>0, <1>1, <1>3, <3>1 DEF ListSorted
  <2>3. ASSUME NEW k \in 1 .. l, NEW m \in 1 .. l, k < m PROVE Before(Marks(t[k]), Marks(t[m]))
    <3>1. k + 1 < m + 1 /\ k + 1 \in 1 .. l + 1 /\ m + 1 \in 1 .. l + 1
      BY <2>3
    <3> QED
      BY <1>1, <1>3, <3>1 DEF ListSorted
  <2>4. ListSorted(t)
    BY <1>1, <2>2, <2>3 DEF ListSorted
  <2>5. Before(Marks(h), ListMarks(t))
    BY <1>1, <2>2, ListMark DEF Before
  <2> QED
    BY <2>1, <2>4, <2>5
<1>4. l < l + 1 /\ l + 1 \in Nat
  OBVIOUS
<1> QED
  BY <1>1, <1>2, <1>3, <1>4

LEMMA ConsIs ==
  ASSUME NEW S, NEW q \in S, NEW t \in Seq(S)
  PROVE  /\ <<q>> \o t \in Seq(S) /\ Len(<<q>> \o t) = Len(t) + 1 /\ (<<q>> \o t)[1] = q
         /\ \A i \in 1 .. Len(t) : (<<q>> \o t)[i + 1] = t[i]
OBVIOUS

LEMMA ConsList ==
  ASSUME NEW t \in Lists, NEW q \in Seq(Packets)
  PROVE  /\ <<q>> \o t \in Lists /\ Len(<<q>> \o t) = Len(t) + 1
         /\ ListMarks(<<q>> \o t) = Marks(q) \cup ListMarks(t)
         /\ ListSorted(t) /\ q # <<>> /\ Sorted(q) /\ Before(Marks(q), ListMarks(t)) => ListSorted(<<q>> \o t)
<1> PICK l \in Nat : l = Len(t)
  BY DEF Lists
<1>1. PICK c \in Lists : c = <<q>> \o t /\ Len(c) = l + 1 /\ c[1] = q /\ \A i \in 1 .. l : c[i + 1] = t[i]
  <2>1. /\ <<q>> \o t \in Lists /\ Len(<<q>> \o t) = l + 1 /\ (<<q>> \o t)[1] = q
        /\ \A i \in 1 .. l : (<<q>> \o t)[i + 1] = t[i]
    BY ConsIs DEF Lists
  <2> QED
    BY <2>1
<1>0. 1 \in 1 .. l + 1 /\ \A i \in 1 .. l : i + 1 \in 1 .. l + 1
  OBVIOUS
<1>9. ASSUME NEW k \in 1 .. l + 1, k # 1 PROVE k - 1 \in 1 .. l /\ c[k] = t[k - 1]
  <2>1. k - 1 \in 1 .. l /\ (k - 1) + 1 = k
    BY <1>9
  <2> QED
    BY <1>1, <2>1
<1>2. ListMarks(c) = Marks(q) \cup ListMarks(t)
  <2>1. ASSUME NEW n, NEW k \in 1 .. l + 1, n \in Marks(c[k]) PROVE n \in Marks(q) \cup ListMarks(t)
    <3>1. CASE k = 1
      BY <1>1, <2>1, <3>1
    <3>2. CASE k # 1
      BY <1>9, <2>1, <3>2, ListMark
    <3> QED
      BY <3>1, <3>2
  <2>2. ASSUME NEW n, NEW k \in 1 .. l, n \in Marks(t[k]) PROVE n \in ListMarks(c)
    BY <1>0, <1>1, <2>2, ListMark
  <2>3. Marks(q) \subseteq ListMarks(c)
    BY <1>0, <1>1, ListMark
  <2>4. \A n : n \in ListMarks(c) => n \in Marks(q) \cup ListMarks(t)
    BY <1>1, <2>1, ListMark
  <2>5. \A n : n \in ListMarks(t) => n \in ListMarks(c)
    BY <1>1, <2>2, ListMark
  <2> QED
    BY <2>3, <2>4, <2>5
<1>3. ASSUME ListSorted(t), q # <<>>, Sorted(q), Before(Marks(q), ListMarks(t)) PROVE ListSorted(c)
  <2>1. ASSUME NEW k \in 1 .. l + 1 PROVE c[k] # <<>> /\ Sorted(c[k])
    <3>1. CASE k = 1
      BY <1>1, <1>3, <3>1
    <3>2. CASE k # 1
      BY <1>3, <1>9, <3>2 DEF ListSorted
    <3> QED
      BY <3>1, <3>2
  <2>2. ASSUME NEW k \in 1 .. l + 1, NEW m \in 1 .. l + 1, k < m PROVE Before(Marks(c[k]), Marks(c[m]))
    <3>0. m # 1
      BY <2>2
    <3>1. m - 1 \in 1 .. l /\ c[m] = t[m - 1]
      BY <1>9, <3>0
    <3>2. CASE k = 1
      <4>1. Marks(t[m - 1]) \subseteq ListMarks(t)
        BY <3>1, ListMark
      <4> QED
        BY <1>1, <1>3, <3>1, <3>2, <4>1 DEF Before
    <3>3. CASE k # 1
      <4>1. k - 1 \in 1 .. l /\ c[k] = t[k - 1] /\ k - 1 < m - 1
        BY <1>9, <2>2, <3>3
      <4> QED
        BY <1>3, <3>1, <4>1 DEF ListSorted
    <3> QED
      BY <3>2, <3>3
  <2> QED
    BY <1>1, <2>1, <2>2 DEF ListSorted
<1> QED
  BY <1>1, <1>2, <1>3

\* The list after its first packet was received.
LEMMA ReceiveList ==
  ASSUME NEW list \in Lists, list # <<>>, ListSorted(list), NEW left,
         left = IF Tail(Head(list)) = <<>> THEN Tail(list) ELSE <<Tail(Head(list))>> \o Tail(list)
  PROVE  /\ Head(Head(list)) \in Packets /\ left \in Lists /\ Len(left) <= Len(list) /\ ListSorted(left)
         /\ ListMarks(list) = MarkOf(Head(Head(list))) \cup ListMarks(left)
         /\ Before(MarkOf(Head(Head(list))), ListMarks(left))
<1>1. PICK h \in Seq(Packets), t \in Lists :
         /\ h = Head(list) /\ t = Tail(list) /\ Len(t) < Len(list) /\ Len(list) \in Nat
         /\ ListMarks(list) = Marks(h) \cup ListMarks(t) /\ h # <<>> /\ Sorted(h) /\ ListSorted(t) /\ Before(Marks(h), ListMarks(t))
  BY TailList
<1>2. PICK p \in Packets, r \in Seq(Packets) :
         p = Head(h) /\ r = Tail(h) /\ Marks(h) = MarkOf(p) \cup Marks(r) /\ Sorted(r) /\ Before(MarkOf(p), Marks(r))
  BY <1>1, TailMarks
<1>3. left = IF r = <<>> THEN t ELSE <<r>> \o t
  BY <1>1, <1>2
<1>4. Before(MarkOf(p), ListMarks(t)) /\ Before(Marks(r), ListMarks(t))
  BY <1>1, <1>2 DEF Before
<1>5. CASE r = <<>>
  <2>1. Marks(r) = {} /\ left = t
    BY <1>3, <1>5, NoMarks
  <2>2. Len(left) <= Len(list)
    <3>1. Len(left) \in Nat
      BY <2>1 DEF Lists
    <3> QED
      BY <1>1, <2>1, <3>1
  <2> QED
    BY <1>1, <1>2, <1>4, <2>1, <2>2
<1>6. CASE r # <<>>
  <2>1. left = <<r>> \o t
    BY <1>3, <1>6
  <2>2. left \in Lists /\ Len(left) = Len(t) + 1 /\ ListMarks(left) = Marks(r) \cup ListMarks(t) /\ ListSorted(left)
    <3>1. /\ <<r>> \o t \in Lists /\ Len(<<r>> \o t) = Len(t) + 1 /\ ListMarks(<<r>> \o t) = Marks(r) \cup ListMarks(t)
          /\ ListSorted(t) /\ r # <<>> /\ Sorted(r) /\ Before(Marks(r), ListMarks(t)) => ListSorted(<<r>> \o t)
      BY ConsList
    <3> QED
      BY <1>1, <1>2, <1>4, <1>6, <2>1, <3>1
  <2>3. Len(left) <= Len(list)
    <3>1. Len(t) \in Nat
      BY DEF Lists
    <3> QED
      BY <1>1, <2>2, <3>1
  <2>4. Before(MarkOf(p), ListMarks(left))
    BY <1>2, <1>4, <2>2 DEF Before
  <2> QED
    BY <1>1, <1>2, <2>2, <2>3, <2>4
<1> QED
  BY <1>5, <1>6

-----------------------------------------------------------------------------
(* Sending                                                                 *)

\* What a send does to the stream of the session: K are the marks that join it. A
\* send that fails loses what was merged.
Sends(K, failed) ==
  \E list \in Lists, m \in Seq(Packets) :
    /\ sendList' = [sendList EXCEPT ![session] = list] /\ merge' = m
    /\ Len(list) <= SendListLen /\ Len(m) < MergeCap
    /\ ListSorted(list) /\ Sorted(m) /\ Before(Marks(received[session]), ListMarks(list))
    /\ Before(Marks(received[session]) \cup ListMarks(list), Marks(m))
    /\ failed => conn[session] # "up" /\ list = sendList[session] /\ Marks(m) = {}
    /\ ~failed => Marks(received[session]) \cup ListMarks(list) \cup Marks(m) = Own(session) \cup K
    /\ conn[session] \notin {"none", "up"} => list = sendList[session]

LEMMA SessionFacts ==
  ASSUME IInv
  PROVE  /\ session \in Sessions /\ sendList[session] \in Lists /\ Len(sendList[session]) <= SendListLen
         /\ received[session] \in Seq(Packets) /\ merge \in Seq(Packets) /\ Len(merge) < MergeCap
         /\ Sorted(received[session]) /\ ListSorted(sendList[session]) /\ Sorted(merge)
         /\ Before(Marks(received[session]), ListMarks(sendList[session])) /\ Before(Stream(session), Marks(merge))
         /\ Stream(session) = Marks(received[session]) \cup ListMarks(sendList[session])
         /\ Own(session) = Stream(session) \cup Marks(merge)
         /\ [sendList EXCEPT ![session] = sendList[session]] = sendList
BY DEF IInv, TypeOK, OrderInv, Lists, Stream, Own

LEMMA SendListRoom ==
  ASSUME IInv, NEW q \in Seq(Packets), Len(sendList[session]) < SendListLen
  PROVE  Len(Append(sendList[session], q)) <= SendListLen
<1>1. sendList[session] \in Lists
  BY SessionFacts
<1>2. PICK l \in Nat : l = Len(sendList[session])
  BY <1>1 DEF Lists
<1>3. Len(Append(sendList[session], q)) = l + 1
  BY <1>1, <1>2, AppendList
<1> QED
  BY <1>2, <1>3, ClientAssumption

LEMMA ConnSends ==
  ASSUME IInv, NEW q \in Seq(Packets), q # <<>>, Sorted(q), Before(Stream(session), Marks(q)),
         NEW failed \in BOOLEAN, ConnSend(q, failed)
  PROVE  \E list \in Lists :
           /\ sendList' = [sendList EXCEPT ![session] = list] /\ Len(list) <= SendListLen
           /\ ListSorted(list) /\ Before(Marks(received[session]), ListMarks(list))
           /\ failed => conn[session] # "up" /\ list = sendList[session]
           /\ ~failed => conn[session] = "up" /\ ListMarks(list) = ListMarks(sendList[session]) \cup Marks(q)
<1>0. /\ sendList[session] \in Lists /\ Len(sendList[session]) <= SendListLen
      /\ ListSorted(sendList[session]) /\ Before(Marks(received[session]), ListMarks(sendList[session]))
      /\ Stream(session) = Marks(received[session]) \cup ListMarks(sendList[session])
      /\ [sendList EXCEPT ![session] = sendList[session]] = sendList
  BY SessionFacts
<1>1. CASE failed
  <2>1. sendList' = sendList /\ conn[session] # "up"
    BY <1>1 DEF ConnSend
  <2> QED
    BY <1>0, <1>1, <2>1
<1>2. CASE ~failed
  <2>1. /\ sendList' = [sendList EXCEPT ![session] = Append(sendList[session], q)]
        /\ conn[session] = "up" /\ Len(sendList[session]) < SendListLen
    BY <1>2 DEF ConnSend
  <2>2. PICK list \in Lists : list = Append(sendList[session], q) /\ ListMarks(list) = ListMarks(sendList[session]) \cup Marks(q)
    BY <1>0, AppendList
  <2>3. ListSorted(list)
    <3>1. Before(ListMarks(sendList[session]), Marks(q))
      BY <1>0 DEF Before
    <3> QED
      BY <1>0, <2>2, <3>1, AppendList
  <2>4. Before(Marks(received[session]), ListMarks(list))
    BY <1>0, <2>2 DEF Before
  <2>5. Len(list) <= SendListLen
    BY <2>1, <2>2, SendListRoom
  <2> QED
    BY <1>2, <2>1, <2>2, <2>3, <2>4, <2>5
<1> QED
  BY <1>1, <1>2

LEMMA EmptyMerge ==
  /\ <<>> \in Seq(Packets) /\ Len(<<>>) < MergeCap /\ Sorted(<<>>) /\ Marks(<<>>) = {}
  /\ \A A : Before(A, Marks(<<>>))
<1>1. <<>> \in Seq(Packets) /\ Len(<<>>) < MergeCap
  BY ClientAssumption
<1> QED
  BY <1>1, NoMarks DEF Before

\* A merged packet that is sent leaves an empty buffer.
LEMMA MergedSends ==
  ASSUME IInv, NEW q \in Seq(Packets), q # <<>>, Sorted(q), Before(Stream(session), Marks(q)), NEW K,
         Marks(q) = Marks(merge) \cup K, NEW failed \in BOOLEAN, ConnSend(q, failed), merge' = <<>>
  PROVE  Sends(K, failed)
<1>1. PICK list \in Lists :
           /\ sendList' = [sendList EXCEPT ![session] = list] /\ Len(list) <= SendListLen
           /\ ListSorted(list) /\ Before(Marks(received[session]), ListMarks(list))
           /\ failed => conn[session] # "up" /\ list = sendList[session]
           /\ ~failed => conn[session] = "up" /\ ListMarks(list) = ListMarks(sendList[session]) \cup Marks(q)
  BY ConnSends
<1>2. PICK m \in Seq(Packets) :
        m = <<>> /\ Len(m) < MergeCap /\ Sorted(m) /\ Marks(m) = {} /\ Before(Marks(received[session]) \cup ListMarks(list), Marks(m))
  BY EmptyMerge
<1>3. Own(session) = Marks(received[session]) \cup ListMarks(sendList[session]) \cup Marks(merge)
  BY SessionFacts
<1>4. ~failed => Marks(received[session]) \cup ListMarks(list) \cup Marks(m) = Own(session) \cup K
  BY <1>1, <1>2, <1>3
<1> QED
  BY <1>1, <1>2, <1>4 DEF Sends

LEMMA MergeSends ==
  ASSUME IInv, NEW p \in Packets, Before(Own(session), MarkOf(p)), NEW failed \in BOOLEAN, MergeSend(p, failed)
  PROVE  Sends(MarkOf(p), failed)
<1>0. /\ merge \in Seq(Packets) /\ Sorted(merge) /\ Before(Stream(session), Marks(merge))
      /\ Own(session) = Stream(session) \cup Marks(merge)
  BY SessionFacts
<1>1. PICK q \in Seq(Packets) : q = Append(merge, p) /\ Len(q) = Len(merge) + 1 /\ q # <<>> /\ Marks(q) = Marks(merge) \cup MarkOf(p) /\ Sorted(q)
  <2>1. Before(Marks(merge), MarkOf(p))
    BY <1>0 DEF Before
  <2>2. Append(merge, p) \in Seq(Packets) /\ Append(merge, p) # <<>> /\ Len(Append(merge, p)) = Len(merge) + 1
    BY <1>0
  <2> QED
    BY <1>0, <2>1, <2>2, AppendMarks
<1>2. Before(Stream(session), Marks(q))
  BY <1>0, <1>1 DEF Before
<1>3. CASE Len(q) < MergeCap
  <2>1. merge' = q /\ failed = FALSE /\ sendList' = sendList
    BY <1>1, <1>3 DEF MergeSend
  <2>2. /\ sendList[session] \in Lists /\ Len(sendList[session]) <= SendListLen
        /\ ListSorted(sendList[session]) /\ Before(Marks(received[session]), ListMarks(sendList[session]))
        /\ Stream(session) = Marks(received[session]) \cup ListMarks(sendList[session])
        /\ [sendList EXCEPT ![session] = sendList[session]] = sendList
    BY SessionFacts
  <2>3. PICK list \in Lists : list = sendList[session]
    BY <2>2
  <2>4. /\ sendList' = [sendList EXCEPT ![session] = list] /\ Len(list) <= SendListLen /\ ListSorted(list)
        /\ Before(Marks(received[session]), ListMarks(list))
        /\ Before(Marks(received[session]) \cup ListMarks(list), Marks(q))
        /\ Marks(received[session]) \cup ListMarks(list) \cup Marks(q) = Own(session) \cup MarkOf(p)
    BY <1>0, <1>1, <1>2, <2>1, <2>2, <2>3
  <2> QED
    BY <1>1, <1>3, <2>1, <2>3, <2>4 DEF Sends
<1>4. CASE ~(Len(q) < MergeCap)
  <2>1. merge' = <<>> /\ ConnSend(q, failed)
    BY <1>1, <1>4 DEF MergeSend
  <2> QED
    BY <1>1, <1>2, <2>1, MergedSends
<1> QED
  BY <1>3, <1>4

LEMMA PendingSends ==
  ASSUME IInv, NEW failed \in BOOLEAN, SendPending(failed)
  PROVE  Sends({}, failed) /\ merge' = <<>>
<1>0. merge \in Seq(Packets) /\ Sorted(merge) /\ Before(Stream(session), Marks(merge))
  BY SessionFacts
<1>1. CASE merge # <<>>
  <2>1. merge' = <<>> /\ ConnSend(merge, failed)
    BY <1>1 DEF SendPending
  <2>2. Marks(merge) = Marks(merge) \cup {}
    OBVIOUS
  <2> QED
    BY <1>0, <1>1, <2>1, <2>2, MergedSends
<1>2. CASE merge = <<>>
  <2>1. merge' = <<>> /\ failed = FALSE /\ sendList' = sendList
    BY <1>2 DEF SendPending
  <2>2. /\ sendList[session] \in Lists /\ Len(sendList[session]) <= SendListLen
        /\ ListSorted(sendList[session]) /\ Before(Marks(received[session]), ListMarks(sendList[session]))
        /\ Own(session) = Marks(received[session]) \cup ListMarks(sendList[session]) \cup Marks(merge)
        /\ [sendList EXCEPT ![session] = sendList[session]] = sendList
    BY SessionFacts
  <2>3. PICK list \in Lists : list = sendList[session]
    BY <2>2
  <2>4. PICK m \in Seq(Packets) :
          m = <<>> /\ Len(m) < MergeCap /\ Sorted(m) /\ Marks(m) = {} /\ Before(Marks(received[session]) \cup ListMarks(list), Marks(m))
    BY EmptyMerge
  <2>5. /\ sendList' = [sendList EXCEPT ![session] = list] /\ Len(list) <= SendListLen /\ ListSorted(list)
        /\ Before(Marks(received[session]), ListMarks(list))
        /\ Marks(received[session]) \cup ListMarks(list) \cup Marks(m) = Own(session) \cup {}
    BY <1>2, <2>1, <2>2, <2>3, <2>4
  <2> QED
    BY <2>1, <2>3, <2>4, <2>5 DEF Sends
<1> QED
  BY <1>1, <1>2

LEMMA LargeSends ==
  ASSUME IInv, Own(session) = {}, NEW failed \in BOOLEAN, ConnSend(<<SymbolData>>, failed), merge' = merge
  PROVE  Sends({0}, failed)
<1>0. /\ merge \in Seq(Packets) /\ Len(merge) < MergeCap /\ Sorted(merge) /\ Marks(merge) = {} /\ Stream(session) = {}
      /\ Own(session) = Marks(received[session]) \cup ListMarks(sendList[session]) \cup Marks(merge)
  BY SessionFacts
<1>1. SymbolData = Mark(0) /\ 0 \in 0 .. Final
  BY ClientAssumption DEF Mark, Final
<1>2. PICK q \in Seq(Packets) : q = <<SymbolData>> /\ q # <<>> /\ Sorted(q) /\ Marks(q) = {0}
  BY <1>1, MarkIsPacket, MarkOfMark, OneMark
<1>3. Before(Stream(session), Marks(q))
  BY <1>0 DEF Before
<1>4. PICK list \in Lists :
           /\ sendList' = [sendList EXCEPT ![session] = list] /\ Len(list) <= SendListLen
           /\ ListSorted(list) /\ Before(Marks(received[session]), ListMarks(list))
           /\ failed => conn[session] # "up" /\ list = sendList[session]
           /\ ~failed => conn[session] = "up" /\ ListMarks(list) = ListMarks(sendList[session]) \cup Marks(q)
  BY <1>2, <1>3, ConnSends
<1>5. ~failed => Marks(received[session]) \cup ListMarks(list) \cup Marks(merge) = Own(session) \cup {0}
  BY <1>0, <1>2, <1>4
<1>6. Before(Marks(received[session]) \cup ListMarks(list), Marks(merge))
  BY <1>0 DEF Before
<1> QED
  BY <1>0, <1>4, <1>5, <1>6 DEF Sends

-----------------------------------------------------------------------------
(* The streams after a send                                                *)

LEMMA UpcomingIs ==
  ASSUME IInv
  PROVE  Upcoming \in 0 .. Final /\ Final \in Nat
<1>1. nextEvent \in 1 .. MaxEvents + 1 /\ initBuffer \in Seq(1 .. MaxEvents) /\ Len(initBuffer) < nextEvent /\ MaxEvents \in Nat
  BY ClientAssumption DEF IInv, TypeOK, LoggerInv
<1>2. PICK l \in Nat : l = Len(initBuffer)
  BY <1>1
<1> QED
  BY <1>1, <1>2 DEF Upcoming, Final

LEMMA OrderAfterSend ==
  ASSUME IInv, NEW K \in SUBSET (0 .. Final), NEW failed \in BOOLEAN, Sends(K, failed),
         session' = session, received' = received,
         Before(Own(session), K), \A s \in Sessions : s < session => Before(Stream(s) \ {Final}, K),
         Upcoming' \in Int, Upcoming <= Upcoming',
         \A n \in Own(session) : n = Final => phase' \in Closing,
         ~failed => \A n \in K : n < Upcoming' \/ (n = Final /\ phase' \in Closing)
  PROVE  OrderInv'
<1>1. PICK list \in Lists, m \in Seq(Packets) :
        /\ sendList' = [sendList EXCEPT ![session] = list] /\ merge' = m
        /\ ListSorted(list) /\ Sorted(m) /\ Before(Marks(received[session]), ListMarks(list))
        /\ Before(Marks(received[session]) \cup ListMarks(list), Marks(m))
        /\ failed => conn[session] # "up" /\ list = sendList[session] /\ Marks(m) = {}
        /\ ~failed => Marks(received[session]) \cup ListMarks(list) \cup Marks(m) = Own(session) \cup K
  BY DEF Sends
<1>2. /\ session \in Sessions /\ sendList \in [Sessions -> Lists] /\ Upcoming \in 0 .. Final /\ Final \in Nat
      /\ Own(session) = Marks(received[session]) \cup ListMarks(sendList[session]) \cup Marks(merge)
  BY SessionFacts, UpcomingIs DEF IInv, TypeOK, Lists
<1>3. sendList'[session] = list /\ \A s \in Sessions : s # session => sendList'[s] = sendList[s]
  BY <1>1, <1>2
<1>4. \A s \in Sessions : s # session => Stream(s)' = Stream(s) /\ Own(s)' = Stream(s) /\ Own(s) = Stream(s)
  BY <1>3 DEF Stream, Own
<1>5. PICK S : S = Stream(session)' /\ S = Marks(received[session]) \cup ListMarks(list)
  BY <1>3 DEF Stream
<1>6. PICK O : O = Own(session)' /\ O = S \cup Marks(m)
  BY <1>1, <1>5 DEF Own
<1>7. O \subseteq Own(session) \cup K /\ (failed => O \subseteq Own(session)) /\ S \subseteq O
  BY <1>1, <1>2, <1>5, <1>6
<1>8. \A n \in Own(session) : n \in 0 .. Final
  BY <1>2, MarksAreNumbers, ListMark
<1>9. \A s \in Sessions :
        /\ Sorted(received[s]) /\ ListSorted(sendList[s]) /\ Before(Marks(received[s]), ListMarks(sendList[s]))
        /\ \A t \in Sessions : s < t => Before(Stream(s) \ {Final}, Own(t))
        /\ \A n \in Own(s) : n < Upcoming \/ (n = Final /\ (s = session => phase \in Closing))
  BY DEF IInv, OrderInv
<1>10. ASSUME NEW s \in Sessions
       PROVE  Sorted(received[s]) /\ ListSorted(sendList'[s]) /\ Before(Marks(received[s]), ListMarks(sendList'[s]))
  <2>1. CASE s = session
    BY <1>1, <1>3, <1>9, <2>1
  <2>2. CASE s # session
    BY <1>3, <1>9, <2>2
  <2> QED
    BY <2>1, <2>2
<1>11. ASSUME NEW s \in Sessions, NEW t \in Sessions, s < t PROVE Before(Stream(s)' \ {Final}, Own(t)')
  <2>0. s # t
    BY <1>11 DEF Sessions
  <2>1. CASE t = session
    <3>1. Stream(s)' = Stream(s) /\ Own(t)' = O
      BY <1>4, <1>6, <2>0, <2>1
    <3>2. Before(Stream(s) \ {Final}, Own(session)) /\ Before(Stream(s) \ {Final}, K)
      BY <1>9, <1>11, <2>1
    <3> QED
      BY <1>7, <3>1, <3>2 DEF Before
  <2>2. CASE s = session
    <3>1. Stream(s)' = S /\ Own(t)' = Own(t)
      BY <1>4, <1>5, <2>0, <2>2
    <3>2. Own(t) = {}
      <4>1. t > session /\ t # session
        BY <1>2, <1>11, <2>2 DEF Sessions
      <4>2. received[t] = <<>> /\ sendList[t] = <<>>
        BY <4>1 DEF IInv, SessionsInv
      <4> QED
        BY <4>1, <4>2, NoMarks DEF Own, Stream
    <3> QED
      BY <3>1, <3>2 DEF Before
  <2>3. CASE s # session /\ t # session
    BY <1>4, <1>9, <1>11, <2>3
  <2> QED
    BY <2>1, <2>2, <2>3
<1>12. ASSUME NEW s \in Sessions, NEW n \in Own(s)' PROVE n < Upcoming' \/ (n = Final /\ (s = session => phase' \in Closing))
  <2>1. CASE s = session
    <3>1. n \in O
      BY <1>6, <2>1
    <3>2. CASE n \in Own(session)
      <4>0. n \in 0 .. Final
        BY <1>8, <3>2
      <4>1. n \in Int /\ (n < Upcoming \/ n = Final)
        <5>1. n < Upcoming \/ n = Final
          BY <1>2, <1>9, <3>2
        <5> QED
          BY <1>2, <4>0, <5>1
      <4> QED
        BY <1>2, <3>2, <4>1
    <3>3. CASE n \notin Own(session)
      BY <1>7, <3>1, <3>3
    <3> QED
      BY <3>2, <3>3
  <2>2. CASE s # session
    <3>1. n \in Own(s)
      BY <1>4, <2>2
    <3>2. n < Upcoming \/ n = Final
      BY <1>9, <3>1
    <3>3. n \in 0 .. Final
      BY <1>4, <2>2, <3>1, MarksAreNumbers, ListMark DEF Stream
    <3> QED
      BY <1>2, <2>2, <3>2, <3>3
  <2> QED
    BY <2>1, <2>2
<1>13. Sorted(merge') /\ Before(Stream(session)', Marks(merge'))
  BY <1>1, <1>5
<1> QED
  BY <1>10, <1>11, <1>12, <1>13 DEF OrderInv

LEMMA CompleteAfterSend ==
  ASSUME IInv, NEW K \in SUBSET (0 .. Final), NEW failed \in BOOLEAN, Sends(K, failed), OrderInv',
         session' = session, received' = received, conn'[1] # "lost" => conn[1] # "lost",
         Upcoming' \in Int, failed => Upcoming' = Upcoming, 0 .. Upcoming' - 1 \subseteq (0 .. Upcoming - 1) \cup K,
         failed /\ conn[session] # "lost" => Marks(merge) = {}
  PROVE  CompleteInv'
<1>1. PICK list \in Lists, m \in Seq(Packets) :
        /\ sendList' = [sendList EXCEPT ![session] = list] /\ merge' = m
        /\ Before(Marks(received[session]) \cup ListMarks(list), Marks(m))
        /\ failed => conn[session] # "up" /\ list = sendList[session] /\ Marks(m) = {}
        /\ ~failed => Marks(received[session]) \cup ListMarks(list) \cup Marks(m) = Own(session) \cup K
        /\ conn[session] \notin {"none", "up"} => list = sendList[session]
  BY DEF Sends
<1>2. /\ session \in Sessions /\ sendList \in [Sessions -> Lists] /\ 1 \in Sessions
      /\ Own(session) = Marks(received[session]) \cup ListMarks(sendList[session]) \cup Marks(merge)
  <2>1. 1 \in Sessions
    BY ClientAssumption DEF Sessions
  <2>2. sendList \in [Sessions -> Lists]
    BY DEF IInv, TypeOK, Lists
  <2> QED
    BY <2>1, <2>2, SessionFacts
<1>3. \A n \in Stream(1) \ {Final} : 0 .. n \subseteq Stream(1)
  BY DEF IInv, CompleteInv
<1>4. CASE session # 1 \/ conn[1] = "lost"
  <2>1. sendList'[1] = sendList[1]
    BY <1>1, <1>2, <1>4
  <2>2. Stream(1)' = Stream(1)
    BY <2>1 DEF Stream
  <2> QED
    BY <1>3, <1>4, <2>2 DEF CompleteInv
<1>5. CASE session = 1 /\ conn[1] # "lost"
  <2>1. PICK S : S = Stream(1)' /\ S = Marks(received[1]) \cup ListMarks(list)
    BY <1>1, <1>2, <1>5 DEF Stream
  <2>2. PICK O : O = Own(1)' /\ O = S \cup Marks(m)
    BY <1>1, <1>5, <2>1 DEF Own
  <2>3. 0 .. Upcoming - 1 \subseteq Own(1)
    BY <1>5 DEF IInv, CompleteInv
  <2>4. 0 .. Upcoming' - 1 \subseteq O
    <3>1. CASE failed
      BY <1>1, <1>2, <1>5, <2>1, <2>2, <2>3, <3>1
    <3>2. CASE ~failed
      BY <1>1, <1>5, <2>1, <2>2, <2>3, <3>2
    <3> QED
      BY <3>1, <3>2
  <2>5. ASSUME NEW n \in S \ {Final}, NEW k \in 0 .. n PROVE k \in S
    <3>1. n \in 0 .. Final /\ n < Upcoming'
      <4>1. n \in Own(1)' /\ n # Final
        BY <2>1, <2>2
      <4> QED
        BY <1>2, <2>1, <4>1, MarksAreNumbers, ListMark DEF OrderInv
    <3>2. k \in O
      <4>1. Final \in Nat
        BY UpcomingIs
      <4>2. k \in 0 .. Upcoming' - 1
        <5>1. PICK u \in Int, f \in Nat : u = Upcoming' /\ f = Final
          BY <4>1
        <5>2. n \in 0 .. f /\ n < u
          BY <3>1, <5>1
        <5>3. k \in 0 .. u - 1
          BY <5>2
        <5> QED
          BY <5>1, <5>3
      <4> QED
        BY <2>4, <4>2
    <3>3. ASSUME k \in Marks(m) PROVE FALSE
      <4>1. n < k
        BY <1>1, <1>5, <2>1, <3>3 DEF Before
      <4> QED
        BY <3>1, <4>1
    <3> QED
      BY <2>2, <3>2, <3>3
  <2> QED
    BY <1>5, <2>1, <2>2, <2>4, <2>5 DEF CompleteInv
<1> QED
  BY <1>4, <1>5

LEMMA SendTypes ==
  ASSUME IInv, NEW K, NEW failed \in BOOLEAN, Sends(K, failed)
  PROVE  /\ merge' \in Seq(Packets) /\ Len(merge') < MergeCap
         /\ sendList' \in [Sessions -> Lists] /\ \A s \in Sessions : Len(sendList'[s]) <= SendListLen
         /\ \A s \in Sessions : s # session => sendList'[s] = sendList[s]
         /\ conn[session] \notin {"none", "up"} => sendList' = sendList
<1>1. PICK list \in Lists, m \in Seq(Packets) :
        /\ sendList' = [sendList EXCEPT ![session] = list] /\ merge' = m
        /\ Len(list) <= SendListLen /\ Len(m) < MergeCap
        /\ conn[session] \notin {"none", "up"} => list = sendList[session]
  BY DEF Sends
<1>2. sendList \in [Sessions -> Lists] /\ \A s \in Sessions : Len(sendList[s]) <= SendListLen
  BY DEF IInv, TypeOK, Lists
<1>3. session \in Sessions
  BY SessionFacts
<1>4. \A s \in Sessions : s # session => sendList'[s] = sendList[s]
  BY <1>1, <1>2
<1>5. \A s \in Sessions : Len(sendList'[s]) <= SendListLen
  <2> SUFFICES ASSUME NEW s \in Sessions PROVE Len(sendList'[s]) <= SendListLen
    OBVIOUS
  <2>1. CASE s = session
    BY <1>1, <1>2, <2>1
  <2>2. CASE s # session
    BY <1>2, <1>4, <2>2
  <2> QED
    BY <2>1, <2>2
<1>6. sendList' \in [Sessions -> Lists]
  BY <1>1, <1>2
<1>7. conn[session] \notin {"none", "up"} => sendList' = sendList
  BY <1>1, <1>2
<1> QED
  BY <1>1, <1>4, <1>5, <1>6, <1>7

\* The steps that send nothing and receive nothing.
LEMMA SameStreams ==
  ASSUME IInv, received' = received, sendList' = sendList, merge' = merge, session' = session,
         Upcoming' = Upcoming, phase \in Closing => phase' \in Closing, conn'[1] # "lost" => conn[1] # "lost"
  PROVE  OrderInv' /\ CompleteInv'
<1>1. \A s : Stream(s)' = Stream(s) /\ Own(s)' = Own(s)
  BY DEF Stream, Own
<1>2. OrderInv'
  <2>1. \A s \in Sessions :
       /\ Sorted(received'[s]) /\ ListSorted(sendList'[s]) /\ Before(Marks(received'[s]), ListMarks(sendList'[s]))
       /\ \A t \in Sessions : s < t => Before(Stream(s)' \ {Final}, Own(t)')
    BY <1>1 DEF IInv, OrderInv
  <2>2. \A s \in Sessions : \A n \in Own(s)' : n < Upcoming' \/ (n = Final /\ (s = session' => phase' \in Closing))
    BY <1>1 DEF IInv, OrderInv
  <2>3. Sorted(merge') /\ Before(Stream(session)', Marks(merge'))
    BY <1>1 DEF IInv, OrderInv
  <2> QED
    BY <2>1, <2>2, <2>3 DEF OrderInv
<1>3. CompleteInv'
  BY <1>1 DEF IInv, CompleteInv
<1> QED
  BY <1>2, <1>3

-----------------------------------------------------------------------------
(* The steps of the logger that send nothing                               *)

LEMMA BufferEventIInv ==
  ASSUME IInv, BufferEvent
  PROVE  IInv'
<1>1. PICK l \in Nat, n \in 1 .. MaxEvents, b \in Seq(1 .. MaxEvents) :
        l = Len(initBuffer) /\ n = nextEvent /\ b = initBuffer /\ l < n
  BY ClientAssumption DEF IInv, TypeOK, LoggerInv, BufferEvent
<1>2. PICK c \in Seq(1 .. MaxEvents) : c = Append(b, n) /\ Len(c) = l + 1 /\ c[l + 1] = n /\ \A i \in 1 .. l : c[i] = b[i]
  <2>1. /\ Append(b, n) \in Seq(1 .. MaxEvents) /\ Len(Append(b, n)) = Len(b) + 1 /\ Append(b, n)[Len(b) + 1] = n
        /\ \A i \in 1 .. Len(b) : Append(b, n)[i] = b[i]
    BY AppendIs
  <2> QED
    BY <1>1, <2>1
<1>3. initBuffer' = c /\ nextEvent' = n + 1
  BY <1>1, <1>2 DEF BufferEvent
<1>4. Upcoming' = Upcoming
  <2>1. nextEvent' - Len(initBuffer') = nextEvent - Len(initBuffer)
    BY <1>1, <1>2, <1>3
  <2>2. SymbolsFirst' = SymbolsFirst
    BY DEF SymbolsFirst, BufferEvent
  <2> QED
    BY <2>1, <2>2 DEF Upcoming
<1>5. OrderInv' /\ CompleteInv'
  BY <1>4, SameStreams DEF BufferEvent, mergeVars, netVars, srvVars
<1>6. TypeOK'
  <2>1. nextEvent' \in 1 .. MaxEvents + 1 /\ initBuffer' \in Seq(1 .. MaxEvents)
    BY <1>1, <1>2, <1>3, ClientAssumption
  <2> QED
    BY <2>1 DEF IInv, TypeOK, BufferEvent, mergeVars, workVars, netVars, srvVars
<1>7. LoggerInv'
  <2>1. \A i \in 1 .. l : b[i] = n - 1 - l + i
    BY <1>1 DEF IInv, LoggerInv
  <2>2. ASSUME NEW i \in 1 .. l + 1 PROVE c[i] = (n + 1) - 1 - (l + 1) + i
    <3>1. CASE i = l + 1
      BY <1>1, <1>2, <3>1
    <3>2. CASE i # l + 1
      <4>1. i \in 1 .. l
        BY <1>1, <3>2
      <4>2. c[i] = n - 1 - l + i
        BY <1>2, <2>1, <4>1
      <4> QED
        BY <1>1, <4>1, <4>2
    <3> QED
      BY <3>1, <3>2
  <2>3. l + 1 < n + 1
    BY <1>1
  <2>4. SymbolsFirst' => l + 1 = (n + 1) - 1
    <3>1. SymbolsFirst' = SymbolsFirst
      BY DEF SymbolsFirst, BufferEvent
    <3>2. SymbolsFirst => l = n - 1
      BY <1>1 DEF IInv, LoggerInv
    <3> QED
      BY <1>1, <3>1, <3>2
  <2>5. phase' # "running" /\ retrying' \notin {"running", "flush"} /\ phase' = phase /\ retrying' = retrying
    BY DEF BufferEvent, IInv, LoggerInv
  <2>6. (phase' \in {"init", "large"} => retrying' = "no") /\ (phase' \in {"symbols", "flush", "running"} => retrying' \in {"no", phase'})
    BY <2>5 DEF IInv, LoggerInv
  <2> QED
    BY <1>2, <1>3, <2>2, <2>3, <2>4, <2>5, <2>6 DEF LoggerInv
<1>8. WorkersInv' /\ SessionsInv'
  BY DEF BufferEvent, IInv, WorkersInv, SessionsInv, mergeVars, workVars, netVars, srvVars
<1> QED
  BY <1>5, <1>6, <1>7, <1>8 DEF IInv

LEMMA BeginInitIInv ==
  ASSUME IInv, BeginInit
  PROVE  IInv'
<1>1. TypeOK'
  BY DEF IInv, TypeOK, Phase, BeginInit, mergeVars, workVars, netVars, srvVars
<1>2. LoggerInv' /\ SymbolsFirst' = SymbolsFirst
  BY DEF IInv, LoggerInv, SymbolsFirst, BeginInit
<1>3. WorkersInv'
  BY DEF IInv, WorkersInv, BeginInit, mergeVars, workVars
<1>4. SessionsInv'
  BY DEF IInv, TypeOK, SessionsInv, BeginInit, netVars, srvVars
<1>5. OrderInv' /\ CompleteInv'
  <2>1. Upcoming' = Upcoming
    BY <1>2 DEF Upcoming, BeginInit
  <2> QED
    BY <2>1, SameStreams DEF Closing, BeginInit, mergeVars, netVars, srvVars
<1> QED
  BY <1>1, <1>2, <1>3, <1>4, <1>5 DEF IInv

LEMMA RecvServerHelloIInv ==
  ASSUME IInv, RecvServerHello
  PROVE  IInv'
<1>1. TypeOK'
  BY DEF IInv, TypeOK, Phase, RecvServerHello, mergeVars, srvVars
<1>2. LoggerInv' /\ SymbolsFirst' = SymbolsFirst
  BY DEF IInv, TypeOK, LoggerInv, SessionsInv, SymbolsFirst, RecvServerHello
<1>3. WorkersInv'
  BY DEF IInv, TypeOK, LoggerInv, WorkersInv, SessionsInv, RecvServerHello, mergeVars
<1>4. SessionsInv'
  BY DEF IInv, TypeOK, LoggerInv, SessionsInv, RecvServerHello, srvVars
<1>5. OrderInv' /\ CompleteInv'
  <2>1. Upcoming' = Upcoming
    BY <1>2 DEF Upcoming, RecvServerHello
  <2> QED
    BY <2>1, SameStreams DEF Closing, RecvServerHello, mergeVars, srvVars, IInv, SessionsInv
<1> QED
  BY <1>1, <1>2, <1>3, <1>4, <1>5 DEF IInv

LEMMA FinishInitIInv ==
  ASSUME IInv, FinishInit
  PROVE  IInv'
<1>1. TypeOK'
  BY DEF IInv, TypeOK, Phase, FinishInit, mergeVars, workVars, netVars, srvVars
<1>2. LoggerInv' /\ SymbolsFirst' = SymbolsFirst
  BY DEF IInv, TypeOK, LoggerInv, SymbolsFirst, FinishInit
<1>3. WorkersInv'
  BY DEF IInv, WorkersInv, FinishInit, mergeVars, workVars
<1>4. SessionsInv'
  BY DEF IInv, TypeOK, SessionsInv, FinishInit, netVars, srvVars
<1>5. OrderInv' /\ CompleteInv'
  <2>1. Upcoming' = Upcoming
    BY <1>2 DEF Upcoming, FinishInit
  <2> QED
    BY <2>1, SameStreams DEF Closing, FinishInit, mergeVars, netVars, srvVars
<1> QED
  BY <1>1, <1>2, <1>3, <1>4, <1>5 DEF IInv

LEMMA BeginCloseIInv ==
  ASSUME IInv, BeginClose
  PROVE  IInv'
<1>1. TypeOK'
  BY DEF IInv, TypeOK, Phase, BeginClose, mergeVars, workVars, netVars, srvVars
<1>2. LoggerInv' /\ SymbolsFirst' = SymbolsFirst
  BY DEF IInv, LoggerInv, SymbolsFirst, BeginClose
<1>3. WorkersInv'
  BY DEF IInv, WorkersInv, BeginClose, mergeVars, workVars
<1>4. SessionsInv'
  BY DEF IInv, TypeOK, SessionsInv, BeginClose, netVars, srvVars
<1>5. OrderInv' /\ CompleteInv'
  <2>1. Upcoming' = Upcoming
    BY <1>2 DEF Upcoming, BeginClose
  <2> QED
    BY <2>1, SameStreams DEF Closing, BeginClose, mergeVars, netVars, srvVars
<1> QED
  BY <1>1, <1>2, <1>3, <1>4, <1>5 DEF IInv

LEMMA CancelWorkersIInv ==
  ASSUME IInv, CancelWorkers
  PROVE  IInv'
<1>1. TypeOK'
  BY DEF IInv, TypeOK, Phase, CancelWorkers, mergeVars, netVars, srvVars
<1>2. LoggerInv' /\ SymbolsFirst' = SymbolsFirst
  BY DEF IInv, LoggerInv, SymbolsFirst, CancelWorkers
<1>3. WorkersInv'
  BY DEF IInv, WorkersInv, CancelWorkers, mergeVars
<1>4. SessionsInv'
  BY DEF IInv, TypeOK, SessionsInv, CancelWorkers, netVars, srvVars
<1>5. OrderInv' /\ CompleteInv'
  <2>1. Upcoming' = Upcoming
    BY <1>2 DEF Upcoming, CancelWorkers
  <2> QED
    BY <2>1, SameStreams DEF Closing, CancelWorkers, mergeVars, netVars, srvVars
<1> QED
  BY <1>1, <1>2, <1>3, <1>4, <1>5 DEF IInv

LEMMA WaitWorkersIInv ==
  ASSUME IInv, WaitWorkers
  PROVE  IInv'
<1>1. TypeOK'
  BY DEF IInv, TypeOK, Phase, WaitWorkers, mergeVars, workVars, netVars, srvVars
<1>2. LoggerInv' /\ SymbolsFirst' = SymbolsFirst
  BY DEF IInv, LoggerInv, SymbolsFirst, WaitWorkers
<1>3. WorkersInv'
  BY DEF IInv, WorkersInv, WaitWorkers, mergeVars, workVars
<1>4. SessionsInv'
  BY DEF IInv, TypeOK, SessionsInv, WaitWorkers, netVars, srvVars
<1>5. OrderInv' /\ CompleteInv'
  <2>1. Upcoming' = Upcoming
    BY <1>2 DEF Upcoming, WaitWorkers
  <2> QED
    BY <2>1, SameStreams DEF Closing, WaitWorkers, mergeVars, netVars, srvVars
<1> QED
  BY <1>1, <1>2, <1>3, <1>4, <1>5 DEF IInv

LEMMA StopConnIInv ==
  ASSUME IInv, StopConn
  PROVE  IInv'
<1>1. TypeOK'
  BY DEF IInv, TypeOK, Phase, StopConn, mergeVars, workVars, srvVars
<1>2. LoggerInv' /\ SymbolsFirst' = SymbolsFirst
  BY DEF IInv, LoggerInv, SymbolsFirst, StopConn
<1>3. WorkersInv'
  BY DEF IInv, WorkersInv, StopConn, mergeVars, workVars
<1>4. SessionsInv'
  BY DEF IInv, TypeOK, SessionsInv, StopConn, srvVars
<1>5. OrderInv' /\ CompleteInv'
  <2>1. Upcoming' = Upcoming
    BY <1>2 DEF Upcoming, StopConn
  <2> QED
    BY <2>1, SameStreams DEF Closing, StopConn, mergeVars, srvVars
<1> QED
  BY <1>1, <1>2, <1>3, <1>4, <1>5 DEF IInv

LEMMA PingStopsIInv ==
  ASSUME IInv, PingStops
  PROVE  IInv'
<1>1. TypeOK'
  BY DEF IInv, TypeOK, PingStops, logVars, mergeVars, netVars, srvVars
<1>2. LoggerInv' /\ SymbolsFirst' = SymbolsFirst
  BY DEF IInv, LoggerInv, SymbolsFirst, PingStops, logVars
<1>3. WorkersInv'
  BY DEF IInv, WorkersInv, PingStops, logVars, mergeVars
<1>4. SessionsInv'
  BY DEF IInv, TypeOK, SessionsInv, PingStops, logVars, netVars, srvVars
<1>5. OrderInv' /\ CompleteInv'
  <2>1. Upcoming' = Upcoming
    BY <1>2 DEF Upcoming, PingStops, logVars
  <2> QED
    BY <2>1, SameStreams DEF Closing, PingStops, logVars, mergeVars, netVars, srvVars
<1> QED
  BY <1>1, <1>2, <1>3, <1>4, <1>5 DEF IInv

LEMMA RefreshStopsIInv ==
  ASSUME IInv, RefreshStops
  PROVE  IInv'
<1>1. TypeOK'
  BY DEF IInv, TypeOK, RefreshStops, logVars, netVars, srvVars
<1>2. LoggerInv' /\ SymbolsFirst' = SymbolsFirst
  BY DEF IInv, LoggerInv, SymbolsFirst, RefreshStops, logVars
<1>3. WorkersInv'
  BY DEF IInv, WorkersInv, RefreshStops, logVars
<1>4. SessionsInv'
  BY DEF IInv, TypeOK, SessionsInv, RefreshStops, logVars, netVars, srvVars
<1>5. OrderInv' /\ CompleteInv'
  <2>1. Upcoming' = Upcoming
    BY <1>2 DEF Upcoming, RefreshStops, logVars
  <2> QED
    BY <2>1, SameStreams DEF Closing, RefreshStops, logVars, netVars, srvVars
<1> QED
  BY <1>1, <1>2, <1>3, <1>4, <1>5 DEF IInv

LEMMA ClientClosedIInv ==
  ASSUME IInv, ClientClosed
  PROVE  IInv'
<1>1. TypeOK'
  BY DEF IInv, TypeOK, ClientClosed, logVars, mergeVars, srvVars
<1>2. LoggerInv' /\ SymbolsFirst' = SymbolsFirst
  BY DEF IInv, LoggerInv, SymbolsFirst, ClientClosed, logVars
<1>3. WorkersInv'
  BY DEF IInv, WorkersInv, ClientClosed, logVars, mergeVars
<1>4. SessionsInv'
  BY DEF IInv, TypeOK, SessionsInv, ClientClosed, logVars, srvVars
<1>5. OrderInv' /\ CompleteInv'
  <2>1. Upcoming' = Upcoming
    BY <1>2 DEF Upcoming, ClientClosed, logVars
  <2> QED
    BY <2>1, SameStreams DEF Closing, ClientClosed, logVars, mergeVars, srvVars
<1> QED
  BY <1>1, <1>2, <1>3, <1>4, <1>5 DEF IInv

LEMMA PanicIInv ==
  ASSUME IInv, Panic
  PROVE  IInv'
<1>1. TypeOK'
  BY DEF IInv, TypeOK, Panic, logVars, mergeVars, workVars, netVars, srvVars
<1>2. LoggerInv' /\ SymbolsFirst' = SymbolsFirst
  BY DEF IInv, LoggerInv, SymbolsFirst, Panic, logVars
<1>3. WorkersInv'
  BY DEF IInv, WorkersInv, Panic, logVars, mergeVars, workVars
<1>4. SessionsInv'
  BY DEF IInv, TypeOK, SessionsInv, Panic, logVars, netVars, srvVars
<1>5. OrderInv' /\ CompleteInv'
  <2>1. Upcoming' = Upcoming
    BY <1>2 DEF Upcoming, Panic, logVars
  <2> QED
    BY <2>1, SameStreams DEF Closing, Panic, logVars, mergeVars, netVars, srvVars
<1> QED
  BY <1>1, <1>2, <1>3, <1>4, <1>5 DEF IInv

LEMMA ConnLostIInv ==
  ASSUME IInv, NEW s \in Sessions, ConnLost(s)
  PROVE  IInv'
<1>1. TypeOK'
  BY DEF IInv, TypeOK, ConnLost, logVars, mergeVars, workVars, srvVars
<1>2. LoggerInv' /\ SymbolsFirst' = SymbolsFirst
  BY DEF IInv, LoggerInv, SymbolsFirst, ConnLost, logVars
<1>3. WorkersInv'
  BY DEF IInv, WorkersInv, ConnLost, logVars, mergeVars, workVars
<1>4. SessionsInv'
  BY DEF IInv, TypeOK, SessionsInv, ConnLost, logVars, srvVars
<1>5. OrderInv' /\ CompleteInv'
  <2>1. Upcoming' = Upcoming
    BY <1>2 DEF Upcoming, ConnLost, logVars
  <2> QED
    BY <2>1, SameStreams DEF Closing, ConnLost, logVars, mergeVars, srvVars
<1> QED
  BY <1>1, <1>2, <1>3, <1>4, <1>5 DEF IInv

\* The ClientHello is no mark: the stream of the session stays empty.
LEMMA DialSends ==
  ASSUME IInv, Dial
  PROVE  Sends({}, FALSE)
<1>0. Dial
  OBVIOUS
<1>1. session \in Sessions /\ received[session] = <<>> /\ sendList[session] = <<>> /\ merge = <<>> /\ conn[session] = "none"
  BY DEF Dial, IInv, TypeOK, SessionsInv, WorkersInv
<1>2. Own(session) = {} /\ Marks(received[session]) = {}
  BY <1>1, SessionFacts, NoMarks DEF Stream
<1>3. PICK q \in Seq(Packets) : q = <<Hello>> /\ q # <<>> /\ Sorted(q) /\ Marks(q) = {}
  <2>1. Hello \in Packets
    BY DEF Packets
  <2> QED
    BY <2>1, OneMark, MarkOfOthers
<1>4. PICK list \in Lists : list = <<q>> /\ Len(list) = 1 /\ ListMarks(list) = {} /\ ListSorted(list)
  <2>1. PICK e \in Lists : e = <<>> /\ ListMarks(e) = {} /\ ListSorted(e) /\ Len(e) = 0
    <3>1. <<>> \in Lists /\ Len(<<>>) = 0
      BY DEF Lists
    <3> QED
      BY <3>1, NoMarks
  <2>2. Before(ListMarks(e), Marks(q))
    BY <2>1 DEF Before
  <2>3. Append(e, q) \in Lists /\ Len(Append(e, q)) = 1 /\ ListMarks(Append(e, q)) = {} /\ ListSorted(Append(e, q))
    <3>1. /\ Append(e, q) \in Lists /\ Len(Append(e, q)) = Len(e) + 1 /\ ListMarks(Append(e, q)) = ListMarks(e) \cup Marks(q)
          /\ ListSorted(e) /\ q # <<>> /\ Sorted(q) /\ Before(ListMarks(e), Marks(q)) => ListSorted(Append(e, q))
      BY AppendList
    <3> QED
      BY <1>3, <2>1, <2>2, <3>1
  <2>4. Append(e, q) = <<q>>
    BY <2>1
  <2> QED
    BY <2>3, <2>4
<1>5. sendList' = [sendList EXCEPT ![session] = list] /\ merge' = merge
  BY <1>0, <1>3, <1>4 DEF Dial, mergeVars
<1>6. 1 <= SendListLen
  BY ClientAssumption
<1>7. Len(merge) < MergeCap /\ merge \in Seq(Packets) /\ Sorted(merge) /\ Marks(merge) = {}
  BY <1>1, EmptyMerge
<1>8. Before(Marks(received[session]), ListMarks(list)) /\ Before(Marks(received[session]) \cup ListMarks(list), Marks(merge))
  BY <1>2, <1>4 DEF Before
<1>9. Marks(received[session]) \cup ListMarks(list) \cup Marks(merge) = Own(session) \cup {}
  BY <1>2, <1>4, <1>7
<1> QED
  BY <1>1, <1>4, <1>5, <1>6, <1>7, <1>8, <1>9 DEF Sends

LEMMA DialIInv ==
  ASSUME IInv, Dial
  PROVE  IInv'
<1>0. Dial
  OBVIOUS
<1>1. Sends({}, FALSE)
  BY DialSends
<1>2. Upcoming' = Upcoming
  BY DEF Upcoming, SymbolsFirst, Dial, logVars
<1>3. phase' = phase /\ phase = "opening" /\ session' = session /\ received' = received /\ session \in Sessions
  BY DEF Dial, logVars, srvVars, IInv, TypeOK
<1>4. OrderInv'
  <2>1. \A n \in Own(session) : n = Final => phase' \in Closing
    <3>1. Own(session) = {}
      BY SessionFacts, NoMarks DEF Stream, Dial, IInv, TypeOK, SessionsInv, WorkersInv
    <3> QED
      BY <3>1
  <2>2. Upcoming \in Int
    BY UpcomingIs
  <2> QED
    <3>1. Before(Own(session), {}) /\ \A s \in Sessions : s < session => Before(Stream(s) \ {Final}, {})
      BY DEF Before
    <3>2. Upcoming' \in Int /\ Upcoming <= Upcoming' /\ {} \in SUBSET (0 .. Final)
      BY <1>2, <2>2
    <3> QED
      BY <1>1, <1>3, <2>1, <3>1, <3>2, OrderAfterSend
<1>5. CompleteInv'
  <2>1. conn'[1] # "lost" => conn[1] # "lost"
    BY <1>0 DEF Dial
  <2>2. Upcoming \in Int
    BY UpcomingIs
  <2> QED
    BY <1>1, <1>2, <1>3, <1>4, <2>1, <2>2, CompleteAfterSend
<1>6. TypeOK'
  <2>1. sendList' \in [Sessions -> Lists] /\ \A s \in Sessions : Len(sendList'[s]) <= SendListLen
    BY <1>1, SendTypes
  <2> QED
    BY <1>0, <2>1 DEF Dial, IInv, TypeOK, Lists, logVars, mergeVars, workVars, srvVars
<1>7. LoggerInv' /\ WorkersInv'
  BY <1>0 DEF Dial, IInv, LoggerInv, SymbolsFirst, WorkersInv, logVars, mergeVars, workVars
<1>8. SessionsInv'
  <2>1. /\ conn' = [conn EXCEPT ![session] = "up"] /\ srv' = srv /\ hello' = hello /\ retrying' = retrying
        /\ conn \in [Sessions -> {"none", "up", "stopping", "closed", "lost"}]
    BY <1>0 DEF Dial, logVars, srvVars, IInv, TypeOK
  <2>2. \A s \in Sessions : s # session => sendList'[s] = sendList[s]
    BY <1>1, SendTypes
  <2> QED
    BY <1>0, <1>3, <2>1, <2>2 DEF Dial, IInv, SessionsInv, Sessions
<1> QED
  BY <1>4, <1>5, <1>6, <1>7, <1>8 DEF IInv

\* A new client begins with an empty stream; the merge buffer of the old one is gone.
LEMMA ReopenIInv ==
  ASSUME IInv, Reopen
  PROVE  IInv'
<1>0. /\ phase = "closed" /\ retrying # "no" /\ session < MaxSessions /\ phase' = "opening" /\ session' = session + 1
      /\ merge' = <<>> /\ received' = received /\ sendList' = sendList /\ retrying' = retrying
      /\ nextEvent' = nextEvent /\ initBuffer' = initBuffer /\ conn' = conn /\ srv' = srv /\ hello' = hello
  BY DEF Reopen, netVars, srvVars
<1>1. session \in Sessions /\ session' \in Sessions /\ session' > session /\ session' # 1
  BY <1>0, ClientAssumption DEF IInv, TypeOK, Sessions
<1> PICK new \in Sessions : new = session'
  BY <1>1
<1>2. /\ conn[new] = "none" /\ srv[new] = "accepted" /\ ~hello[new]
      /\ received[new] = <<>> /\ sendList[new] = <<>>
  BY <1>1 DEF IInv, SessionsInv
<1>3. Upcoming' = Upcoming
  BY <1>0 DEF Upcoming, SymbolsFirst
<1>4. \A s \in Sessions : Stream(s)' = Stream(s)
  BY <1>0 DEF Stream
<1>5. Own(new)' = {}
  BY <1>0, <1>2, NoMarks DEF Own, Stream
<1>6. \A s \in Sessions : Own(s)' \subseteq Own(s)
  <2> SUFFICES ASSUME NEW s \in Sessions PROVE Own(s)' \subseteq Own(s)
    OBVIOUS
  <2>1. CASE s = new
    BY <1>5, <2>1
  <2>2. CASE s # new
    BY <1>4, <2>2 DEF Own
  <2> QED
    BY <2>1, <2>2
<1>7. OrderInv'
  <2>1. ASSUME NEW s \in Sessions
        PROVE  Sorted(received'[s]) /\ ListSorted(sendList'[s]) /\ Before(Marks(received'[s]), ListMarks(sendList'[s]))
    BY <1>0 DEF IInv, OrderInv
  <2>2. ASSUME NEW s \in Sessions, NEW t \in Sessions, s < t PROVE Before(Stream(s)' \ {Final}, Own(t)')
    BY <1>4, <1>6, <2>2 DEF IInv, OrderInv, Before
  <2>3. ASSUME NEW s \in Sessions, NEW n \in Own(s)' PROVE n < Upcoming' \/ (n = Final /\ (s = session' => phase' \in Closing))
    <3>1. s # new
      BY <1>5, <2>3
    <3> QED
      BY <1>3, <1>6, <2>3, <3>1 DEF IInv, OrderInv
  <2>4. Sorted(merge') /\ Before(Stream(session)', Marks(merge'))
    BY <1>0, EmptyMerge
  <2> QED
    BY <2>1, <2>2, <2>3, <2>4 DEF OrderInv
<1>8. CompleteInv'
  <2>1. 1 \in Sessions
    BY ClientAssumption DEF Sessions
  <2> QED
    BY <1>1, <1>4, <2>1 DEF IInv, CompleteInv
<1>9. TypeOK'
  <2>1. merge' \in Seq(Packets) /\ Len(merge') < MergeCap
    BY <1>0, EmptyMerge
  <2> QED
    BY <1>0, <1>1, <2>1 DEF Reopen, IInv, TypeOK, Phase, netVars, srvVars
<1>10. LoggerInv' /\ WorkersInv'
  <2>1. SymbolsFirst' = SymbolsFirst
    BY <1>0 DEF SymbolsFirst
  <2> QED
    BY <1>0, <2>1 DEF Reopen, IInv, LoggerInv, WorkersInv
<1>11. SessionsInv'
  <2>1. \A s \in Sessions : s > session' => s > session
    BY <1>0, <1>1 DEF Sessions
  <2> QED
    BY <1>0, <1>1, <1>2, <2>1 DEF IInv, SessionsInv
<1> QED
  BY <1>7, <1>8, <1>9, <1>10, <1>11 DEF IInv

-----------------------------------------------------------------------------
(* The steps that send                                                     *)

\* Once it is open, the connection of a client is up until it is lost or the
\* client has stopped it: the server does not end it.
LEMMA OpenSession ==
  ASSUME IInv, phase \notin {"init", "opening", "closed"}
  PROVE  conn[session] \in {"up", "lost"} /\ srv[session] # "accepted" /\ ~hello[session]
BY DEF IInv, TypeOK, SessionsInv

\* Until the Shutdown is sent, the next mark and the Shutdown follow all others.
LEMMA NextMark ==
  ASSUME IInv, phase \notin Closing
  PROVE  /\ Before(Own(session), {Upcoming}) /\ Before(Own(session), {Final}) /\ Final \notin Own(session)
         /\ \A s \in Sessions : s < session => Before(Stream(s) \ {Final}, {Upcoming}) /\ Before(Stream(s) \ {Final}, {Final})
<1>1. PICK u \in 0 .. Final, f \in Nat : u = Upcoming /\ f = Final
  BY UpcomingIs
<1>2. \A s \in Sessions : Stream(s) \subseteq Own(s) /\ Own(s) \subseteq 0 .. f
  BY <1>1, MarksAreNumbers, ListMark DEF Own, Stream
<1>3. ASSUME NEW n \in Own(session) PROVE n < u /\ n < f
  <2>1. session \in Sessions /\ n < u
    BY <1>1, <1>3, SessionFacts DEF IInv, OrderInv
  <2>2. n \in 0 .. f
    BY <1>2, <1>3, <2>1
  <2> QED
    BY <1>1, <2>1, <2>2
<1>4. ASSUME NEW s \in Sessions, s < session, NEW n \in Stream(s) \ {Final} PROVE n < u /\ n < f
  <2>1. n \in 0 .. f /\ n # f
    BY <1>1, <1>2, <1>4
  <2>2. n < u
    BY <1>1, <1>2, <1>4 DEF IInv, OrderInv
  <2> QED
    BY <2>1, <2>2
<1>5. Final \notin Own(session)
  BY <1>1, <1>3
<1> QED
  BY <1>1, <1>3, <1>4, <1>5 DEF Before

LEMMA SessionsAfterSend ==
  ASSUME IInv, NEW K, NEW failed \in BOOLEAN, Sends(K, failed),
         phase \notin {"init", "opening", "closed"}, phase' \notin {"init", "opening"},
         session' = session, conn' = conn, srv' = srv, hello' = hello, received' = received,
         retrying' # "no" => retrying # "no" \/ conn[session] = "lost"
  PROVE  SessionsInv'
<1>1. conn[session] \in {"up", "lost"} /\ srv[session] # "accepted" /\ ~hello[session]
  BY OpenSession
<1>2. /\ session \in Sessions /\ \A s \in Sessions : s # session => sendList'[s] = sendList[s]
      /\ conn[session] \notin {"none", "up"} => sendList' = sendList
  BY SendTypes, SessionFacts
<1>3. ASSUME NEW s \in Sessions
      PROVE  (conn[s] = "none" => received[s] = <<>> /\ sendList'[s] = <<>>) /\ (conn[s] = "closed" => sendList'[s] = <<>>)
  <2>1. CASE s = session
    BY <1>1, <1>2, <2>1 DEF IInv, SessionsInv
  <2>2. CASE s # session
    BY <1>2, <2>2 DEF IInv, SessionsInv
  <2> QED
    BY <2>1, <2>2
<1>4. \A s \in Sessions : s > session => conn[s] = "none" /\ srv[s] = "accepted" /\ ~hello[s]
  BY DEF IInv, SessionsInv
<1>5. conn[session] # "closed"
  BY DEF IInv, SessionsInv
<1>6. retrying' # "no" \/ session > 1 => \E s \in Sessions : conn[s] = "lost"
  BY <1>2 DEF IInv, SessionsInv
<1> QED
  BY <1>1, <1>3, <1>4, <1>5, <1>6 DEF SessionsInv

\* A send of the marks in K, all of them next in turn, keeps the invariants that
\* relate the streams.
LEMMA StreamsAfterSend ==
  ASSUME IInv, NEW K \in SUBSET (0 .. Final), NEW failed \in BOOLEAN, Sends(K, failed),
         phase \notin {"init", "opening", "closed"}, phase' \notin {"init", "opening"},
         session' = session, conn' = conn, srv' = srv, hello' = hello, received' = received,
         retrying' # "no" => retrying # "no" \/ conn[session] = "lost",
         Before(Own(session), K), \A s \in Sessions : s < session => Before(Stream(s) \ {Final}, K),
         Upcoming' \in Int, Upcoming <= Upcoming', failed => Upcoming' = Upcoming,
         0 .. Upcoming' - 1 \subseteq (0 .. Upcoming - 1) \cup K,
         \A n \in Own(session) : n = Final => phase' \in Closing,
         ~failed => \A n \in K : n < Upcoming' \/ (n = Final /\ phase' \in Closing)
  PROVE  SessionsInv' /\ OrderInv' /\ CompleteInv'
<1>1. SessionsInv'
  BY SessionsAfterSend
<1>2. OrderInv'
  BY OrderAfterSend
<1>3. failed /\ conn[session] # "lost" => Marks(merge) = {}
  <2>1. failed => conn[session] # "up"
    BY DEF Sends
  <2> QED
    BY <2>1, OpenSession
<1>4. CompleteInv'
  BY <1>2, <1>3, CompleteAfterSend
<1> QED
  BY <1>1, <1>2, <1>4

LEMMA SendSymbolsIInv ==
  ASSUME IInv, SendSymbols
  PROVE  IInv'
<1>1. PICK failed \in BOOLEAN : SendPending(failed) /\ RetrySend("symbols", "large", failed)
  BY DEF SendSymbols
<1>2. /\ phase = "symbols" /\ retrying \in {"no", "symbols"} /\ session' = session /\ conn' = conn /\ srv' = srv
      /\ hello' = hello /\ received' = received /\ nextEvent' = nextEvent /\ initBuffer' = initBuffer
      /\ phase' = (IF failed THEN "shutdown" ELSE "large") /\ retrying' = (IF failed THEN "symbols" ELSE "no")
  BY <1>1 DEF SendSymbols, RetrySend, srvVars, IInv, LoggerInv
<1>3. Sends({}, failed) /\ merge' = <<>>
  BY <1>1, PendingSends
<1>4. SymbolsFirst /\ SymbolsFirst' /\ Upcoming' = Upcoming
  BY <1>2 DEF SymbolsFirst, Upcoming
<1>5. SessionsInv' /\ OrderInv' /\ CompleteInv'
  <2>1. failed => conn[session] = "lost"
    BY <1>2, <1>3, OpenSession DEF Sends, Closing
  <2>2. Final \notin Own(session)
    BY <1>2, NextMark DEF Closing
  <2>3. Upcoming \in Int
    BY UpcomingIs
  <2>4. phase \notin {"init", "opening", "closed"} /\ phase' \notin {"init", "opening"}
    BY <1>2
  <2>5. retrying' # "no" => conn[session] = "lost"
    BY <1>2, <2>1
  <2> QED
    BY <1>2, <1>3, <1>4, <2>2, <2>3, <2>4, <2>5, StreamsAfterSend DEF Before
<1>6. TypeOK'
  BY <1>2, <1>3, SendTypes DEF SendSymbols, IInv, TypeOK, Phase, Lists, workVars, srvVars
<1>7. LoggerInv' /\ WorkersInv'
  BY <1>2, <1>3, <1>4 DEF SendSymbols, IInv, LoggerInv, WorkersInv, workVars
<1> QED
  BY <1>5, <1>6, <1>7 DEF IInv

\* Nothing is sent before the symbols; after them it is the turn of the first event.
LEMMA SendLargeIInv ==
  ASSUME IInv, SendLarge
  PROVE  IInv'
<1>1. PICK failed \in BOOLEAN : ConnSend(<<SymbolData>>, failed) /\ RetrySend("symbols", "flush", failed)
  BY DEF SendLarge
<1>2. /\ phase = "large" /\ retrying = "no" /\ session' = session /\ conn' = conn /\ srv' = srv /\ merge' = merge
      /\ hello' = hello /\ received' = received /\ nextEvent' = nextEvent /\ initBuffer' = initBuffer
      /\ phase' = (IF failed THEN "shutdown" ELSE "flush") /\ retrying' = (IF failed THEN "symbols" ELSE "no")
  BY <1>1 DEF SendLarge, RetrySend, srvVars, mergeVars, IInv, LoggerInv
<1>3. SymbolsFirst /\ (SymbolsFirst' <=> failed)
  BY <1>2 DEF SymbolsFirst
<1>4. Upcoming = 0 /\ Upcoming' = IF failed THEN 0 ELSE 1
  <2>1. Upcoming = 0 /\ Upcoming' = IF failed THEN 0 ELSE nextEvent - Len(initBuffer)
    BY <1>2, <1>3 DEF Upcoming
  <2>2. nextEvent - Len(initBuffer) = 1
    <3>1. nextEvent \in Int /\ Len(initBuffer) = nextEvent - 1
      BY <1>3, ClientAssumption DEF IInv, TypeOK, LoggerInv
    <3> QED
      BY <3>1
  <2> QED
    BY <2>1, <2>2
<1>5. Own(session) = {}
  <2>1. Before(Own(session), {0}) /\ Own(session) \subseteq 0 .. Final
    BY <1>2, <1>4, NextMark, MarksAreNumbers, ListMark DEF Closing, Own, Stream
  <2> QED
    BY <2>1, UpcomingIs DEF Before
<1>6. Sends({0}, failed)
  BY <1>1, <1>2, <1>5, LargeSends
<1>7. SessionsInv' /\ OrderInv' /\ CompleteInv'
  <2>1. failed => conn[session] = "lost"
    BY <1>2, <1>6, OpenSession DEF Sends, Closing
  <2>2. \A s \in Sessions : s < session => Before(Stream(s) \ {Final}, {0})
    BY <1>2, <1>4, NextMark DEF Closing
  <2>3. /\ Upcoming' \in Int /\ Upcoming <= Upcoming' /\ (failed => Upcoming' = Upcoming)
        /\ 0 .. Upcoming' - 1 \subseteq (0 .. Upcoming - 1) \cup {0}
        /\ ~failed => \A n \in {0} : n < Upcoming'
    BY <1>4
  <2>4. phase \notin {"init", "opening", "closed"} /\ phase' \notin {"init", "opening"}
    BY <1>2
  <2>5. retrying' # "no" => conn[session] = "lost"
    BY <1>2, <2>1
  <2>6. {0} \in SUBSET (0 .. Final) /\ Before(Own(session), {0})
    BY <1>5, UpcomingIs DEF Before
  <2> QED
    BY <1>2, <1>5, <1>6, <2>2, <2>3, <2>4, <2>5, <2>6, StreamsAfterSend
<1>8. TypeOK'
  BY <1>2, <1>6, SendTypes DEF SendLarge, IInv, TypeOK, Phase, Lists, workVars, mergeVars, srvVars
<1>9. LoggerInv' /\ WorkersInv'
  BY <1>2, <1>3 DEF SendLarge, IInv, LoggerInv, WorkersInv, workVars, mergeVars
<1> QED
  BY <1>7, <1>8, <1>9 DEF IInv

\* A send of the event whose turn it is.
LEMMA EventSends ==
  ASSUME IInv, phase \notin Closing, Upcoming \in 1 .. MaxEvents,
         NEW failed \in BOOLEAN, MergeSend(Event(Upcoming), failed)
  PROVE  Sends({Upcoming}, failed)
<1>0. MaxEvents \in Nat /\ Final = MaxEvents + 1
  BY ClientAssumption DEF Final
<1>1. PICK u \in 1 .. MaxEvents : u = Upcoming
  OBVIOUS
<1>2. u \in 0 .. Final /\ u # 0 /\ u # Final
  BY <1>0
<1>3. Mark(u) = Event(u)
  BY <1>2 DEF Mark
<1>4. Event(u) \in Packets /\ MarkOf(Event(u)) = {u}
  BY <1>2, <1>3, MarkIsPacket, MarkOfMark
<1>5. Before(Own(session), MarkOf(Event(u)))
  BY <1>1, <1>4, NextMark
<1>6. MergeSend(Event(u), failed)
  BY <1>1
<1>7. Sends(MarkOf(Event(u)), failed)
  BY <1>4, <1>5, <1>6, MergeSends
<1> QED
  BY <1>1, <1>4, <1>7

LEMMA EventStreams ==
  ASSUME IInv, NEW failed \in BOOLEAN, Upcoming \in 1 .. MaxEvents, Sends({Upcoming}, failed),
         phase \in {"flush", "running"}, phase' \in {"flush", "running", "shutdown"},
         session' = session, conn' = conn, srv' = srv, hello' = hello, received' = received,
         retrying' # "no" => failed, Upcoming' = IF failed THEN Upcoming ELSE Upcoming + 1
  PROVE  SessionsInv' /\ OrderInv' /\ CompleteInv'
<1>1. phase \notin Closing /\ phase \notin {"init", "opening", "closed"} /\ phase' \notin {"init", "opening"}
  BY DEF Closing
<1>2. /\ Final \notin Own(session) /\ Before(Own(session), {Upcoming})
      /\ \A s \in Sessions : s < session => Before(Stream(s) \ {Final}, {Upcoming})
  BY <1>1, NextMark
<1>3. retrying' # "no" => conn[session] = "lost"
  BY <1>1, OpenSession DEF Sends
<1>4. {Upcoming} \in SUBSET (0 .. Final)
  BY UpcomingIs
<1>5. /\ Upcoming' \in Int /\ Upcoming <= Upcoming' /\ (failed => Upcoming' = Upcoming)
      /\ 0 .. Upcoming' - 1 \subseteq (0 .. Upcoming - 1) \cup {Upcoming}
      /\ ~failed => \A n \in {Upcoming} : n < Upcoming'
  <2>1. PICK u \in Nat : u = Upcoming /\ Upcoming' = IF failed THEN u ELSE u + 1
    OBVIOUS
  <2> QED
    BY <2>1
<1> QED
  BY <1>1, <1>2, <1>3, <1>4, <1>5, StreamsAfterSend

LEMMA SendBufferedIInv ==
  ASSUME IInv, SendBuffered
  PROVE  IInv'
<1>1. PICK failed \in BOOLEAN :
        /\ MergeSend(Event(Head(initBuffer)), failed) /\ RetrySend("flush", "flush", failed)
        /\ initBuffer' = IF failed THEN initBuffer ELSE Tail(initBuffer)
  BY DEF SendBuffered
<1>2. /\ phase = "flush" /\ retrying \in {"no", "flush"} /\ session' = session /\ conn' = conn /\ srv' = srv
      /\ hello' = hello /\ received' = received /\ nextEvent' = nextEvent /\ initBuffer # <<>>
      /\ phase' = (IF failed THEN "shutdown" ELSE "flush") /\ retrying' = (IF failed THEN "flush" ELSE "no")
  BY <1>1 DEF SendBuffered, RetrySend, srvVars, IInv, LoggerInv
<1>3. ~SymbolsFirst /\ ~SymbolsFirst'
  BY <1>2 DEF SymbolsFirst
<1>4. PICK n \in 1 .. MaxEvents + 1, l \in Nat \ {0}, b \in Seq(1 .. MaxEvents), c \in Seq(1 .. MaxEvents) :
        /\ n = nextEvent /\ b = initBuffer /\ l = Len(b) /\ c = Tail(b) /\ Len(c) = l - 1 /\ l < n
        /\ b[1] = Head(b) /\ (\A i \in 1 .. l - 1 : c[i] = b[i + 1]) /\ (\A i \in 1 .. l : b[i] = n - 1 - l + i)
  <2>1. nextEvent \in 1 .. MaxEvents + 1 /\ initBuffer \in Seq(1 .. MaxEvents)
    BY DEF IInv, TypeOK
  <2>2. /\ Tail(initBuffer) \in Seq(1 .. MaxEvents) /\ Len(initBuffer) \in Nat \ {0} /\ Len(Tail(initBuffer)) = Len(initBuffer) - 1
        /\ initBuffer[1] = Head(initBuffer) /\ \A i \in 1 .. Len(initBuffer) - 1 : Tail(initBuffer)[i] = initBuffer[i + 1]
    BY <1>2, <2>1, TailIs
  <2>3. Len(initBuffer) < nextEvent /\ \A i \in 1 .. Len(initBuffer) : initBuffer[i] = nextEvent - 1 - Len(initBuffer) + i
    BY DEF IInv, LoggerInv
  <2> QED
    BY <2>1, <2>2, <2>3
<1>5. PICK u \in 1 .. MaxEvents : u = n - l /\ u = Upcoming /\ u = Head(initBuffer)
  <2>1. Upcoming = n - l
    BY <1>3, <1>4 DEF Upcoming
  <2>2. b[1] = n - l /\ n - l \in 1 .. MaxEvents
    BY <1>4, ClientAssumption
  <2> QED
    BY <1>4, <2>1, <2>2
<1>6. Sends({Upcoming}, failed)
  BY <1>1, <1>2, <1>5, EventSends DEF Closing
<1>7. Upcoming' = IF failed THEN Upcoming ELSE Upcoming + 1
  <2>1. nextEvent' - Len(initBuffer') = IF failed THEN u ELSE u + 1
    BY <1>1, <1>2, <1>4, <1>5
  <2> QED
    BY <1>3, <1>5, <2>1 DEF Upcoming
<1>8. SessionsInv' /\ OrderInv' /\ CompleteInv'
  BY <1>2, <1>5, <1>6, <1>7, EventStreams
<1>9. TypeOK'
  <2>1. initBuffer' \in Seq(1 .. MaxEvents)
    BY <1>1, <1>4
  <2> QED
    BY <1>2, <1>6, <2>1, SendTypes DEF SendBuffered, IInv, TypeOK, Phase, Lists, workVars, srvVars
<1>10. LoggerInv'
  <2>1. CASE failed
    BY <1>1, <1>2, <1>3, <2>1 DEF IInv, LoggerInv
  <2>2. CASE ~failed
    <3>1. initBuffer' = c /\ nextEvent' = n /\ phase' = "flush" /\ retrying' = "no"
      BY <1>1, <1>2, <1>4, <2>2
    <3>2. \A i \in 1 .. l - 1 : c[i] = n - 1 - (l - 1) + i
      BY <1>4
    <3>3. l - 1 < n
      <4>1. l < n /\ n \in Int
        BY <1>4
      <4> QED
        BY <4>1
    <3> QED
      BY <1>3, <1>4, <3>1, <3>2, <3>3 DEF LoggerInv
  <2> QED
    BY <2>1, <2>2
<1>11. WorkersInv'
  BY <1>2 DEF SendBuffered, IInv, WorkersInv, workVars
<1> QED
  BY <1>8, <1>9, <1>10, <1>11 DEF IInv

LEMMA SendLogIInv ==
  ASSUME IInv, SendLog
  PROVE  IInv'
<1>1. PICK failed \in BOOLEAN :
        /\ MergeSend(Event(nextEvent), failed) /\ RetrySend("running", "running", failed)
        /\ nextEvent' = IF failed THEN nextEvent ELSE nextEvent + 1
  BY DEF SendLog
<1>2. /\ phase = "running" /\ retrying \in {"no", "running"} /\ session' = session /\ conn' = conn /\ srv' = srv
      /\ hello' = hello /\ received' = received /\ initBuffer' = initBuffer /\ initBuffer = <<>>
      /\ phase' = (IF failed THEN "shutdown" ELSE "running") /\ retrying' = (IF failed THEN "running" ELSE "no")
  BY <1>1 DEF SendLog, RetrySend, srvVars, IInv, LoggerInv
<1>3. ~SymbolsFirst /\ ~SymbolsFirst'
  BY <1>2 DEF SymbolsFirst
<1>4. PICK u \in 1 .. MaxEvents : u = nextEvent
  BY ClientAssumption DEF SendLog, IInv, TypeOK
<1>5. u = Upcoming /\ Upcoming' = IF failed THEN Upcoming ELSE Upcoming + 1
  <2>1. Len(initBuffer) = 0
    BY <1>2
  <2> QED
    BY <1>1, <1>2, <1>3, <1>4, <2>1 DEF Upcoming
<1>6. Sends({Upcoming}, failed)
  BY <1>1, <1>2, <1>4, <1>5, EventSends DEF Closing
<1>7. SessionsInv' /\ OrderInv' /\ CompleteInv'
  BY <1>2, <1>4, <1>5, <1>6, EventStreams
<1>8. nextEvent' \in 1 .. MaxEvents + 1
  BY <1>1, <1>4, ClientAssumption
<1>9. TypeOK'
  BY <1>2, <1>6, <1>8, SendTypes DEF SendLog, IInv, TypeOK, Phase, Lists, workVars, srvVars
<1>10. LoggerInv'
  <2>1. Len(initBuffer') = 0 /\ initBuffer' = <<>>
    BY <1>2
  <2> QED
    BY <1>2, <1>3, <1>8, <2>1 DEF LoggerInv
<1>11. WorkersInv'
  BY <1>2 DEF SendLog, IInv, WorkersInv, workVars
<1> QED
  BY <1>7, <1>9, <1>10, <1>11 DEF IInv

LEMMA SendShutdownIInv ==
  ASSUME IInv, SendShutdown
  PROVE  IInv'
<1>1. PICK failed \in BOOLEAN : MergeSend(Shutdown, failed)
  BY DEF SendShutdown
<1>2. /\ phase = "shutdown" /\ phase' = "cancel" /\ session' = session /\ conn' = conn /\ srv' = srv /\ hello' = hello
      /\ received' = received /\ retrying' = retrying /\ nextEvent' = nextEvent /\ initBuffer' = initBuffer
  BY DEF SendShutdown, srvVars
<1>3. SymbolsFirst' = SymbolsFirst /\ Upcoming' = Upcoming
  BY <1>2 DEF SymbolsFirst, Upcoming
<1>4. /\ Before(Own(session), {Final}) /\ Final \notin Own(session)
      /\ \A s \in Sessions : s < session => Before(Stream(s) \ {Final}, {Final})
  BY <1>2, NextMark DEF Closing
<1>5. Sends({Final}, failed)
  <2>1. Final \in 0 .. Final /\ Final # 0
    BY ClientAssumption DEF Final
  <2>2. Mark(Final) = Shutdown
    BY <2>1 DEF Mark
  <2>3. Shutdown \in Packets /\ MarkOf(Shutdown) = {Final}
    BY <2>1, <2>2, MarkIsPacket, MarkOfMark
  <2>4. Sends(MarkOf(Shutdown), failed)
    BY <1>1, <1>4, <2>3, MergeSends
  <2> QED
    BY <2>3, <2>4
<1>6. SessionsInv' /\ OrderInv' /\ CompleteInv'
  <2>1. phase \notin {"init", "opening", "closed"} /\ phase' \notin {"init", "opening"} /\ phase' \in Closing
    BY <1>2 DEF Closing
  <2>2. Upcoming \in Int /\ {Final} \in SUBSET (0 .. Final)
    BY UpcomingIs
  <2>3. 0 .. Upcoming' - 1 \subseteq (0 .. Upcoming - 1) \cup {Final} /\ Upcoming <= Upcoming' /\ Upcoming' \in Int
    BY <1>3, <2>2
  <2> QED
    BY <1>2, <1>3, <1>4, <1>5, <2>1, <2>2, <2>3, StreamsAfterSend
<1>7. TypeOK'
  BY <1>2, <1>5, SendTypes DEF SendShutdown, IInv, TypeOK, Phase, Lists, workVars, srvVars
<1>8. LoggerInv'
  BY <1>2, <1>3 DEF IInv, LoggerInv
<1>9. WorkersInv'
  BY <1>2 DEF SendShutdown, IInv, WorkersInv, workVars
<1> QED
  BY <1>6, <1>7, <1>8, <1>9 DEF IInv

\* A worker sends while the client is open, and no mark of its own.
LEMMA WorkerStreams ==
  ASSUME IInv, NEW failed \in BOOLEAN, Sends({}, failed), phase \notin {"init", "opening", "closed"},
         UNCHANGED <<logVars, session, conn, srv, hello, received>>
  PROVE  SessionsInv' /\ OrderInv' /\ CompleteInv'
<1>1. phase' = phase /\ retrying' = retrying /\ nextEvent' = nextEvent /\ initBuffer' = initBuffer
  BY DEF logVars
<1>2. Upcoming' = Upcoming /\ Upcoming \in 0 .. Final /\ Final \in Nat
  BY <1>1, UpcomingIs DEF Upcoming, SymbolsFirst
<1>3. \A n \in Own(session) : n = Final => phase' \in Closing
  <2>1. \A n \in Own(session) : n < Upcoming \/ (n = Final /\ phase \in Closing)
    BY SessionFacts DEF IInv, OrderInv
  <2> QED
    BY <1>1, <1>2, <2>1
<1>4. 0 .. Upcoming' - 1 \subseteq (0 .. Upcoming - 1) \cup {} /\ Upcoming <= Upcoming' /\ Upcoming' \in Int
  BY <1>2
<1>5. phase' \notin {"init", "opening"} /\ (retrying' # "no" => retrying # "no")
  BY <1>1
<1>6. Before(Own(session), {}) /\ \A s \in Sessions : s < session => Before(Stream(s) \ {Final}, {})
  BY DEF Before
<1> QED
  BY <1>2, <1>3, <1>4, <1>5, <1>6, StreamsAfterSend

LEMMA PingTickIInv ==
  ASSUME IInv, PingTick
  PROVE  IInv'
<1>1. /\ phase \notin {"init", "opening", "closed"} /\ ping = "run" /\ pings' \in 0 .. MaxPings
      /\ UNCHANGED <<logVars, session, conn, srv, hello, received>>
  BY ClientAssumption DEF PingTick, srvVars, IInv, TypeOK, WorkersInv
<1>2. LoggerInv'
  BY <1>1 DEF logVars, IInv, LoggerInv, SymbolsFirst
<1>3. CASE stopped
  <2>1. merge' = merge /\ sendList' = sendList /\ dead' = TRUE
    BY <1>3 DEF PingTick
  <2>2. TypeOK' /\ WorkersInv' /\ SessionsInv'
    BY <1>1, <2>1 DEF PingTick, logVars, srvVars, IInv, TypeOK, WorkersInv, SessionsInv
  <2>3. OrderInv' /\ CompleteInv'
    <3>1. Upcoming' = Upcoming
      BY <1>1 DEF Upcoming, SymbolsFirst, logVars
    <3> QED
      BY <1>1, <2>1, <3>1, SameStreams DEF logVars
  <2> QED
    BY <1>2, <2>2, <2>3 DEF IInv
<1>4. CASE ~stopped
  <2>1. PICK failed \in BOOLEAN : MergeSend(Ping, failed) /\ dead' = failed
    BY <1>4 DEF PingTick
  <2>2. Sends({}, failed)
    <3>1. Ping \in Packets /\ MarkOf(Ping) = {} /\ Before(Own(session), MarkOf(Ping))
      BY MarkOfOthers DEF Packets, Before
    <3>2. Sends(MarkOf(Ping), failed)
      BY <2>1, <3>1, MergeSends
    <3> QED
      BY <3>1, <3>2
  <2>3. SessionsInv' /\ OrderInv' /\ CompleteInv'
    BY <1>1, <2>2, WorkerStreams
  <2>4. TypeOK'
    BY <1>1, <2>1, <2>2, SendTypes DEF PingTick, IInv, TypeOK, Lists, logVars, srvVars
  <2>5. WorkersInv'
    BY <1>1, <1>4 DEF PingTick, IInv, WorkersInv, logVars
  <2> QED
    BY <1>2, <2>3, <2>4, <2>5 DEF IInv
<1> QED
  BY <1>3, <1>4

LEMMA RefreshTickIInv ==
  ASSUME IInv, RefreshTick
  PROVE  IInv'
<1>1. phase \notin {"init", "opening", "closed"} /\ UNCHANGED <<logVars, session, conn, srv, hello, received>>
  BY DEF RefreshTick, srvVars, IInv, WorkersInv
<1>2. PICK failed \in BOOLEAN : SendPending(failed) /\ dead' = failed
  BY DEF RefreshTick
<1>3. Sends({}, failed) /\ merge' = <<>>
  BY <1>2, PendingSends
<1>4. SessionsInv' /\ OrderInv' /\ CompleteInv'
  BY <1>1, <1>3, WorkerStreams
<1>5. TypeOK'
  BY <1>1, <1>2, <1>3, SendTypes DEF RefreshTick, IInv, TypeOK, Lists, logVars, workVars, srvVars
<1>6. LoggerInv' /\ WorkersInv'
  BY <1>1, <1>3 DEF RefreshTick, IInv, LoggerInv, SymbolsFirst, WorkersInv, logVars, workVars
<1> QED
  BY <1>4, <1>5, <1>6 DEF IInv

LEMMA RefreshLastIInv ==
  ASSUME IInv, RefreshLast
  PROVE  IInv'
<1>1. phase \notin {"init", "opening", "closed"} /\ UNCHANGED <<logVars, session, conn, srv, hello, received>>
  BY DEF RefreshLast, srvVars, IInv, WorkersInv
<1>2. PICK failed \in BOOLEAN : SendPending(failed) /\ dead' = failed
  BY DEF RefreshLast
<1>3. Sends({}, failed) /\ merge' = <<>>
  BY <1>2, PendingSends
<1>4. SessionsInv' /\ OrderInv' /\ CompleteInv'
  BY <1>1, <1>3, WorkerStreams
<1>5. TypeOK'
  BY <1>1, <1>2, <1>3, SendTypes DEF RefreshLast, IInv, TypeOK, Lists, logVars, srvVars
<1>6. LoggerInv' /\ WorkersInv'
  BY <1>1, <1>3 DEF RefreshLast, IInv, LoggerInv, SymbolsFirst, WorkersInv, logVars
<1> QED
  BY <1>4, <1>5, <1>6 DEF IInv

-----------------------------------------------------------------------------
(* The steps of the server                                                 *)

\* The server takes a packet, or drops what is under way: what stays of the
\* stream is an initial part of it.
LEMMA StreamsAfterReceive ==
  ASSUME IInv, NEW s \in Sessions, NEW r \in Seq(Packets), NEW list \in Lists,
         received' = [received EXCEPT ![s] = r], sendList' = [sendList EXCEPT ![s] = list],
         UNCHANGED <<logVars, merge, session>>,
         Sorted(r), ListSorted(list), Before(Marks(r), ListMarks(list)),
         Marks(r) \cup ListMarks(list) \subseteq Stream(s),
         Before(Marks(r) \cup ListMarks(list), Stream(s) \ (Marks(r) \cup ListMarks(list))),
         s # 1 => conn'[1] = conn[1],
         session = 1 /\ s = 1 /\ conn'[1] # "lost" => 0 .. Upcoming - 1 \subseteq Marks(r) \cup ListMarks(list) \cup Marks(merge)
  PROVE  OrderInv' /\ CompleteInv'
<1>0. phase' = phase /\ merge' = merge /\ session' = session /\ Upcoming' = Upcoming
  BY DEF logVars, Upcoming, SymbolsFirst
<1>1. received \in [Sessions -> Seq(Packets)] /\ sendList \in [Sessions -> Lists]
  BY DEF IInv, TypeOK, Lists
<1>2. /\ received'[s] = r /\ sendList'[s] = list
      /\ \A t \in Sessions : t # s => received'[t] = received[t] /\ sendList'[t] = sendList[t]
  BY <1>1
<1>3. PICK S : S = Marks(r) \cup ListMarks(list)
  OBVIOUS
<1>4. Stream(s)' = S /\ \A t \in Sessions : t # s => Stream(t)' = Stream(t)
  BY <1>2, <1>3 DEF Stream
<1>5. S \subseteq Stream(s) /\ Before(S, Stream(s) \ S)
  BY <1>3
<1>6. \A t \in Sessions : Stream(t)' \subseteq Stream(t)
  BY <1>4, <1>5
<1>7. \A t \in Sessions : Own(t)' \subseteq Own(t)
  BY <1>0, <1>6 DEF Own
<1>8. OrderInv'
  <2>1. ASSUME NEW t \in Sessions
        PROVE  Sorted(received'[t]) /\ ListSorted(sendList'[t]) /\ Before(Marks(received'[t]), ListMarks(sendList'[t]))
    <3>1. CASE t = s
      BY <1>2, <3>1
    <3>2. CASE t # s
      BY <1>2, <3>2 DEF IInv, OrderInv
    <3> QED
      BY <3>1, <3>2
  <2>2. ASSUME NEW t \in Sessions, NEW u \in Sessions, t < u PROVE Before(Stream(t)' \ {Final}, Own(u)')
    BY <1>6, <1>7, <2>2 DEF IInv, OrderInv, Before
  <2>3. ASSUME NEW t \in Sessions, NEW n \in Own(t)' PROVE n < Upcoming' \/ (n = Final /\ (t = session' => phase' \in Closing))
    BY <1>0, <1>7, <2>3 DEF IInv, OrderInv
  <2>4. Sorted(merge') /\ Before(Stream(session)', Marks(merge'))
    BY <1>0, <1>6, SessionFacts DEF Before
  <2> QED
    BY <1>0, <2>1, <2>2, <2>3, <2>4 DEF OrderInv
<1>9. ASSUME NEW n \in Stream(1)' \ {Final} PROVE 0 .. n \subseteq Stream(1)'
  <2>0. 1 \in Sessions
    BY ClientAssumption DEF Sessions
  <2>1. n \in Stream(1) /\ 0 .. n \subseteq Stream(1)
    BY <1>6, <1>9, <2>0 DEF IInv, CompleteInv
  <2>2. CASE s = 1
    <3>1. ASSUME NEW k \in 0 .. n, k \notin S PROVE FALSE
      <4>1. n < k
        BY <1>4, <1>5, <1>9, <2>1, <2>2, <3>1 DEF Before
      <4>2. n \in 0 .. Final /\ Final \in Nat
        BY <2>1, MarksAreNumbers, ListMark, UpcomingIs DEF Stream
      <4> QED
        BY <3>1, <4>1, <4>2
    <3> QED
      BY <1>4, <2>2, <3>1
  <2>3. CASE s # 1
    BY <1>4, <2>0, <2>1, <2>3
  <2> QED
    BY <2>2, <2>3
<1>10. ASSUME session' = 1, conn'[1] # "lost" PROVE 0 .. Upcoming' - 1 \subseteq Own(1)'
  <2>1. CASE s = 1
    <3>1. Own(1)' = S \cup Marks(merge)
      BY <1>0, <1>4, <1>10, <2>1 DEF Own
    <3> QED
      BY <1>0, <1>3, <1>10, <2>1, <3>1
  <2>2. CASE s # 1
    <3>1. Own(1)' = Own(1)
      <4>1. 1 \in Sessions
        BY ClientAssumption DEF Sessions
      <4>2. Stream(1)' = Stream(1)
        BY <1>4, <2>2, <4>1
      <4> QED
        BY <1>0, <4>2 DEF Own
    <3> QED
      BY <1>0, <1>10, <2>2, <3>1 DEF IInv, CompleteInv
  <2> QED
    BY <2>1, <2>2
<1> QED
  BY <1>8, <1>9, <1>10 DEF CompleteInv

LEMMA ServerClosedIInv ==
  ASSUME IInv, NEW s \in Sessions, ServerClosed(s)
  PROVE  IInv'
<1>0. /\ UNCHANGED <<logVars, mergeVars, workVars, session, hello, compatible, received, dead>>
      /\ conn' = [conn EXCEPT ![s] = Stopped(conn[s])] /\ sendList' = [sendList EXCEPT ![s] = <<>>]
      /\ srv' = [srv EXCEPT ![s] = "disconnected"] /\ srvDead' = (srv[s] = "accepted")
      /\ conn[s] \in {"closed", "lost"} \/ (conn[s] = "stopping" /\ sendList[s] = <<>>)
  BY DEF ServerClosed
<1>1. /\ received \in [Sessions -> Seq(Packets)] /\ sendList \in [Sessions -> Lists]
      /\ conn \in [Sessions -> {"none", "up", "stopping", "closed", "lost"}]
      /\ srv \in [Sessions -> {"accepted", "negotiated", "disconnected"}]
  BY DEF IInv, TypeOK, Lists
<1>2. Stopped(conn[s]) \in {"closed", "lost"} /\ (Stopped(conn[s]) = "lost" <=> conn[s] = "lost")
  BY DEF Stopped
<1>3. TypeOK'
  <2>1. <<>> \in Seq(Seq(Packets)) /\ Len(<<>>) <= SendListLen
    BY ClientAssumption
  <2>2. sendList' \in [Sessions -> Seq(Seq(Packets))] /\ \A t \in Sessions : Len(sendList'[t]) <= SendListLen
    BY <1>0, <2>1 DEF IInv, TypeOK
  <2>3. conn' \in [Sessions -> {"none", "up", "stopping", "closed", "lost"}]
    BY <1>0, <1>1, <1>2
  <2>4. srv' \in [Sessions -> {"accepted", "negotiated", "disconnected"}] /\ srvDead' \in BOOLEAN
    BY <1>0, <1>1
  <2> QED
    BY <1>0, <2>2, <2>3, <2>4 DEF IInv, TypeOK, logVars, mergeVars, workVars
<1>4. LoggerInv' /\ WorkersInv'
  BY <1>0 DEF IInv, LoggerInv, SymbolsFirst, WorkersInv, logVars, mergeVars, workVars
<1>5. SessionsInv'
  <2>1. \A t \in Sessions : t # s => conn'[t] = conn[t] /\ sendList'[t] = sendList[t] /\ srv'[t] = srv[t]
    BY <1>0, <1>1
  <2>2. conn'[s] = Stopped(conn[s]) /\ sendList'[s] = <<>> /\ srv'[s] = "disconnected"
    BY <1>0, <1>1
  <2>3. conn[s] = "lost" => conn'[s] = "lost"
    BY <1>2, <2>2
  <2>4. conn'[s] \in {"closed", "lost"} /\ conn[s] # "none" /\ (conn[s] = "stopping" /\ s = session => phase = "closed")
    BY <1>0, <1>2, <2>2 DEF IInv, SessionsInv
  <2>5. retrying' # "no" \/ session' > 1 => \E t \in Sessions : conn'[t] = "lost"
    BY <1>0, <2>1, <2>3 DEF IInv, SessionsInv, logVars
  <2>6. phase' = phase /\ hello' = hello /\ received' = received /\ session' = session
    BY <1>0 DEF logVars
  <2>7. conn'[session] = "closed" => conn[session] = "closed" \/ phase = "closed"
    BY <1>0, <1>2, <2>1, <2>2, <2>4 DEF IInv, TypeOK
  <2>8. s <= session
    BY <2>4 DEF IInv, TypeOK, SessionsInv, Sessions
  <2>9. \A t \in Sessions : t > session => t # s
    BY <2>8 DEF IInv, TypeOK, Sessions
  <2>10. hello[session] => conn'[session] \in {"up", "lost"} /\ srv'[session] # "accepted"
    BY <1>0, <2>1, <2>2, <2>3 DEF IInv, TypeOK, SessionsInv
  <2>11. \A t \in Sessions : /\ t > session => conn'[t] = "none" /\ srv'[t] = "accepted" /\ ~hello[t]
                             /\ conn'[t] = "none" => received[t] = <<>> /\ sendList'[t] = <<>>
                             /\ conn'[t] = "closed" => sendList'[t] = <<>>
    BY <2>1, <2>2, <2>4, <2>9 DEF IInv, SessionsInv
  <2>12. session \in Sessions
    BY SessionFacts
  <2>13. /\ conn'[session] = "none" => phase \in {"init", "opening"}
         /\ phase = "init" => conn'[session] = "none"
         /\ srv'[session] = "accepted" => phase \in {"init", "opening"}
         /\ conn'[session] = "stopping" => phase = "closed"
    BY <2>1, <2>2, <2>4, <2>12 DEF IInv, SessionsInv
  <2>14. hello[session] => phase = "opening"
    BY DEF IInv, SessionsInv
  <2>15. conn'[session] = "closed" => phase \in {"opening", "closed"}
    BY <2>7 DEF IInv, SessionsInv
  <2> QED
    BY <2>5, <2>6, <2>10, <2>11, <2>13, <2>14, <2>15 DEF SessionsInv
<1>6. OrderInv' /\ CompleteInv'
  <2>1. PICK r \in Seq(Packets), list \in Lists : r = received[s] /\ list = <<>>
    <3>1. received[s] \in Seq(Packets) /\ <<>> \in Lists
      BY <1>1 DEF Lists
    <3> QED
      BY <3>1
  <2>2. received' = [received EXCEPT ![s] = r] /\ sendList' = [sendList EXCEPT ![s] = list]
    BY <1>0, <1>1, <2>1
  <2>3. Sorted(r) /\ Before(Marks(r), ListMarks(sendList[s])) /\ ListSorted(list) /\ ListMarks(list) = {}
    BY <2>1, NoMarks DEF IInv, OrderInv
  <2>4. Stream(s) = Marks(r) \cup ListMarks(sendList[s])
    BY <2>1 DEF Stream
  <2>5. /\ Marks(r) \cup ListMarks(list) \subseteq Stream(s) /\ Before(Marks(r), ListMarks(list))
        /\ Before(Marks(r) \cup ListMarks(list), Stream(s) \ (Marks(r) \cup ListMarks(list)))
    BY <2>3, <2>4 DEF Before
  <2>6. s # 1 => conn'[1] = conn[1]
    BY <1>0
  <2>7. ASSUME session = 1, s = 1, conn'[1] # "lost"
        PROVE  0 .. Upcoming - 1 \subseteq Marks(r) \cup ListMarks(list) \cup Marks(merge)
    <3>1. conn[1] # "lost" /\ sendList[1] = <<>>
      BY <1>0, <1>1, <1>2, <2>7 DEF IInv, SessionsInv
    <3>2. Own(1) = Marks(r) \cup Marks(merge)
      BY <2>4, <2>7, <3>1, NoMarks DEF Own
    <3>3. 0 .. Upcoming - 1 \subseteq Own(1)
      BY <2>7, <3>1 DEF IInv, CompleteInv
    <3> QED
      BY <3>2, <3>3
  <2>8. UNCHANGED <<logVars, merge, session>>
    BY <1>0 DEF mergeVars
  <2> QED
    BY <2>2, <2>3, <2>5, <2>6, <2>7, <2>8, StreamsAfterReceive
<1> QED
  BY <1>3, <1>4, <1>5, <1>6 DEF IInv

\* What the server's step does, with the facts about the list it takes from.
\* A connection that is not negotiated and not lost has carried nothing yet.
Receives(s, p, left, refused) ==
  /\ conn[s] \notin {"none", "closed"}
  /\ received' = [received EXCEPT ![s] = Append(received[s], p)]
  /\ IF refused
     THEN /\ conn' = [conn EXCEPT ![s] = Stopped(conn[s])] /\ sendList' = [sendList EXCEPT ![s] = <<>>]
          /\ srv' = srv /\ hello' = hello /\ srv[s] = "accepted"
     ELSE /\ srv' = [srv EXCEPT ![s] = "negotiated"] /\ sendList' = [sendList EXCEPT ![s] = left] /\ conn' = conn
          /\ \E h \in BOOLEAN : hello' = [hello EXCEPT ![s] = h] /\ (h => hello[s] \/ (srv[s] = "accepted" /\ s = session))
  /\ UNCHANGED <<logVars, mergeVars, workVars, session, compatible, srvDead, dead>>
  /\ p \in Packets /\ left \in Lists /\ Len(left) <= SendListLen /\ ListSorted(left)
  /\ ListMarks(sendList[s]) = MarkOf(p) \cup ListMarks(left) /\ Before(MarkOf(p), ListMarks(left))

LEMMA ServerReceives ==
  ASSUME IInv, NEW s \in Sessions, NEW noticed \in BOOLEAN, ServerRecv(s, noticed)
  PROVE  \E p, left : \E refused \in BOOLEAN : Receives(s, p, left, refused)
<1>1. PICK list \in Lists : list = sendList[s] /\ list # <<>> /\ ListSorted(list) /\ Len(list) <= SendListLen
  BY DEF ServerRecv, IInv, TypeOK, OrderInv, Lists
<1>2. PICK left : left = IF Tail(Head(list)) = <<>> THEN Tail(list) ELSE <<Tail(Head(list))>> \o Tail(list)
  OBVIOUS
<1>3. /\ Head(Head(list)) \in Packets /\ left \in Lists /\ Len(left) <= Len(list) /\ ListSorted(left)
      /\ ListMarks(list) = MarkOf(Head(Head(list))) \cup ListMarks(left) /\ Before(MarkOf(Head(Head(list))), ListMarks(left))
  BY <1>1, <1>2, ReceiveList
<1>4. PICK p : p = Head(Head(list))
  OBVIOUS
<1>5. Len(left) <= SendListLen
  <2>1. PICK a \in Nat, b \in Nat : a = Len(left) /\ b = Len(list)
    BY <1>1, <1>3 DEF Lists
  <2> QED
    BY <1>1, <1>3, <2>1, ClientAssumption
<1>6. PICK refused \in BOOLEAN : refused = (srv[s] = "accepted" /\ (p # Hello \/ ~compatible \/ noticed))
  BY DEF IInv, TypeOK
<1>7. conn[s] \notin {"none", "closed"}
  BY <1>1 DEF ServerRecv, IInv, SessionsInv
<1>8. received' = [received EXCEPT ![s] = Append(received[s], p)] /\ UNCHANGED <<logVars, mergeVars, workVars, session, compatible, srvDead, dead>>
  BY <1>1, <1>4 DEF ServerRecv
<1>9. IF refused
      THEN /\ conn' = [conn EXCEPT ![s] = Stopped(conn[s])] /\ sendList' = [sendList EXCEPT ![s] = <<>>]
           /\ srv' = srv /\ hello' = hello /\ srv[s] = "accepted"
      ELSE /\ srv' = [srv EXCEPT ![s] = "negotiated"] /\ sendList' = [sendList EXCEPT ![s] = left] /\ conn' = conn
           /\ hello' = [hello EXCEPT ![s] = hello[s] \/ (srv[s] = "accepted" /\ s = session /\ ~ctxDone)]
  BY <1>1, <1>2, <1>4, <1>6 DEF ServerRecv
<1>10. ~refused => \E h \in BOOLEAN : hello' = [hello EXCEPT ![s] = h] /\ (h => hello[s] \/ (srv[s] = "accepted" /\ s = session))
  <2>1. PICK h \in BOOLEAN : h = (hello[s] \/ (srv[s] = "accepted" /\ s = session /\ ~ctxDone))
    OBVIOUS
  <2> QED
    BY <1>9, <2>1
<1>11. Receives(s, p, left, refused)
  BY <1>1, <1>3, <1>4, <1>5, <1>7, <1>8, <1>9, <1>10 DEF Receives
<1> QED
  BY <1>11

LEMMA ServerRecvSessions ==
  ASSUME IInv, NEW s \in Sessions, NEW p, NEW left, NEW refused \in BOOLEAN, Receives(s, p, left, refused)
  PROVE  SessionsInv'
<1>0. /\ conn \in [Sessions -> {"none", "up", "stopping", "closed", "lost"}] /\ sendList \in [Sessions -> Lists]
      /\ received \in [Sessions -> Seq(Packets)] /\ srv \in [Sessions -> {"accepted", "negotiated", "disconnected"}]
      /\ hello \in [Sessions -> BOOLEAN] /\ session \in Sessions
  BY DEF IInv, TypeOK, Lists
<1>1. phase' = phase /\ retrying' = retrying /\ session' = session
  BY DEF Receives, logVars
<1>2. \A t \in Sessions : t # s => /\ conn'[t] = conn[t] /\ sendList'[t] = sendList[t] /\ srv'[t] = srv[t]
                                   /\ hello'[t] = hello[t] /\ received'[t] = received[t]
  BY <1>0 DEF Receives
<1>3. conn[s] \notin {"none", "closed"} /\ conn'[s] # "none" /\ (conn[s] = "lost" <=> conn'[s] = "lost")
  BY <1>0 DEF Receives, Stopped
<1>4. \A t \in Sessions : t > session => t # s
  BY <1>3 DEF IInv, SessionsInv
<1>5. conn'[s] = "closed" => sendList'[s] = <<>>
  BY <1>0, <1>3 DEF Receives
<1>6. conn'[s] = "stopping" => conn[s] = "stopping"
  BY <1>0 DEF Receives, Stopped
<1>7. srv'[s] = "accepted" => srv[s] = "accepted"
  BY <1>0 DEF Receives
<1>8. hello'[s] => hello[s] \/ (srv[s] = "accepted" /\ s = session)
  BY <1>0 DEF Receives
<1>9. phase = "init" => s # session
  BY <1>3 DEF IInv, SessionsInv
<1>10. ASSUME hello'[session] PROVE phase = "opening" /\ srv'[session] # "accepted" /\ conn'[session] \in {"up", "lost"}
  <2>1. phase = "opening"
    BY <1>0, <1>2, <1>8, <1>9, <1>10 DEF IInv, SessionsInv
  <2>2. CASE s # session
    BY <1>0, <1>2, <1>10, <2>1, <2>2 DEF IInv, SessionsInv
  <2>3. CASE s = session /\ ~refused
    BY <1>0, <1>3, <2>1, <2>3 DEF Receives, IInv, SessionsInv
  <2>4. CASE s = session /\ refused
    BY <1>10, <2>4 DEF Receives, IInv, SessionsInv
  <2> QED
    BY <2>1, <2>2, <2>3, <2>4
<1>11. conn'[session] = "closed" => phase \in {"opening", "closed"}
  <2>1. CASE s = session
    BY <1>0, <1>3, <1>9, <2>1 DEF Receives, IInv, SessionsInv
  <2>2. CASE s # session
    BY <1>0, <1>2, <2>2 DEF IInv, SessionsInv
  <2> QED
    BY <2>1, <2>2
<1>12. retrying # "no" \/ session > 1 => \E t \in Sessions : conn'[t] = "lost"
  BY <1>2, <1>3 DEF IInv, SessionsInv
<1>13. \A t \in Sessions : /\ t > session => conn'[t] = "none" /\ srv'[t] = "accepted" /\ ~hello'[t]
                           /\ conn'[t] = "none" => received'[t] = <<>> /\ sendList'[t] = <<>>
                           /\ conn'[t] = "closed" => sendList'[t] = <<>>
  BY <1>2, <1>3, <1>4, <1>5 DEF IInv, SessionsInv
<1>14. /\ conn'[session] = "none" => phase \in {"init", "opening"}
       /\ phase = "init" => conn'[session] = "none"
       /\ srv'[session] = "accepted" => phase \in {"init", "opening"}
       /\ conn'[session] = "stopping" => phase = "closed"
  BY <1>0, <1>2, <1>3, <1>6, <1>7, <1>9 DEF IInv, SessionsInv
<1> QED
  BY <1>1, <1>10, <1>11, <1>12, <1>13, <1>14 DEF SessionsInv

\* A packet that is refused comes before the negotiation, when nothing was sent that
\* the first session could lose.
LEMMA ServerRecvStreams ==
  ASSUME IInv, NEW s \in Sessions, NEW p, NEW left, NEW refused \in BOOLEAN, Receives(s, p, left, refused)
  PROVE  OrderInv' /\ CompleteInv'
<1>0. /\ conn \in [Sessions -> {"none", "up", "stopping", "closed", "lost"}] /\ sendList \in [Sessions -> Lists]
      /\ received \in [Sessions -> Seq(Packets)]
  BY DEF IInv, TypeOK, Lists
<1>1. /\ p \in Packets /\ left \in Lists /\ ListSorted(left)
      /\ ListMarks(sendList[s]) = MarkOf(p) \cup ListMarks(left) /\ Before(MarkOf(p), ListMarks(left))
      /\ received' = [received EXCEPT ![s] = Append(received[s], p)] /\ UNCHANGED <<logVars, merge, session>>
  BY DEF Receives, mergeVars
<1>2. Sorted(received[s]) /\ Before(Marks(received[s]), ListMarks(sendList[s])) /\ received[s] \in Seq(Packets)
  BY <1>0 DEF IInv, OrderInv
<1>3. PICK r \in Seq(Packets) : r = Append(received[s], p) /\ Marks(r) = Marks(received[s]) \cup MarkOf(p) /\ Sorted(r)
  <2>1. Append(received[s], p) \in Seq(Packets)
    BY <1>1, <1>2
  <2>2. Before(Marks(received[s]), MarkOf(p))
    BY <1>1, <1>2 DEF Before
  <2>3. Marks(Append(received[s], p)) = Marks(received[s]) \cup MarkOf(p) /\ Sorted(Append(received[s], p))
    BY <1>1, <1>2, <2>2, AppendMarks
  <2> QED
    BY <2>1, <2>3
<1>4. Stream(s) = Marks(r) \cup ListMarks(left) /\ Before(Marks(r), ListMarks(left))
  BY <1>1, <1>2, <1>3 DEF Stream, Before
<1>5. s # 1 => conn'[1] = conn[1]
  <2>1. conn' = conn \/ conn' = [conn EXCEPT ![s] = Stopped(conn[s])]
    BY DEF Receives
  <2>2. 1 \in Sessions
    BY ClientAssumption DEF Sessions
  <2> QED
    BY <1>0, <2>1, <2>2
<1>6. CASE ~refused
  <2>1. sendList' = [sendList EXCEPT ![s] = left] /\ conn' = conn
    BY <1>6 DEF Receives
  <2>2. ASSUME session = 1, s = 1, conn'[1] # "lost"
        PROVE  0 .. Upcoming - 1 \subseteq Marks(r) \cup ListMarks(left) \cup Marks(merge)
    <3>1. Own(1) = Marks(r) \cup ListMarks(left) \cup Marks(merge)
      BY <1>4, <2>2 DEF Own
    <3> QED
      BY <2>1, <2>2, <3>1 DEF IInv, CompleteInv
  <2>3. Before(Marks(r) \cup ListMarks(left), Stream(s) \ (Marks(r) \cup ListMarks(left)))
    BY <1>4 DEF Before
  <2> QED
    BY <1>1, <1>3, <1>4, <1>5, <2>1, <2>2, <2>3, StreamsAfterReceive
<1>7. CASE refused
  <2>1. /\ sendList' = [sendList EXCEPT ![s] = <<>>] /\ conn' = [conn EXCEPT ![s] = Stopped(conn[s])]
        /\ srv[s] = "accepted"
    BY <1>7 DEF Receives
  <2>2. PICK list \in Lists : list = <<>> /\ ListMarks(list) = {} /\ ListSorted(list)
    <3>1. <<>> \in Lists
      BY DEF Lists
    <3> QED
      BY <3>1, NoMarks
  <2>3. Marks(r) \cup ListMarks(list) \subseteq Stream(s) /\ Before(Marks(r), ListMarks(list))
    BY <1>4, <2>2 DEF Before
  <2>4. Before(Marks(r) \cup ListMarks(list), Stream(s) \ (Marks(r) \cup ListMarks(list)))
    BY <1>4, <2>2 DEF Before
  <2>5. ASSUME session = 1, s = 1, conn'[1] # "lost"
        PROVE  0 .. Upcoming - 1 \subseteq Marks(r) \cup ListMarks(list) \cup Marks(merge)
    <3>0. conn[1] # "lost"
      BY <1>0, <2>1, <2>5 DEF Stopped
    <3>1. phase \in {"init", "opening"}
      BY <2>1, <2>5 DEF IInv, SessionsInv
    <3>2. retrying = "no"
      <4>1. \A t \in Sessions : t # 1 => t > session
        BY <2>5 DEF Sessions
      <4>2. \A t \in Sessions : conn[t] # "lost"
        BY <3>0, <4>1 DEF IInv, SessionsInv
      <4> QED
        BY <4>2 DEF IInv, SessionsInv
    <3>3. Upcoming = 0
      BY <3>1, <3>2 DEF Upcoming, SymbolsFirst
    <3> QED
      BY <3>3
  <2>6. sendList' = [sendList EXCEPT ![s] = list]
    BY <2>1, <2>2
  <2> QED
    BY <1>1, <1>3, <1>5, <2>2, <2>3, <2>4, <2>5, <2>6, StreamsAfterReceive
<1> QED
  BY <1>6, <1>7

LEMMA ServerRecvIInv ==
  ASSUME IInv, NEW s \in Sessions, NEW noticed \in BOOLEAN, ServerRecv(s, noticed)
  PROVE  IInv'
<1>1. PICK p, left : \E refused \in BOOLEAN : Receives(s, p, left, refused)
  BY ServerReceives
<1>2. PICK refused \in BOOLEAN : Receives(s, p, left, refused)
  BY <1>1
<1>3. SessionsInv' /\ OrderInv' /\ CompleteInv'
  BY <1>2, ServerRecvSessions, ServerRecvStreams
<1>4. UNCHANGED <<logVars, mergeVars, workVars, session, compatible, srvDead, dead>> /\ p \in Packets
  BY <1>2 DEF Receives
<1>5. TypeOK'
  <2>0. /\ conn \in [Sessions -> {"none", "up", "stopping", "closed", "lost"}] /\ sendList \in [Sessions -> Lists]
        /\ received \in [Sessions -> Seq(Packets)] /\ srv \in [Sessions -> {"accepted", "negotiated", "disconnected"}]
        /\ hello \in [Sessions -> BOOLEAN] /\ \A t \in Sessions : Len(sendList[t]) <= SendListLen
    BY DEF IInv, TypeOK, Lists
  <2>1. received' \in [Sessions -> Seq(Packets)]
    <3>1. Append(received[s], p) \in Seq(Packets)
      BY <1>4, <2>0
    <3> QED
      BY <1>2, <2>0, <3>1 DEF Receives
  <2>2. PICK list \in Lists : sendList' = [sendList EXCEPT ![s] = list] /\ Len(list) <= SendListLen
    <3>1. <<>> \in Lists /\ Len(<<>>) <= SendListLen
      BY ClientAssumption DEF Lists
    <3> QED
      BY <1>2, <3>1 DEF Receives
  <2>3. sendList' \in [Sessions -> Lists] /\ \A t \in Sessions : Len(sendList'[t]) <= SendListLen
    BY <2>0, <2>2
  <2>4. /\ conn' \in [Sessions -> {"none", "up", "stopping", "closed", "lost"}]
        /\ srv' \in [Sessions -> {"accepted", "negotiated", "disconnected"}] /\ hello' \in [Sessions -> BOOLEAN]
    BY <1>2, <2>0 DEF Receives, Stopped
  <2> QED
    BY <1>4, <2>1, <2>3, <2>4 DEF IInv, TypeOK, Lists, logVars, mergeVars, workVars
<1>6. LoggerInv' /\ WorkersInv'
  BY <1>4 DEF IInv, LoggerInv, SymbolsFirst, WorkersInv, logVars, mergeVars, workVars
<1> QED
  BY <1>3, <1>5, <1>6 DEF IInv

-----------------------------------------------------------------------------
(* The invariant                                                           *)

LEMMA InitIInv == Init => IInv
<1> SUFFICES ASSUME Init PROVE IInv
  OBVIOUS
<1>1. 1 \in Sessions /\ 1 \in 1 .. MaxEvents + 1 /\ 0 \in 0 .. MaxPings
  BY ClientAssumption DEF Sessions
<1>2. TypeOK
  <2>1. <<>> \in Seq(1 .. MaxEvents) /\ <<>> \in Seq(Seq(Packets)) /\ Len(<<>>) <= SendListLen
    BY ClientAssumption
  <2> QED
    BY <1>1, <2>1, EmptyMerge DEF Init, TypeOK, Phase
<1>3. LoggerInv /\ WorkersInv
  <2>1. initBuffer = <<>> /\ Len(initBuffer) = 0 /\ nextEvent = 1
    BY DEF Init
  <2> QED
    BY <2>1 DEF Init, LoggerInv, WorkersInv
<1>4. SessionsInv
  BY <1>1 DEF Init, SessionsInv, Sessions
<1>5. Upcoming = 0
  BY DEF Init, Upcoming, SymbolsFirst
<1>6. \A s \in Sessions : received[s] = <<>> /\ sendList[s] = <<>> /\ Stream(s) = {} /\ Own(s) = {}
  BY NoMarks DEF Init, Stream, Own
<1>7. OrderInv
  BY <1>6, NoMarks DEF Init, OrderInv, Before
<1>8. CompleteInv
  BY <1>1, <1>5, <1>6 DEF CompleteInv
<1> QED
  BY <1>2, <1>3, <1>4, <1>7, <1>8 DEF IInv

LEMMA NextIInv ==
  ASSUME IInv, [Next]_vars
  PROVE  IInv'
<1>1. CASE OpenNext
  BY <1>1, BeginInitIInv, DialIInv, PanicIInv, RecvServerHelloIInv, SendSymbolsIInv, SendLargeIInv, SendBufferedIInv,
     FinishInitIInv, ReopenIInv DEF OpenNext, DialFails
<1>2. CASE CloseNext
  BY <1>2, SendShutdownIInv, PanicIInv, CancelWorkersIInv, WaitWorkersIInv, StopConnIInv DEF CloseNext, SendStopped
<1>3. CASE BufferEvent \/ SendLog \/ BeginClose
  BY <1>3, BufferEventIInv, SendLogIInv, BeginCloseIInv
<1>4. CASE PingTick \/ PingStops \/ RefreshTick \/ RefreshStops \/ RefreshLast \/ ClientClosed
  BY <1>4, PingTickIInv, PingStopsIInv, RefreshTickIInv, RefreshStopsIInv, RefreshLastIInv, ClientClosedIInv
<1>5. CASE \E s \in Sessions : ServerNext(s)
  BY <1>5, ServerClosedIInv, ServerRecvIInv DEF ServerNext
<1>6. CASE \E s \in Sessions : ConnLost(s)
  BY <1>6, ConnLostIInv
<1>7. CASE UNCHANGED vars
  <2>1. UNCHANGED <<logVars, mergeVars, workVars, session, netVars, srvVars, dead>>
    BY <1>7 DEF vars
  <2>2. TypeOK'
    BY <2>1 DEF IInv, TypeOK, logVars, mergeVars, workVars, netVars, srvVars
  <2>3. LoggerInv' /\ WorkersInv' /\ Upcoming' = Upcoming
    BY <2>1 DEF IInv, LoggerInv, WorkersInv, SymbolsFirst, Upcoming, logVars, mergeVars, workVars
  <2>4. SessionsInv'
    BY <2>1 DEF IInv, SessionsInv, logVars, netVars, srvVars
  <2>5. OrderInv' /\ CompleteInv'
    BY <2>1, <2>3, SameStreams DEF logVars, mergeVars, netVars, srvVars
  <2> QED
    BY <2>2, <2>3, <2>4, <2>5 DEF IInv
<1> QED
  BY <1>1, <1>2, <1>3, <1>4, <1>5, <1>6, <1>7 DEF Next, ClientNext

\* The streams and the logger, the workers and the connections stay in step,
\* whatever the network, the pings, the server and the reopening sender do.
THEOREM ClientInvariant == Spec => []IInv
<1>1. Init => IInv
  BY InitIInv
<1>2. IInv /\ [Next]_vars => IInv'
  BY NextIInv
<1> QED
  BY <1>1, <1>2, PTL DEF Spec

LEMMA EventIsMark ==
  ASSUME NEW p \in Packets, IsEvent(p)
  PROVE  p[2] \in 1 .. MaxEvents /\ p = Mark(p[2]) /\ p[2] \in 0 .. Final /\ p[2] # Final
<1>1. PICK n \in 1 .. MaxEvents : p = Event(n)
  BY DEF Packets, IsEvent, Hello, SymbolData, Ping, Shutdown
<1>2. p[2] = n
  BY <1>1 DEF Event
<1>3. n \in 0 .. Final /\ n # 0 /\ n # Final
  BY ClientAssumption DEF Final
<1> QED
  BY <1>1, <1>2, <1>3 DEF Mark

LEMMA MarkAt ==
  ASSUME NEW q, NEW i \in 1 .. Len(q), NEW n \in 0 .. Final, q[i] = Mark(n)
  PROVE  n \in Marks(q)
BY DEF Marks, Contains

\* The server receives the events of a process in the order in which sendLog() took
\* them and none twice, over all sessions of the sender; the first session has the
\* symbols and leaves out nothing (logger.init(), mergeSender, RetrySender).
THEOREM EventsArriveInOrder == Spec => []ReceivedInOrder
<1>1. IInv => ReceivedInOrder
  <2> SUFFICES ASSUME IInv PROVE ReceivedInOrder
    OBVIOUS
  <2>0. TypeOK /\ received \in [Sessions -> Seq(Packets)] /\ Final \in Nat
    BY UpcomingIs DEF IInv, TypeOK
  <2>1. \A s \in Sessions : Sorted(received[s]) /\ Before(Marks(received[s]), ListMarks(sendList[s]))
    BY DEF IInv, OrderInv
  <2>2. ASSUME NEW s \in Sessions, NEW t \in Sessions, NEW i \in 1 .. Len(received[s]), NEW j \in 1 .. Len(received[t]),
               s < t \/ (s = t /\ i < j), IsEvent(received[s][i]), IsEvent(received[t][j])
        PROVE  received[s][i][2] < received[t][j][2]
    <3>1. received[s][i] \in Packets /\ received[t][j] \in Packets
      BY <2>0
    <3>2. PICK m \in 0 .. Final : m = received[s][i][2] /\ received[s][i] = Mark(m) /\ m # Final
      BY <2>2, <3>1, EventIsMark
    <3>3. PICK n \in 0 .. Final : n = received[t][j][2] /\ received[t][j] = Mark(n)
      BY <2>2, <3>1, EventIsMark
    <3>4. CASE s < t
      <4>1. m \in Stream(s) \ {Final} /\ n \in Own(t)
        BY <3>2, <3>3, MarkAt DEF Stream, Own
      <4> QED
        BY <3>2, <3>3, <3>4, <4>1 DEF IInv, OrderInv, Before
    <3>5. CASE s = t /\ i < j
      <4>1. received[s][j] = Mark(n) /\ j \in 1 .. Len(received[s]) /\ Sorted(received[s])
        BY <2>1, <3>3, <3>5
      <4>2. m < n
        BY <3>2, <3>5, <4>1 DEF Sorted
      <4> QED
        BY <3>2, <3>3, <4>2
    <3> QED
      BY <2>2, <3>4, <3>5
  <2>3. ASSUME NEW i \in 1 .. Len(received[1]), IsEvent(received[1][i]),
               NEW packet \in {SymbolData} \cup {Event(n) : n \in 1 .. received[1][i][2] - 1}
        PROVE  \E j \in 1 .. i - 1 : received[1][j] = packet
    <3>0. 1 \in Sessions
      BY ClientAssumption DEF Sessions
    <3>1. received[1] \in Seq(Packets) /\ received[1][i] \in Packets
      BY <2>0, <3>0
    <3>2. PICK n \in 0 .. Final : n = received[1][i][2] /\ received[1][i] = Mark(n) /\ n # Final /\ n \in 1 .. MaxEvents
      BY <2>3, <3>1, EventIsMark
    <3>3. PICK k \in 0 .. n - 1 : packet = Mark(k)
      <4>1. CASE packet = SymbolData
        <5>1. Mark(0) = SymbolData /\ 0 \in 0 .. n - 1
          BY <3>2, ClientAssumption DEF Mark
        <5> QED
          BY <4>1, <5>1
      <4>2. CASE packet # SymbolData
        <5>1. PICK k \in 1 .. n - 1 : packet = Event(k)
          BY <2>3, <3>2, <4>2
        <5>2. k # 0 /\ k # Final /\ k \in 0 .. n - 1
          BY <2>0, <3>2
        <5> QED
          BY <5>1, <5>2 DEF Mark
      <4> QED
        BY <4>1, <4>2
    <3>4. k \in 0 .. Final /\ k < n /\ k \in 0 .. n
      BY <2>0, <3>2
    <3>5. n \in Marks(received[1]) /\ n \in Stream(1) \ {Final}
      BY <3>2, MarkAt DEF Stream
    <3>6. k \in Stream(1)
      BY <3>4, <3>5 DEF IInv, CompleteInv
    <3>7. k \in Marks(received[1])
      <4>1. k \notin ListMarks(sendList[1])
        <5>1. ASSUME k \in ListMarks(sendList[1]) PROVE n < k
          BY <2>1, <3>0, <3>5, <5>1 DEF Before
        <5> QED
          BY <3>4, <5>1
      <4> QED
        BY <3>6, <4>1 DEF Stream
    <3>8. PICK j \in 1 .. Len(received[1]) : received[1][j] = Mark(k)
      BY <3>7 DEF Marks, Contains
    <3>9. j # i
      <4>1. MarkOf(Mark(k)) = {k} /\ MarkOf(Mark(n)) = {n}
        BY <3>4, MarkOfMark
      <4>2. k # n
        BY <3>4
      <4>3. Mark(k) # Mark(n)
        BY <4>1, <4>2
      <4> QED
        BY <3>2, <3>8, <4>3
    <3>10. ~(i < j)
      <4>1. ASSUME i < j PROVE n < k
        BY <2>1, <3>0, <3>2, <3>4, <3>8, <4>1 DEF Sorted
      <4> QED
        BY <3>4, <4>1
    <3>11. j \in 1 .. i - 1
      BY <3>1, <3>9, <3>10
    <3> QED
      BY <3>3, <3>8, <3>11
  <2> QED
    BY <2>0, <2>2, <2>3 DEF ReceivedInOrder
<1> QED
  BY <1>1, ClientInvariant, PTL

\* After a Close() over a connection that did not fail nothing is left in the merge
\* buffer: every event has arrived, is on its way or was emitted after the Close()
\* (Client.Close(), mergeSender.RefreshWorker).
THEOREM CloseLeavesNothing == Spec => []CloseDelivers
<1>1. IInv => CloseDelivers
  <2> SUFFICES ASSUME IInv, phase = "closed", \A s \in Sessions : conn[s] # "lost", NEW n \in 1 .. nextEvent - 1
               PROVE  Delivered(Event(n)) \/ UnderWay(Event(n)) \/ Contains(initBuffer, n)
    BY DEF CloseDelivers
  <2>1. 1 \in Sessions /\ session = 1 /\ retrying = "no"
    BY ClientAssumption DEF IInv, TypeOK, SessionsInv, Sessions
  <2>2. merge = <<>>
    BY DEF IInv, WorkersInv
  <2>3. PICK l \in Nat, e \in 1 .. MaxEvents + 1 :
          e = nextEvent /\ l = Len(initBuffer) /\ l < e /\ \A i \in 1 .. l : initBuffer[i] = e - 1 - l + i
    BY DEF IInv, TypeOK, LoggerInv
  <2>4. Upcoming = e - l
    BY <2>1, <2>3 DEF Upcoming, SymbolsFirst
  <2>5. n \in 0 .. Final /\ Mark(n) = Event(n)
    BY <2>3, ClientAssumption DEF Final, Mark
  <2>6. CASE n < e - l
    <3>1. n \in Own(1)
      <4>1. n \in 0 .. (e - l) - 1
        BY <2>3, <2>6
      <4> QED
        BY <2>1, <2>4, <4>1 DEF IInv, CompleteInv
    <3>2. n \in Marks(received[1]) \/ n \in ListMarks(sendList[1])
      BY <2>2, <3>1, NoMarks DEF Own, Stream
    <3>3. CASE n \in Marks(received[1])
      BY <2>1, <2>5, <3>3 DEF Marks, Delivered
    <3>4. CASE n \in ListMarks(sendList[1])
      <4>1. PICK k \in 1 .. Len(sendList[1]) : n \in Marks(sendList[1][k])
        BY <3>4, ListMark
      <4> QED
        BY <2>1, <2>5, <4>1 DEF Marks, UnderWay
    <3> QED
      BY <3>2, <3>3, <3>4
  <2>7. CASE ~(n < e - l)
    <3>1. PICK i \in 1 .. l : n = e - 1 - l + i
      <4>1. n - (e - 1 - l) \in 1 .. l /\ n = e - 1 - l + (n - (e - 1 - l))
        BY <2>3, <2>7
      <4> QED
        BY <4>1
    <3> QED
      BY <2>3, <3>1 DEF Contains
  <2> QED
    BY <2>6, <2>7
<1> QED
  BY <1>1, ClientInvariant, PTL
=============================================================================
