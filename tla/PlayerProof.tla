---------------------------- MODULE PlayerProof ----------------------------
(***************************************************************************)
(* Proofs about Player, for any size of ring, margin, delay and wait, and  *)
(* for any scores of a sane density: nothing the host sends is dropped,    *)
(* and what sounds is what is written.                                     *)
(*                                                                         *)
(* The events are in three parts: l of them have landed, the ring holds    *)
(* those up to h, the wire those up to sent.  Those with their time and    *)
(* the lateness past are among the first l (Landed); those on the wire     *)
(* will be heard in time (OnTheWay); those not sent are in time after the  *)
(* next look at the count and its answer (Ahead).  A batch keeps that      *)
(* because what it leaves out is beyond a lead: a full ring holds more     *)
(* commands than a lead of a sane score has (Reaches).  What the host      *)
(* wrongly takes for played is no more than the margin (WithinTheMargin),  *)
(* so there is room for what it sends.  What sounds is then a matter of    *)
(* which l events have landed (StartSounds, ReleaseSounds).                *)
(***************************************************************************)
EXTENDS Player, FiniteSetTheorems, SequenceTheorems, WellFoundedInduction, TLAPS

\* A nonempty set of naturals has a least element.
LEMMA LeastExists ==
  ASSUME NEW T, T \subseteq Nat, T # {}
  PROVE  \E x \in T : \A y \in T : x <= y
  <1>1. PICK x \in T : \A y \in T : ~ (<<y, x>> \in OpToRel(<, Nat))
    BY NatLessThanWellFounded, WFMin
  <1>2. \A y \in T : ~ (y < x)
    BY <1>1 DEF OpToRel
  <1>3. QED BY <1>2

\* What holds of a and goes on holding holds up to b.
LEMMA Onward ==
  ASSUME NEW a \in Nat, NEW b \in Nat, NEW T, a \in T,
         \A k \in a .. b - 1 : k \in T => k + 1 \in T
  PROVE  a .. b \subseteq T
  <1> DEFINE D == a .. b \ T
  <1> SUFFICES ASSUME D # {} PROVE FALSE
    OBVIOUS
  <1>1. PICK k \in D : \A j \in D : k <= j
    <2>1. D \subseteq Nat
      OBVIOUS
    <2>2. QED BY <2>1, LeastExists
  <1>2. k # a /\ k \in a .. b
    BY <1>1
  <1>3. k - 1 \in a .. b - 1 /\ k - 1 \in T
    BY <1>1, <1>2
  <1>4. (k - 1) + 1 \in T /\ (k - 1) + 1 = k
    BY <1>2, <1>3
  <1>5. QED BY <1>1, <1>4

-----------------------------------------------------------------------------
\* Sorting: every member has a place of its own.
LEMMA Ordered ==
  ASSUME NEW I, NEW key \in [I -> Int \X Int], I \subseteq Nat,
         NEW i \in I, NEW j \in I, NEW k \in I
  PROVE  /\ Precedes(key, i, j) \/ Precedes(key, j, i) \/ i = j
         /\ ~Precedes(key, i, i)
         /\ Precedes(key, i, j) /\ Precedes(key, j, k) => Precedes(key, i, k)
  <1>1. /\ key[i] \in Int \X Int /\ key[j] \in Int \X Int /\ key[k] \in Int \X Int
        /\ i \in Nat /\ j \in Nat /\ k \in Nat
    OBVIOUS
  <1>2. /\ key[i] = <<key[i][1], key[i][2]>> /\ key[i][1] \in Int /\ key[i][2] \in Int
        /\ key[j] = <<key[j][1], key[j][2]>> /\ key[j][1] \in Int /\ key[j][2] \in Int
        /\ key[k] = <<key[k][1], key[k][2]>> /\ key[k][1] \in Int /\ key[k][2] \in Int
    BY <1>1
  <1>3. /\ key[i] = key[j] <=> key[i][1] = key[j][1] /\ key[i][2] = key[j][2]
        /\ key[j] = key[k] <=> key[j][1] = key[k][1] /\ key[j][2] = key[k][2]
        /\ key[i] = key[k] <=> key[i][1] = key[k][1] /\ key[i][2] = key[k][2]
    BY <1>2
  <1>4. QED BY <1>1, <1>2, <1>3 DEF Precedes, Below

LEMMA Places ==
  ASSUME NEW I, NEW key \in [I -> Int \X Int], I \subseteq Nat, IsFiniteSet(I)
  PROVE  /\ \A i \in I : Place(key, I, i) \in 1 .. Cardinality(I)
         /\ \A i, j \in I : Precedes(key, i, j) => Place(key, I, i) < Place(key, I, j)
  <1> DEFINE P(i) == {j \in I : Precedes(key, j, i)}
  <1>1. Cardinality(I) \in Nat
    BY FS_CardinalityType
  <1> HIDE DEF P
  <1>2. ASSUME NEW i \in I
        PROVE  /\ IsFiniteSet(P(i)) /\ Cardinality(P(i)) \in Nat /\ Cardinality(P(i)) < Cardinality(I)
               /\ Place(key, I, i) = Cardinality(P(i)) + 1
    <2>1. P(i) \in SUBSET I /\ i \notin P(i)
      BY Ordered DEF P
    <2>2. IsFiniteSet(P(i)) /\ Cardinality(P(i)) <= Cardinality(I) /\ Cardinality(P(i)) # Cardinality(I)
      BY <2>1, FS_Subset
    <2>3. Cardinality(P(i)) \in Nat
      BY <2>2, FS_CardinalityType
    <2>4. Place(key, I, i) = Cardinality(P(i)) + 1
      BY DEF Place, P
    <2>5. QED BY <1>1, <2>2, <2>3, <2>4
  <1>3. ASSUME NEW i \in I, NEW j \in I, Precedes(key, i, j)
        PROVE  Cardinality(P(i)) < Cardinality(P(j))
    <2>1. P(i) \in SUBSET P(j)
      BY <1>3, Ordered DEF P
    <2>2. i \in P(j) /\ i \notin P(i)
      BY <1>3, Ordered DEF P
    <2>3. Cardinality(P(i)) <= Cardinality(P(j)) /\ Cardinality(P(i)) # Cardinality(P(j))
      BY <1>2, <2>1, <2>2, FS_Subset
    <2>4. QED BY <1>2, <2>3
  <1>4. \A i \in I : Place(key, I, i) \in 1 .. Cardinality(I)
    <2> TAKE i \in I
    <2>1. QED BY <1>1, <1>2
  <1>5. ASSUME NEW i \in I, NEW j \in I, Precedes(key, i, j)
        PROVE  Place(key, I, i) < Place(key, I, j)
    <2>1. Cardinality(P(i)) < Cardinality(P(j))
      BY <1>3, <1>5
    <2>2. QED BY <1>2, <2>1
  <1>6. QED BY <1>4, <1>5

\* The sorted sequence: each member once, in the order of the keys.
InOrderOf(I, key, n, order) ==
  /\ order \in [1 .. n -> I]
  /\ \A i \in I : \E k \in 1 .. n : order[k] = i
  /\ \A a, b \in 1 .. n : a < b => Precedes(key, order[a], order[b])

LEMMA Sorting ==
  ASSUME NEW I, NEW key \in [I -> Int \X Int], I \subseteq Nat, IsFiniteSet(I)
  PROVE  Cardinality(I) \in Nat /\ InOrderOf(I, key, Cardinality(I), InOrder(I, key))
  <1> DEFINE n == Cardinality(I)
             place == [i \in I |-> Place(key, I, i)]
             order == InOrder(I, key)
  <1>1. n \in Nat
    BY FS_CardinalityType
  <1>2. place \in [I -> 1 .. n] /\ \A i \in I : place[i] = Place(key, I, i)
    BY Places
  <1> HIDE DEF place, order
  <1>3. ASSUME NEW i \in I, NEW j \in I, place[i] = place[j]
        PROVE  i = j
    <2>1. /\ Place(key, I, i) \in Nat /\ Place(key, I, j) \in Nat
          /\ Place(key, I, i) = Place(key, I, j)
      BY <1>1, <1>2, <1>3
    <2>2. ~Precedes(key, i, j)
      <3>1. Precedes(key, i, j) => Place(key, I, i) < Place(key, I, j)
        BY Places
      <3>2. ~(Place(key, I, i) < Place(key, I, j))
        BY <2>1
      <3>3. QED BY <3>1, <3>2
    <2>3. ~Precedes(key, j, i)
      <3>1. Precedes(key, j, i) => Place(key, I, j) < Place(key, I, i)
        BY Places
      <3>2. ~(Place(key, I, j) < Place(key, I, i))
        BY <2>1
      <3>3. QED BY <3>1, <3>2
    <2>4. QED BY <2>2, <2>3, Ordered
  <1>4. place \in Injection(I, 1 .. n)
    BY <1>2, <1>3 DEF Injection, IsInjective
  <1>5. place \in Surjection(I, 1 .. n)
    <2>1. IsFiniteSet(1 .. n) /\ Cardinality(1 .. n) = n
      BY <1>1, FS_Interval
    <2>2. QED BY <1>4, <2>1, FS_Injection
  <1>6. \A k \in 1 .. n : \E i \in I : Place(key, I, i) = k
    BY <1>2, <1>5 DEF Surjection
  <1>7. ASSUME NEW k \in 1 .. n
        PROVE  order[k] \in I /\ Place(key, I, order[k]) = k
    <2>1. order[k] = CHOOSE i \in I : Place(key, I, i) = k
      BY DEF InOrder, order
    <2>2. QED BY <1>6, <2>1
  <1>8. order \in [1 .. n -> I]
    <2>1. order = [k \in 1 .. n |-> order[k]]
      BY DEF InOrder, order
    <2>2. QED BY <1>7, <2>1
  <1>9. ASSUME NEW i \in I PROVE \E k \in 1 .. n : order[k] = i
    <2>1. place[i] \in 1 .. n /\ order[place[i]] \in I
      BY <1>2, <1>7
    <2>2. place[order[place[i]]] = place[i]
      BY <1>2, <1>7, <2>1
    <2>3. QED BY <1>3, <2>1, <2>2
  <1>10. ASSUME NEW a \in 1 .. n, NEW b \in 1 .. n, a < b
         PROVE  Precedes(key, order[a], order[b])
    <2>1. /\ order[a] \in I /\ order[b] \in I
          /\ Place(key, I, order[a]) = a /\ Place(key, I, order[b]) = b
      BY <1>7
    <2>2. order[a] # order[b]
      BY <1>1, <1>10, <2>1
    <2>3. ~Precedes(key, order[b], order[a])
      <3>1. Precedes(key, order[b], order[a]) => Place(key, I, order[b]) < Place(key, I, order[a])
        BY <2>1, Places
      <3>2. ~(Place(key, I, order[b]) < Place(key, I, order[a]))
        BY <1>1, <1>10, <2>1
      <3>3. QED BY <3>1, <3>2
    <2>4. Precedes(key, order[a], order[b]) \/ Precedes(key, order[b], order[a]) \/ order[a] = order[b]
      <3> DEFINE x == order[a] y == order[b]
      <3>1. x \in I /\ y \in I
        BY <2>1
      <3> HIDE DEF x, y
      <3>2. Precedes(key, x, y) \/ Precedes(key, y, x) \/ x = y
        BY <3>1, Ordered
      <3>3. QED BY <3>2 DEF x, y
    <2>5. QED BY <2>2, <2>3, <2>4
  <1>11. QED BY <1>1, <1>8, <1>9, <1>10 DEF order, InOrderOf

-----------------------------------------------------------------------------
Event == [sample : Nat, on : BOOLEAN, pitch : Nat]

\* A score is notes and the names of settings.
LEMMA ScoreIs ==
  ASSUME NEW file \in Seq(SettingLine \cup NoteLine)
  PROVE  Notes(file) \in Seq(NoteLine) /\ Patch(file) \subseteq HEADER
  <1> DEFINE lines == {i \in DOMAIN file : IsNote(file[i])}
             key == [i \in lines |-> <<file[i].time, file[i].pitch>>]
  <1>1. /\ Len(file) \in Nat /\ DOMAIN file = 1 .. Len(file)
        /\ \A i \in 1 .. Len(file) : file[i] \in SettingLine \cup NoteLine
    BY LenProperties
  <1>2. \A line \in SettingLine : ~IsNote(line) /\ line.setting \in HEADER
    BY DEF SettingLine, IsNote
  <1>3. \A line \in NoteLine : IsNote(line) /\ line.time \in Int /\ line.pitch \in Int
    BY DEF NoteLine, IsNote
  <1>4. lines \subseteq Nat /\ IsFiniteSet(lines) /\ \A i \in lines : file[i] \in NoteLine
    <2>1. lines \in SUBSET (1 .. Len(file)) /\ IsFiniteSet(1 .. Len(file))
      BY <1>1, FS_Interval
    <2>2. IsFiniteSet(lines)
      BY <2>1, FS_Subset
    <2>3. QED BY <1>1, <1>2, <2>1, <2>2
  <1>5. key \in [lines -> Int \X Int]
    BY <1>3, <1>4
  <1> HIDE DEF key
  <1>6. Notes(file) = [k \in DOMAIN InOrder(lines, key) |-> file[InOrder(lines, key)[k]]]
    BY DEF Notes, key
  <1> HIDE DEF lines
  <1>7. /\ Cardinality(lines) \in Nat
        /\ InOrder(lines, key) \in [1 .. Cardinality(lines) -> lines]
    BY <1>4, <1>5, Sorting DEF InOrderOf
  <1>8. Notes(file) \in [1 .. Cardinality(lines) -> NoteLine]
    BY <1>4, <1>6, <1>7
  <1>9. Notes(file) \in Seq(NoteLine)
    BY <1>7, <1>8, SeqDef
  <1>10. Patch(file) \subseteq HEADER
    <2>1. ASSUME NEW l \in Range(file), ~IsNote(l) PROVE l.setting \in HEADER
      <3>1. PICK i \in DOMAIN file : l = file[i]
        BY <2>1 DEF Range
      <3>2. QED BY <1>1, <1>2, <1>3, <2>1, <3>1
    <2>2. QED BY <2>1 DEF Patch
  <1>11. QED BY <1>9, <1>10

\* Where the start and the release of each note are among the events.
Arranged(notes, es, st, rl) ==
  /\ st \in [1 .. Len(notes) -> 1 .. Len(es)] /\ rl \in [1 .. Len(notes) -> 1 .. Len(es)]
  /\ \A n \in 1 .. Len(notes) : /\ es[st[n]] = StartOf(notes[n]) /\ es[rl[n]] = ReleaseOf(notes[n])
                                /\ st[n] < rl[n]
  /\ \A n, m \in 1 .. Len(notes) : (st[n] = st[m] \/ rl[n] = rl[m]) => n = m
  /\ \A k \in 1 .. Len(es) : \E n \in 1 .. Len(notes) : k = st[n] \/ k = rl[n]

\* Events in order of time, and at a time the releases first.
Sorted(es) == \A a, b \in 1 .. Len(es) :
                a < b => /\ es[a].sample <= es[b].sample
                         /\ es[a].sample = es[b].sample => ~(es[a].on /\ ~es[b].on)

LEMMA Halves ==
  ASSUME NEW x \in Nat
  PROVE  x = 2 * ((x + 1) \div 2) - 1 \/ x = 2 * ((x + 1) \div 2)
  OBVIOUS

LEMMA EventsAre ==
  ASSUME NEW notes \in Seq(NoteLine), \A i \in DOMAIN notes : notes[i].duration > 0
  PROVE  /\ Events(notes) \in Seq(Event) /\ Len(Events(notes)) = 2 * Len(notes)
         /\ Sorted(Events(notes))
         /\ \E st, rl : Arranged(notes, Events(notes), st, rl)
  <1> DEFINE N == Len(notes)
             built == [i \in 1 .. 2 * N |->
                         LET note == notes[(i + 1) \div 2] IN IF i % 2 = 1 THEN StartOf(note) ELSE ReleaseOf(note)]
             I == 1 .. 2 * N
             key == [i \in I |-> Key(built[i])]
             order == InOrder(I, key)
             es == Events(notes)
  <1>1. /\ N \in Nat /\ DOMAIN notes = 1 .. N
        /\ \A n \in 1 .. N : /\ notes[n] \in NoteLine /\ notes[n].time \in Nat /\ notes[n].duration \in Nat
                             /\ notes[n].duration > 0
    <2>1. N \in Nat /\ DOMAIN notes = 1 .. N /\ \A n \in 1 .. N : notes[n] \in NoteLine
      BY LenProperties
    <2>2. \A note \in NoteLine : note.time \in Nat /\ note.duration \in Nat
      BY DEF NoteLine
    <2>3. QED BY <2>1, <2>2
  <1>2. \A note \in NoteLine : StartOf(note) \in Event /\ ReleaseOf(note) \in Event
    BY DEF NoteLine, StartOf, ReleaseOf, Event, Ends
  <1> HIDE DEF N
  <1>3. \A i \in I : (i + 1) \div 2 \in 1 .. N
    BY <1>1
  <1>4. /\ built \in [I -> Event] /\ DOMAIN built = I
        /\ \A n \in 1 .. N : /\ 2 * n - 1 \in I /\ built[2 * n - 1] = StartOf(notes[n])
                             /\ 2 * n \in I /\ built[2 * n] = ReleaseOf(notes[n])
    <2>1. built \in [I -> Event]
      BY <1>1, <1>2, <1>3
    <2>2. ASSUME NEW n \in 1 .. N
          PROVE  /\ 2 * n - 1 \in I /\ built[2 * n - 1] = StartOf(notes[n])
                 /\ 2 * n \in I /\ built[2 * n] = ReleaseOf(notes[n])
      <3>1. /\ 2 * n - 1 \in I /\ 2 * n \in I
            /\ (2 * n - 1) % 2 = 1 /\ (2 * n) % 2 = 0
            /\ ((2 * n - 1) + 1) \div 2 = n /\ (2 * n + 1) \div 2 = n
        BY <1>1
      <3>2. QED BY <3>1
    <2>3. QED BY <2>1, <2>2
  <1>5. es = LET o == InOrder(DOMAIN built, [i \in DOMAIN built |-> Key(built[i])])
             IN  [k \in DOMAIN o |-> built[o[k]]]
    BY DEF Events, N
  <1> HIDE DEF built
  <1>6. key \in [I -> Int \X Int] /\ I \subseteq Nat /\ IsFiniteSet(I) /\ Cardinality(I) = 2 * N
    <2>1. \A e \in Event : Key(e) \in Int \X Int
      BY DEF Event, Key
    <2>2. \A i \in I : Key(built[i]) \in Int \X Int
      BY <1>4, <2>1
    <2>3. QED BY <1>1, <2>2, FS_Interval
  <1>6a. es = [k \in DOMAIN order |-> built[order[k]]]
    BY <1>4, <1>5
  <1> HIDE DEF key, order, I
  <1>7. /\ order \in [1 .. 2 * N -> I]
        /\ \A i \in I : \E k \in 1 .. 2 * N : order[k] = i
        /\ \A a, b \in 1 .. 2 * N : a < b => Precedes(key, order[a], order[b])
    <2>1. InOrderOf(I, key, Cardinality(I), order)
      BY <1>6, Sorting DEF order
    <2>2. InOrderOf(I, key, 2 * N, order)
      BY <1>6, <2>1
    <2>3. QED BY <2>2 DEF InOrderOf
  <1>8. \A i, j \in I : Precedes(key, i, j) =>
          /\ i # j
          /\ built[i].sample <= built[j].sample
          /\ built[i].sample = built[j].sample => ~(built[i].on /\ ~built[j].on)
    <2> TAKE i \in I, j \in I
    <2> HAVE Precedes(key, i, j)
    <2>1. i # j
      BY <1>6, Ordered
    <2>2. Below(key[i], key[j]) \/ key[i] = key[j]
      BY DEF Precedes
    <2>3. /\ key[i] = <<built[i].sample, IF built[i].on THEN 1 ELSE 0>>
          /\ key[j] = <<built[j].sample, IF built[j].on THEN 1 ELSE 0>>
      BY DEF Key, key
    <2>4. /\ built[i].sample \in Nat /\ built[i].on \in BOOLEAN
          /\ built[j].sample \in Nat /\ built[j].on \in BOOLEAN
      BY <1>4 DEF Event
    <2>5. QED BY <2>1, <2>2, <2>3, <2>4 DEF Below
  <1> HIDE DEF es
  <1>9. es \in [1 .. 2 * N -> Event] /\ \A k \in 1 .. 2 * N : es[k] = built[order[k]]
    BY <1>4, <1>7, <1>6a
  <1>10. es \in Seq(Event) /\ Len(es) = 2 * N
    <2>1. 2 * N \in Nat
      BY <1>1
    <2>2. es \in Seq(Event)
      BY <1>9, <2>1, SeqDef
    <2>3. 1 .. Len(es) = 1 .. 2 * N /\ Len(es) \in Nat
      BY <1>9, <2>2, LenProperties
    <2>4. QED BY <2>1, <2>2, <2>3
  <1>11. Sorted(es)
    <2> SUFFICES ASSUME NEW a \in 1 .. 2 * N, NEW b \in 1 .. 2 * N, a < b
                 PROVE  /\ es[a].sample <= es[b].sample
                        /\ es[a].sample = es[b].sample => ~(es[a].on /\ ~es[b].on)
      BY <1>10 DEF Sorted
    <2>1. order[a] \in I /\ order[b] \in I /\ Precedes(key, order[a], order[b])
      BY <1>7
    <2>2. es[a] = built[order[a]] /\ es[b] = built[order[b]]
      BY <1>9
    <2>3. QED BY <1>8, <2>1, <2>2
  <1>12. \A a, b \in 1 .. 2 * N : order[a] = order[b] => a = b
    <2> TAKE a \in 1 .. 2 * N, b \in 1 .. 2 * N
    <2> HAVE order[a] = order[b]
    <2>1. a < b \/ b < a \/ a = b
      BY <1>1
    <2>2. order[a] \in I /\ order[b] \in I
      BY <1>7
    <2>3. ~(a < b) /\ ~(b < a)
      BY <1>7, <1>8, <2>2
    <2>4. QED BY <2>1, <2>3
  <1> DEFINE st == [n \in 1 .. N |-> CHOOSE k \in 1 .. 2 * N : order[k] = 2 * n - 1]
             rl == [n \in 1 .. N |-> CHOOSE k \in 1 .. 2 * N : order[k] = 2 * n]
  <1>13. \A n \in 1 .. N : /\ st[n] \in 1 .. 2 * N /\ order[st[n]] = 2 * n - 1
                           /\ rl[n] \in 1 .. 2 * N /\ order[rl[n]] = 2 * n
    <2> TAKE n \in 1 .. N
    <2>1. /\ \E k \in 1 .. 2 * N : order[k] = 2 * n - 1
          /\ \E k \in 1 .. 2 * N : order[k] = 2 * n
      BY <1>4, <1>7
    <2>2. QED BY <2>1
  <1>14. st \in [1 .. N -> 1 .. 2 * N] /\ rl \in [1 .. N -> 1 .. 2 * N]
    BY <1>13
  <1> HIDE DEF st, rl
  <1>15. ASSUME NEW n \in 1 .. N
         PROVE  /\ es[st[n]] = StartOf(notes[n]) /\ es[rl[n]] = ReleaseOf(notes[n])
                /\ st[n] < rl[n]
    <2>1. es[st[n]] = StartOf(notes[n]) /\ es[rl[n]] = ReleaseOf(notes[n])
      BY <1>4, <1>9, <1>13
    <2>2. es[st[n]].sample < es[rl[n]].sample
      BY <1>1, <2>1 DEF StartOf, ReleaseOf, Ends
    <2>3. st[n] \in 1 .. 2 * N /\ rl[n] \in 1 .. 2 * N
      BY <1>13
    <2>4. /\ es[st[n]].sample \in Nat /\ es[rl[n]].sample \in Nat
      BY <1>9, <2>3 DEF Event
    <2>5. ~(rl[n] < st[n]) /\ rl[n] # st[n]
      BY <1>10, <1>11, <2>2, <2>3, <2>4 DEF Sorted
    <2>6. QED BY <1>1, <2>1, <2>3, <2>5
  <1>16. ASSUME NEW n \in 1 .. N, NEW m \in 1 .. N, st[n] = st[m] \/ rl[n] = rl[m]
         PROVE  n = m
    <2>1. 2 * n - 1 = 2 * m - 1 \/ 2 * n = 2 * m
      BY <1>13, <1>16
    <2>2. QED BY <1>1, <2>1
  <1>17. ASSUME NEW k \in 1 .. 2 * N
         PROVE  \E n \in 1 .. N : k = st[n] \/ k = rl[n]
    <2>1. order[k] \in 1 .. 2 * N
      BY <1>7 DEF I
    <2>2. \E n \in 1 .. N : order[k] = 2 * n - 1 \/ order[k] = 2 * n
      <3>1. (order[k] + 1) \div 2 \in 1 .. N
        BY <1>1, <2>1
      <3>2. order[k] = 2 * ((order[k] + 1) \div 2) - 1 \/ order[k] = 2 * ((order[k] + 1) \div 2)
        <4>1. order[k] \in Nat
          BY <1>1, <2>1
        <4>2. QED BY <4>1, Halves
      <3>3. QED BY <3>1, <3>2
    <2>3. QED BY <1>12, <1>13, <2>2
  <1>18. Arranged(notes, es, st, rl)
    BY <1>10, <1>14, <1>15, <1>16, <1>17 DEF Arranged, N
  <1>19. QED BY <1>10, <1>11, <1>18 DEF es, N

-----------------------------------------------------------------------------
\* A piece that starts at o: where its events are, and what a sane density says.
AtOf(es, o, k) == o + es[k].sample
AccOf(es, o, k) == IF k = 0 THEN o ELSE AtOf(es, o, k)
By(es, o, x) == {k \in 1 .. Len(es) : AtOf(es, o, k) <= x}

LEMMA PlayerFacts ==
  /\ Capacity \in Nat /\ MaxDelay \in Nat /\ Horizon \in Nat /\ Refill \in Nat /\ Voices \in Nat
  /\ Refill > 0 /\ Voices > 0
  /\ Margin \in Nat /\ LeadIn \in Nat /\ WireTime \in Nat /\ Late \in Nat /\ Torn \in Nat /\ Margin < Capacity
  /\ Lead \in Nat /\ Lead >= 2 * Refill + WireTime - Late - 1 /\ Lead >= Refill + Torn /\ Lead <= Horizon
  /\ Refill + Torn < LeadIn /\ 2 * Refill + WireTime <= LeadIn + Late
  <1>1. /\ Capacity \in Nat /\ MaxDelay \in Nat /\ Horizon \in Nat /\ Refill \in Nat /\ Voices \in Nat
        /\ Refill > 0 /\ Voices > 0
        /\ Margin \in Nat /\ LeadIn \in Nat /\ WireTime \in Nat /\ Late \in Nat /\ Torn \in Nat /\ Margin < Capacity
    BY PlayerAssumption
  <1>2. QED BY <1>1, PaceAssumption DEF Lead

LEMMA EventFacts ==
  ASSUME NEW es \in Seq(Event), NEW o \in Int
  PROVE  /\ Len(es) \in Nat /\ DOMAIN es = 1 .. Len(es)
         /\ \A k \in 1 .. Len(es) : /\ es[k] \in Event
                                    /\ es[k].sample \in Nat /\ es[k].on \in BOOLEAN /\ es[k].pitch \in Nat
                                    /\ AtOf(es, o, k) \in Int /\ AtOf(es, o, k) = o + es[k].sample
                                    /\ AtOf(es, o, k) >= o
         /\ \A k \in 0 .. Len(es) : AccOf(es, o, k) \in Int
  <1>1. /\ Len(es) \in Nat /\ DOMAIN es = 1 .. Len(es)
        /\ \A k \in 1 .. Len(es) : es[k] \in Event
    BY LenProperties
  <1>2. \A e \in Event : e.sample \in Nat /\ e.on \in BOOLEAN /\ e.pitch \in Nat
    BY DEF Event
  <1>3. \A k \in 1 .. Len(es) : /\ AtOf(es, o, k) \in Int /\ AtOf(es, o, k) = o + es[k].sample
                                /\ AtOf(es, o, k) >= o
    BY <1>1, <1>2 DEF AtOf
  <1>4. \A k \in 0 .. Len(es) : AccOf(es, o, k) \in Int
    BY <1>1, <1>3 DEF AccOf
  <1>5. QED BY <1>1, <1>2, <1>3, <1>4

LEMMA InOrderOfTime ==
  ASSUME NEW es \in Seq(Event), NEW o \in Int, Sorted(es),
         NEW a \in 1 .. Len(es), NEW b \in 1 .. Len(es), a <= b
  PROVE  AtOf(es, o, a) <= AtOf(es, o, b)
  <1>1. \A k \in 1 .. Len(es) : es[k].sample \in Nat /\ AtOf(es, o, k) = o + es[k].sample
    BY EventFacts
  <1>2. Len(es) \in Nat
    BY EventFacts
  <1>3. es[a].sample <= es[b].sample
    <2>1. CASE a = b
      BY <1>1, <2>1
    <2>2. CASE a < b
      BY <2>2 DEF Sorted
    <2>3. QED BY <1>2, <2>1, <2>2
  <1>4. es[a].sample \in Nat /\ es[b].sample \in Nat
    BY <1>1
  <1>5. AtOf(es, o, a) = o + es[a].sample /\ AtOf(es, o, b) = o + es[b].sample
    BY <1>1
  <1>6. QED BY <1>3, <1>4, <1>5

\* The events up to a time are the first so many.
LEMMA TheFirst ==
  ASSUME NEW es \in Seq(Event), NEW o \in Int, Sorted(es), NEW x \in Int
  PROVE  \E p \in 0 .. Len(es) : By(es, o, x) = 1 .. p /\ Cardinality(By(es, o, x)) = p
  <1> DEFINE T == {k \in 0 .. Len(es) : \A i \in k + 1 .. Len(es) : AtOf(es, o, i) > x}
  <1>1. Len(es) \in Nat
    BY EventFacts
  <1>2. Len(es) \in T /\ T \subseteq Nat
    BY <1>1
  <1>3. PICK p \in T : \A k \in T : p <= k
    BY <1>2, LeastExists
  <1>4. p \in 0 .. Len(es) /\ \A i \in p + 1 .. Len(es) : AtOf(es, o, i) > x
    BY <1>3
  <1>5. ASSUME p > 0 PROVE AtOf(es, o, p) <= x
    <2>1. p - 1 \in 0 .. Len(es) /\ p - 1 \notin T
      <3>1. p - 1 \in 0 .. Len(es) /\ ~(p <= p - 1)
        BY <1>1, <1>4, <1>5
      <3>2. QED BY <1>3, <3>1
    <2>2. PICK i \in (p - 1) + 1 .. Len(es) : ~(AtOf(es, o, i) > x)
      BY <2>1
    <2>3. i = p
      BY <1>1, <1>4, <2>2, EventFacts
    <2>4. p \in 1 .. Len(es) /\ AtOf(es, o, p) \in Int
      <3>1. p \in 1 .. Len(es)
        BY <1>1, <1>4, <1>5
      <3>2. QED BY <3>1, EventFacts
    <2>5. QED BY <2>2, <2>3, <2>4
  <1> HIDE DEF T
  <1>6. ASSUME NEW k \in 1 .. Len(es) PROVE AtOf(es, o, k) <= x <=> k <= p
    <2>1. AtOf(es, o, k) \in Int /\ k \in Nat /\ p \in Nat
      <3>1. AtOf(es, o, k) \in Int
        BY EventFacts
      <3>2. k \in Nat /\ p \in Nat
        BY <1>1, <1>4
      <3>3. QED BY <3>1, <3>2
    <2>2. CASE k <= p
      <3>1. p \in 1 .. Len(es) /\ AtOf(es, o, p) \in Int /\ AtOf(es, o, p) <= x
        BY <1>1, <1>4, <1>5, <2>1, <2>2, EventFacts
      <3>2. AtOf(es, o, k) <= AtOf(es, o, p)
        BY <2>2, <3>1, InOrderOfTime
      <3>3. QED BY <2>1, <2>2, <3>1, <3>2
    <2>3. CASE k > p
      <3>1. k \in p + 1 .. Len(es)
        BY <1>1, <1>4, <2>1, <2>3
      <3>2. QED BY <1>4, <2>1, <2>3, <3>1
    <2>4. QED BY <2>1, <2>2, <2>3
  <1>7. By(es, o, x) = 1 .. p
    BY <1>1, <1>4, <1>6 DEF By
  <1>8. Cardinality(1 .. p) = p
    BY <1>1, <1>4, FS_Interval
  <1>9. QED BY <1>4, <1>7, <1>8

\* A stretch of events is no longer than the density allows.
LEMMA Dense ==
  ASSUME NEW es \in Seq(Event), NEW o \in Int, Sorted(es), NEW span \in Nat,
         NEW a \in 1 .. Len(es), NEW b \in 1 .. Len(es), a <= b,
         AtOf(es, o, b) < AtOf(es, o, a) + span
  PROVE  a .. b \subseteq Stretch(es, a, span)
  <1> SUFFICES ASSUME NEW j \in a .. b PROVE j \in Stretch(es, a, span)
    OBVIOUS
  <1>1. j \in 1 .. Len(es) /\ a <= j /\ j <= b /\ DOMAIN es = 1 .. Len(es)
    BY EventFacts
  <1>2. AtOf(es, o, a) <= AtOf(es, o, j) /\ AtOf(es, o, j) <= AtOf(es, o, b)
    BY <1>1, InOrderOfTime
  <1>3. /\ es[a].sample \in Nat /\ es[b].sample \in Nat /\ es[j].sample \in Nat
        /\ AtOf(es, o, a) = o + es[a].sample /\ AtOf(es, o, b) = o + es[b].sample
        /\ AtOf(es, o, j) = o + es[j].sample
    BY <1>1, EventFacts
  <1>4. es[a].sample <= es[j].sample /\ es[j].sample < es[a].sample + span
    <2> DEFINE x == es[a].sample y == es[j].sample z == es[b].sample
    <2>1. x \in Nat /\ y \in Nat /\ z \in Nat /\ o + x <= o + y /\ o + y <= o + z /\ o + z < o + x + span
      BY <1>2, <1>3
    <2> HIDE DEF x, y, z
    <2>2. x <= y /\ y < x + span
      BY <2>1
    <2>3. QED BY <2>2 DEF x, y
  <1>5. QED BY <1>1, <1>4 DEF Stretch

LEMMA StretchFinite ==
  ASSUME NEW es \in Seq(Event), NEW i \in 1 .. Len(es), NEW span \in Nat
  PROVE  /\ IsFiniteSet(Stretch(es, i, span)) /\ Cardinality(Stretch(es, i, span)) \in Nat
         /\ IsFiniteSet(Anchored(es, Stretch(es, i, span)))
         /\ Cardinality(Anchored(es, Stretch(es, i, span))) \in Nat
  <1>1. Len(es) \in Nat /\ DOMAIN es = 1 .. Len(es)
    BY LenProperties
  <1>2. Stretch(es, i, span) \in SUBSET (1 .. Len(es)) /\ IsFiniteSet(1 .. Len(es))
    BY <1>1, FS_Interval DEF Stretch
  <1>3. IsFiniteSet(Stretch(es, i, span))
    BY <1>2, FS_Subset
  <1>4. Anchored(es, Stretch(es, i, span)) \in SUBSET Stretch(es, i, span)
    BY DEF Anchored
  <1>5. IsFiniteSet(Anchored(es, Stretch(es, i, span)))
    BY <1>3, <1>4, FS_Subset
  <1>6. QED BY <1>3, <1>5, FS_CardinalityType

\* What may be wrongly taken for played is no more than the margin.
LEMMA WithinTheMargin ==
  ASSUME NEW es \in Seq(Event), NEW o \in Int, Sorted(es), SaneDensity(es),
         NEW t \in Int, NEW l \in 0 .. Len(es),
         \A k \in 1 .. Len(es) : AtOf(es, o, k) + Late < t => k <= l
  PROVE  Cardinality(By(es, o, t + Torn)) <= l + Margin
  <1>1. PICK p \in 0 .. Len(es) : By(es, o, t + Torn) = 1 .. p /\ Cardinality(By(es, o, t + Torn)) = p
    <2>1. t + Torn \in Int
      BY PlayerFacts
    <2>2. QED BY <2>1, TheFirst
  <1>2. Len(es) \in Nat /\ DOMAIN es = 1 .. Len(es)
    BY EventFacts
  <1>3. CASE p <= l
    BY <1>1, <1>2, <1>3, PlayerFacts
  <1>4. CASE p > l
    <2>1. l + 1 \in 1 .. Len(es) /\ p \in 1 .. Len(es) /\ l + 1 <= p
      BY <1>1, <1>2, <1>4
    <2>2. AtOf(es, o, p) <= t + Torn
      BY <1>1, <2>1 DEF By
    <2>3. ~(AtOf(es, o, l + 1) + Late < t)
      BY <2>1
    <2>4. AtOf(es, o, p) < AtOf(es, o, l + 1) + (Late + Torn + 1)
      <3>1. \A k \in 1 .. Len(es) : AtOf(es, o, k) \in Int
        BY EventFacts
      <3>2. AtOf(es, o, l + 1) \in Int /\ AtOf(es, o, p) \in Int /\ Late \in Nat /\ Torn \in Nat
        BY <2>1, <3>1, PlayerFacts
      <3>3. QED BY <2>2, <2>3, <3>2
    <2>4a. Late + Torn + 1 \in Nat
      BY PlayerFacts
    <2>5. l + 1 .. p \in SUBSET Stretch(es, l + 1, Late + Torn + 1)
      BY <2>1, <2>4, <2>4a, Dense
    <2>6. Cardinality(l + 1 .. p) = p - l
      <3>1. l + 1 \in Int /\ p \in Int /\ l + 1 <= p /\ p - (l + 1) + 1 = p - l
        BY <1>1, <1>2, <2>1
      <3>2. QED BY <3>1, FS_Interval
    <2>7. Cardinality(l + 1 .. p) <= Cardinality(Stretch(es, l + 1, Late + Torn + 1))
      <3>1. IsFiniteSet(Stretch(es, l + 1, Late + Torn + 1))
        BY <2>1, <2>4a, StretchFinite
      <3>2. QED BY <2>5, <3>1, FS_Subset
    <2>8. Cardinality(Stretch(es, l + 1, Late + Torn + 1)) <= Margin
      BY <1>2, <2>1 DEF SaneDensity
    <2>9. Cardinality(Stretch(es, l + 1, Late + Torn + 1)) \in Nat
      BY <2>1, <2>4a, StretchFinite
    <2>10. QED BY <1>1, <1>2, <1>4, <2>6, <2>7, <2>8, <2>9, PlayerFacts
  <1>5. QED BY <1>1, <1>2, <1>3, <1>4

\* The commands of the events in a lead are no more than the host fills the ring with.
LEMMA WithinTheRoom ==
  ASSUME NEW es \in Seq(Event), NEW o \in Int, Sorted(es), SaneDensity(es),
         NEW a \in 1 .. Len(es), NEW b \in 1 .. Len(es), a <= b,
         AtOf(es, o, b) < AtOf(es, o, a) + Lead
  PROVE  \A J \in SUBSET (a .. b) : (b - a + 1) + Cardinality(Anchored(es, J)) <= Capacity - Margin
  <1> TAKE J \in SUBSET (a .. b)
  <1> DEFINE W == Stretch(es, a, Lead)
  <1>1. a .. b \in SUBSET W
    BY Dense, PlayerFacts
  <1>2. Len(es) \in Nat /\ DOMAIN es = 1 .. Len(es)
    BY EventFacts
  <1>3. IsFiniteSet(W) /\ Cardinality(W) \in Nat /\ IsFiniteSet(Anchored(es, W)) /\ Cardinality(Anchored(es, W)) \in Nat
    BY StretchFinite, PlayerFacts
  <1>4. Cardinality(W) + Cardinality(Anchored(es, W)) <= Capacity - Margin
    BY <1>2 DEF SaneDensity
  <1> HIDE DEF W
  <1>5. Cardinality(a .. b) = b - a + 1 /\ Cardinality(a .. b) <= Cardinality(W)
    <2>1. a \in Int /\ b \in Int
      BY <1>2
    <2>2. Cardinality(a .. b) = b - a + 1
      BY <2>1, FS_Interval
    <2>3. Cardinality(a .. b) <= Cardinality(W)
      BY <1>1, <1>3, FS_Subset
    <2>4. QED BY <2>2, <2>3
  <1>6. Anchored(es, J) \in SUBSET Anchored(es, W)
    BY <1>1 DEF Anchored
  <1>7. Cardinality(Anchored(es, J)) <= Cardinality(Anchored(es, W)) /\ Cardinality(Anchored(es, J)) \in Nat
    BY <1>3, <1>6, FS_Subset, FS_CardinalityType
  <1>8. QED BY <1>2, <1>3, <1>4, <1>5, <1>7, PlayerFacts

-----------------------------------------------------------------------------
\* What commands say: after them the firmware has heard n events instead of h, and
\* its anchor is b instead of a.
OneSays(es, o, c, h, a, n, b) ==
  \/ c = Anchor(b) /\ n = h
  \/ /\ n = h + 1 /\ n <= Len(es) /\ b = AtOf(es, o, n)
     /\ c = NoteCommand(es[n], b - a)

SaysBy(es, o, w, h, a, n, b, idx, anc) ==
  /\ idx \in [0 .. Len(w) -> Nat] /\ anc \in [0 .. Len(w) -> Int]
  /\ idx[0] = h /\ anc[0] = a /\ idx[Len(w)] = n /\ anc[Len(w)] = b
  /\ \A i \in 1 .. Len(w) : OneSays(es, o, w[i], idx[i - 1], anc[i - 1], idx[i], anc[i])

Says(es, o, w, h, a, n, b) == \E idx, anc : SaysBy(es, o, w, h, a, n, b, idx, anc)

LEMMA SaysNothing ==
  ASSUME NEW es, NEW o, NEW h \in Nat, NEW a \in Int
  PROVE  Says(es, o, << >>, h, a, h, a)
  <1> DEFINE idx == [i \in 0 .. 0 |-> h]
             anc == [i \in 0 .. 0 |-> a]
  <1>1. Len(<< >>) = 0
    OBVIOUS
  <1>2. SaysBy(es, o, << >>, h, a, h, a, idx, anc)
    BY <1>1 DEF SaysBy
  <1>3. QED BY <1>2 DEF Says

LEMMA SaysOne ==
  ASSUME NEW es, NEW o, NEW c, NEW h \in Nat, NEW a \in Int, NEW n \in Nat, NEW b \in Int,
         OneSays(es, o, c, h, a, n, b)
  PROVE  Says(es, o, <<c>>, h, a, n, b)
  <1> DEFINE idx == [i \in 0 .. 1 |-> IF i = 0 THEN h ELSE n]
             anc == [i \in 0 .. 1 |-> IF i = 0 THEN a ELSE b]
  <1>1. Len(<<c>>) = 1 /\ <<c>>[1] = c
    OBVIOUS
  <1>2. /\ idx \in [0 .. 1 -> Nat] /\ anc \in [0 .. 1 -> Int]
        /\ idx[0] = h /\ anc[0] = a /\ idx[1] = n /\ anc[1] = b
    OBVIOUS
  <1> HIDE DEF idx, anc
  <1>3. SaysBy(es, o, <<c>>, h, a, n, b, idx, anc)
    <2>1. ASSUME NEW i \in 1 .. 1 PROVE OneSays(es, o, <<c>>[i], idx[i - 1], anc[i - 1], idx[i], anc[i])
      <3>1. i = 1 /\ i - 1 = 0
        OBVIOUS
      <3>2. QED BY <1>1, <1>2, <3>1
    <2>2. QED BY <1>1, <1>2, <2>1 DEF SaysBy
  <1>4. QED BY <1>3 DEF Says

LEMMA SaysMore ==
  ASSUME NEW S, NEW es, NEW o, NEW w \in Seq(S), NEW x \in Seq(S),
         NEW h, NEW a, NEW n, NEW b, NEW m, NEW c,
         Says(es, o, w, h, a, n, b), Says(es, o, x, n, b, m, c)
  PROVE  Says(es, o, w \o x, h, a, m, c)
  <1>1. PICK idx, anc : SaysBy(es, o, w, h, a, n, b, idx, anc)
    BY DEF Says
  <1>2. PICK jdx, bnc : SaysBy(es, o, x, n, b, m, c, jdx, bnc)
    BY DEF Says
  <1> DEFINE L == Len(w)
             M == Len(x)
             kdx == [i \in 0 .. L + M |-> IF i <= L THEN idx[i] ELSE jdx[i - L]]
             cnc == [i \in 0 .. L + M |-> IF i <= L THEN anc[i] ELSE bnc[i - L]]
  <1>3. /\ L \in Nat /\ M \in Nat /\ Len(w \o x) = L + M
        /\ \A i \in 1 .. L + M : (w \o x)[i] = IF i <= L THEN w[i] ELSE x[i - L]
    BY LenProperties, ConcatProperties
  <1>4. /\ idx \in [0 .. L -> Nat] /\ anc \in [0 .. L -> Int]
        /\ idx[0] = h /\ anc[0] = a /\ idx[L] = n /\ anc[L] = b
        /\ \A i \in 1 .. L : OneSays(es, o, w[i], idx[i - 1], anc[i - 1], idx[i], anc[i])
    BY <1>1 DEF SaysBy
  <1>5. /\ jdx \in [0 .. M -> Nat] /\ bnc \in [0 .. M -> Int]
        /\ jdx[0] = n /\ bnc[0] = b /\ jdx[M] = m /\ bnc[M] = c
        /\ \A i \in 1 .. M : OneSays(es, o, x[i], jdx[i - 1], bnc[i - 1], jdx[i], bnc[i])
    BY <1>2 DEF SaysBy
  <1> HIDE DEF L, M
  <1>6. kdx \in [0 .. L + M -> Nat] /\ cnc \in [0 .. L + M -> Int]
    <2>1. ASSUME NEW i \in 0 .. L + M
          PROVE  (IF i <= L THEN idx[i] ELSE jdx[i - L]) \in Nat /\ (IF i <= L THEN anc[i] ELSE bnc[i - L]) \in Int
      <3>1. CASE i <= L
        <4>1. i \in 0 .. L
          BY <1>3, <3>1
        <4>2. QED BY <1>4, <3>1, <4>1
      <3>2. CASE ~(i <= L)
        <4>1. i - L \in 0 .. M
          BY <1>3, <3>2
        <4>2. QED BY <1>5, <3>2, <4>1
      <3>3. QED BY <3>1, <3>2
    <2>2. QED BY <2>1
  <1>7. /\ \A i \in 0 .. L : kdx[i] = idx[i] /\ cnc[i] = anc[i]
        /\ \A i \in 0 .. M : kdx[L + i] = jdx[i] /\ cnc[L + i] = bnc[i]
    <2>1. ASSUME NEW i \in 0 .. L PROVE kdx[i] = idx[i] /\ cnc[i] = anc[i]
      <3>1. i \in 0 .. L + M /\ i <= L
        BY <1>3
      <3>2. QED BY <3>1
    <2>2. ASSUME NEW i \in 0 .. M PROVE kdx[L + i] = jdx[i] /\ cnc[L + i] = bnc[i]
      <3>1. L + i \in 0 .. L + M /\ (L + i) - L = i /\ (L + i <= L => i = 0 /\ L + i = L)
        BY <1>3
      <3>2. QED BY <1>4, <1>5, <3>1
    <2>3. QED BY <2>1, <2>2
  <1> HIDE DEF kdx, cnc
  <1>8. /\ kdx[0] = h /\ cnc[0] = a /\ kdx[L + M] = m /\ cnc[L + M] = c
    <2>1. 0 \in 0 .. L /\ M \in 0 .. M
      BY <1>3
    <2>2. QED BY <1>4, <1>5, <1>7, <2>1
  <1>9. ASSUME NEW i \in 1 .. L + M
        PROVE  OneSays(es, o, (w \o x)[i], kdx[i - 1], cnc[i - 1], kdx[i], cnc[i])
    <2>1. CASE i <= L
      <3>1. i \in 1 .. L /\ i \in 0 .. L /\ i - 1 \in 0 .. L
        BY <1>3, <2>1
      <3>2. (w \o x)[i] = w[i]
        BY <1>3, <2>1
      <3>3. QED BY <1>4, <1>7, <3>1, <3>2
    <2>2. CASE ~(i <= L)
      <3>1. /\ i - L \in 1 .. M /\ i - L \in 0 .. M /\ (i - L) - 1 \in 0 .. M
            /\ L + (i - L) = i /\ L + ((i - L) - 1) = i - 1
        BY <1>3, <2>2
      <3>2. (w \o x)[i] = x[i - L]
        BY <1>3, <2>2
      <3>3. /\ kdx[i] = jdx[i - L] /\ cnc[i] = bnc[i - L]
            /\ kdx[i - 1] = jdx[(i - L) - 1] /\ cnc[i - 1] = bnc[(i - L) - 1]
        BY <1>7, <3>1
      <3>4. QED BY <1>5, <3>1, <3>2, <3>3
    <2>3. QED BY <2>1, <2>2
  <1>10. SaysBy(es, o, w \o x, h, a, m, c, kdx, cnc)
    BY <1>3, <1>6, <1>8, <1>9 DEF SaysBy
  <1>11. QED BY <1>10 DEF Says

\* What is said grows.
LEMMA SaysBounds ==
  ASSUME NEW S, NEW es \in Seq(Event), NEW o, NEW w \in Seq(S), NEW h, NEW a, NEW n, NEW b,
         Says(es, o, w, h, a, n, b)
  PROVE  /\ h \in Nat /\ n \in Nat /\ h <= n /\ a \in Int /\ b \in Int
         /\ w = << >> => h = n
         /\ h <= Len(es) => n <= Len(es)
  <1>1. PICK idx, anc : SaysBy(es, o, w, h, a, n, b, idx, anc)
    BY DEF Says
  <1>2. /\ idx \in [0 .. Len(w) -> Nat] /\ anc \in [0 .. Len(w) -> Int]
        /\ idx[0] = h /\ anc[0] = a /\ idx[Len(w)] = n /\ anc[Len(w)] = b
        /\ \A i \in 1 .. Len(w) : OneSays(es, o, w[i], idx[i - 1], anc[i - 1], idx[i], anc[i])
    BY <1>1 DEF SaysBy
  <1>3. Len(w) \in Nat /\ Len(es) \in Nat
    BY LenProperties
  <1> DEFINE T == {i \in 0 .. Len(w) : h <= idx[i] /\ (h <= Len(es) => idx[i] <= Len(es))}
  <1>4. 0 \in T
    BY <1>2, <1>3
  <1>5. ASSUME NEW i \in 0 .. Len(w) - 1, i \in T PROVE i + 1 \in T
    <2>1. i + 1 \in 1 .. Len(w) /\ i + 1 \in 0 .. Len(w) /\ (i + 1) - 1 = i /\ i \in 0 .. Len(w)
      BY <1>3
    <2>2. OneSays(es, o, w[i + 1], idx[i], anc[i], idx[i + 1], anc[i + 1])
      BY <1>2, <2>1
    <2>3. idx[i + 1] = idx[i] \/ (idx[i + 1] = idx[i] + 1 /\ idx[i + 1] <= Len(es))
      BY <2>2 DEF OneSays
    <2>4. idx[i] \in Nat /\ idx[i + 1] \in Nat /\ h \in Nat
      <3>1. 0 \in 0 .. Len(w)
        BY <1>3
      <3>2. QED BY <1>2, <2>1, <3>1
    <2>5. h <= idx[i + 1] /\ (h <= Len(es) => idx[i + 1] <= Len(es))
      BY <1>3, <1>5, <2>3, <2>4
    <2>6. QED BY <2>1, <2>5
  <1>6. 0 .. Len(w) \subseteq T
    <2> HIDE DEF T
    <2>1. QED BY <1>3, <1>4, <1>5, Onward
  <1>7. Len(w) \in T
    BY <1>3, <1>6
  <1>8. h \in Nat /\ n \in Nat /\ a \in Int /\ b \in Int
    <2>1. 0 \in 0 .. Len(w) /\ Len(w) \in 0 .. Len(w)
      BY <1>3
    <2>2. idx[0] \in Nat /\ idx[Len(w)] \in Nat /\ anc[0] \in Int /\ anc[Len(w)] \in Int
      BY <1>2, <2>1
    <2>3. QED BY <1>2, <2>2
  <1>9. w = << >> => h = n
    BY <1>2
  <1>10. QED BY <1>2, <1>7, <1>8, <1>9

LEMMA SaysNoMore ==
  ASSUME NEW es, NEW o, NEW w, w = << >>, NEW h, NEW a, NEW n, NEW b, Says(es, o, w, h, a, n, b)
  PROVE  h = n
  <1>1. PICK idx, anc : SaysBy(es, o, w, h, a, n, b, idx, anc)
    BY DEF Says
  <1>2. Len(w) = 0
    OBVIOUS
  <1>3. idx[0] = h /\ idx[Len(w)] = n
    BY <1>1 DEF SaysBy
  <1>4. QED BY <1>2, <1>3

\* The first of the commands, and what the rest say.
LEMMA SaysFirst ==
  ASSUME NEW S, NEW es \in Seq(Event), NEW o, NEW w \in Seq(S), w # << >>, NEW h, NEW a, NEW n, NEW b,
         Says(es, o, w, h, a, n, b)
  PROVE  \E m \in Nat, c \in Int : OneSays(es, o, Head(w), h, a, m, c) /\ Says(es, o, Tail(w), m, c, n, b)
  <1>1. PICK idx, anc : SaysBy(es, o, w, h, a, n, b, idx, anc)
    BY DEF Says
  <1>2. /\ idx \in [0 .. Len(w) -> Nat] /\ anc \in [0 .. Len(w) -> Int]
        /\ idx[0] = h /\ anc[0] = a /\ idx[Len(w)] = n /\ anc[Len(w)] = b
        /\ \A i \in 1 .. Len(w) : OneSays(es, o, w[i], idx[i - 1], anc[i - 1], idx[i], anc[i])
    BY <1>1 DEF SaysBy
  <1>3. /\ Len(w) \in Nat /\ Len(w) > 0 /\ Head(w) = w[1] /\ Len(Tail(w)) = Len(w) - 1
        /\ \A i \in 1 .. Len(w) - 1 : Tail(w)[i] = w[i + 1]
    <2>1. Len(w) \in Nat /\ Len(w) > 0
      BY EmptySeq, LenProperties
    <2>2. Len(Tail(w)) = Len(w) - 1 /\ \A i \in 1 .. Len(Tail(w)) : Tail(w)[i] = w[i + 1]
      BY HeadTailProperties
    <2>3. QED BY <2>1, <2>2
  <1> DEFINE M == Len(w) - 1
             jdx == [i \in 0 .. M |-> idx[i + 1]]
             bnc == [i \in 0 .. M |-> anc[i + 1]]
  <1>4. M \in Nat /\ \A i \in 0 .. M : i + 1 \in 0 .. Len(w)
    BY <1>3
  <1>5. OneSays(es, o, Head(w), h, a, idx[1], anc[1])
    <2>1. 1 \in 1 .. Len(w) /\ 1 - 1 = 0
      BY <1>3
    <2>2. OneSays(es, o, w[1], idx[1 - 1], anc[1 - 1], idx[1], anc[1])
      BY <1>2, <2>1
    <2>3. QED BY <1>2, <1>3, <2>1, <2>2
  <1>6. jdx \in [0 .. M -> Nat] /\ bnc \in [0 .. M -> Int]
    BY <1>2, <1>4
  <1>7. /\ jdx[0] = idx[1] /\ bnc[0] = anc[1] /\ jdx[M] = n /\ bnc[M] = b
    <2>1. 0 \in 0 .. M /\ M \in 0 .. M /\ M + 1 = Len(w) /\ 0 + 1 = 1
      BY <1>3, <1>4
    <2>2. QED BY <1>2, <2>1
  <1>8. ASSUME NEW i \in 1 .. M
        PROVE  OneSays(es, o, Tail(w)[i], jdx[i - 1], bnc[i - 1], jdx[i], bnc[i])
    <2>1. /\ i + 1 \in 1 .. Len(w) /\ (i + 1) - 1 = i /\ i \in 0 .. M /\ i - 1 \in 0 .. M /\ (i - 1) + 1 = i
          /\ i \in 1 .. Len(w) - 1
      BY <1>3
    <2>2. OneSays(es, o, w[i + 1], idx[i], anc[i], idx[i + 1], anc[i + 1])
      BY <1>2, <2>1
    <2>3. jdx[i - 1] = idx[i] /\ bnc[i - 1] = anc[i] /\ jdx[i] = idx[i + 1] /\ bnc[i] = anc[i + 1]
      BY <2>1
    <2>4. QED BY <1>3, <2>1, <2>2, <2>3
  <1> HIDE DEF jdx, bnc, M
  <1>9. SaysBy(es, o, Tail(w), idx[1], anc[1], n, b, jdx, bnc)
    <2>1. Len(Tail(w)) = M
      BY <1>3 DEF M
    <2>2. QED BY <1>6, <1>7, <1>8, <2>1 DEF SaysBy
  <1>10. idx[1] \in Nat /\ anc[1] \in Int
    BY <1>2, <1>3
  <1>11. Says(es, o, Tail(w), idx[1], anc[1], n, b)
    BY <1>9 DEF Says
  <1>12. QED BY <1>5, <1>10, <1>11

-----------------------------------------------------------------------------
\* What a batch is: the next events as commands, and why no more of them.
Command == [op : {"at"}, sample : Int] \cup [op : {"note"}, on : BOOLEAN, pitch : Nat, delay : Int]
             \cup [op : {"set"}, name : HEADER] \cup [op : {"reset"}]

IsBatch(es, o, m, a, room, until, b) ==
  /\ b.commands \in Seq(Command) /\ b.sent \in m .. Len(es) /\ b.acc = AccOf(es, o, b.sent)
  /\ Says(es, o, b.commands, m, a, b.sent, b.acc)
  /\ Len(b.commands) = (b.sent - m) + Cardinality(Anchored(es, m + 1 .. b.sent))
  /\ b.sent = m \/ b.sent - m <= room

\* There is no event up to the k-th it could still take.
Stops(es, o, k, room, until, b) ==
  b.sent < k => Len(b.commands) >= room \/ AtOf(es, o, b.sent + 1) > until

LEMMA MoreAnchored ==
  ASSUME NEW es \in Seq(Event), NEW m \in 0 .. Len(es), NEW k \in m + 1 .. Len(es)
  PROVE  /\ Cardinality(Anchored(es, m + 1 .. k - 1)) \in Nat
         /\ Cardinality(Anchored(es, m + 1 .. k))
              = Cardinality(Anchored(es, m + 1 .. k - 1)) + (IF GapBefore(es, k) > MaxDelay THEN 1 ELSE 0)
  <1> DEFINE A == Anchored(es, m + 1 .. k - 1)
             B == Anchored(es, m + 1 .. k)
  <1>1. Len(es) \in Nat /\ m \in Nat /\ k \in Nat /\ m + 1 <= k
    BY LenProperties
  <1>2. A \in SUBSET (m + 1 .. k - 1) /\ IsFiniteSet(m + 1 .. k - 1)
    <2>1. m + 1 \in Int /\ k - 1 \in Int
      BY <1>1
    <2>2. IsFiniteSet(m + 1 .. k - 1)
      BY <2>1, FS_Interval
    <2>3. QED BY <2>2 DEF Anchored
  <1>3. IsFiniteSet(A) /\ Cardinality(A) \in Nat
    BY <1>2, FS_Subset, FS_CardinalityType
  <1>4. k \notin A
    BY <1>1, <1>2
  <1>5. m + 1 .. k = (m + 1 .. k - 1) \cup {k}
    BY <1>1
  <1>6. B = IF GapBefore(es, k) > MaxDelay THEN A \cup {k} ELSE A
    BY <1>5 DEF Anchored
  <1> HIDE DEF A, B
  <1>7. Cardinality(A \cup {k}) = Cardinality(A) + 1
    BY <1>3, <1>4, FS_AddElement
  <1>8. QED BY <1>3, <1>6, <1>7 DEF A, B

\* One event more is one command, and an anchor when its gap is too long.
LEMMA OneMore ==
  ASSUME NEW m \in 0 .. Len(events), NEW a, NEW room \in Int, NEW until \in Int, NEW b,
         events \in Seq(Event), origin \in Int,
         IsBatch(events, origin, m, a, room, until, b),
         b.sent + 1 <= Len(events), Len(b.commands) < room
  PROVE  IsBatch(events, origin, m, a, room, until, WithEvent(b, events[b.sent + 1]))
         /\ WithEvent(b, events[b.sent + 1]).sent = b.sent + 1
  <1> DEFINE k == b.sent + 1
             e == events[k]
             at == AtOf(events, origin, k)
             more == IF at - b.acc > MaxDelay THEN <<Anchor(at), NoteCommand(e, 0)>>
                                              ELSE <<NoteCommand(e, at - b.acc)>>
             c == [commands |-> b.commands \o more, acc |-> at, sent |-> k]
  <1>1. /\ Len(events) \in Nat /\ m \in Nat /\ b.sent \in m .. Len(events) /\ b.sent \in Nat
        /\ b.commands \in Seq(Command) /\ Len(b.commands) \in Nat /\ b.acc = AccOf(events, origin, b.sent)
        /\ Says(events, origin, b.commands, m, a, b.sent, b.acc)
        /\ Len(b.commands) = (b.sent - m) + Cardinality(Anchored(events, m + 1 .. b.sent))
        /\ b.sent = m \/ b.sent - m <= room
    <2>1. Len(events) \in Nat
      BY LenProperties
    <2>2. b.commands \in Seq(Command)
      BY DEF IsBatch
    <2>3. Len(b.commands) \in Nat
      BY <2>2, LenProperties
    <2>4. b.sent \in m .. Len(events) /\ b.sent \in Nat
      BY <2>1 DEF IsBatch
    <2>5. QED BY <2>1, <2>2, <2>3, <2>4 DEF IsBatch
  <1>2. k \in 1 .. Len(events) /\ k \in m + 1 .. Len(events) /\ k - 1 = b.sent /\ k \in Nat /\ b.sent \in 0 .. Len(events)
    BY <1>1
  <1>3. /\ e \in Event /\ e.on \in BOOLEAN /\ e.pitch \in Nat /\ e.sample \in Nat
        /\ at \in Int /\ at = origin + e.sample
    BY <1>2, EventFacts
  <1>4. b.acc \in Int
    BY <1>1, <1>2, EventFacts
  <1>5. GapBefore(events, k) = at - b.acc
    <2>1. CASE b.sent = 0
      <3>1. k = 1 /\ b.acc = origin
        BY <1>1, <2>1 DEF AccOf
      <3>2. QED BY <1>3, <3>1 DEF GapBefore
    <2>2. CASE b.sent # 0
      <3>1. b.sent \in 1 .. Len(events) /\ k # 1 /\ b.acc = AtOf(events, origin, b.sent)
        BY <1>1, <1>2, <2>2 DEF AccOf
      <3>2. events[b.sent].sample \in Nat /\ AtOf(events, origin, b.sent) = origin + events[b.sent].sample
        BY <3>1, EventFacts
      <3>3. GapBefore(events, k) = e.sample - events[k - 1].sample
        BY <3>1 DEF GapBefore
      <3>4. GapBefore(events, k) = e.sample - events[b.sent].sample
        BY <1>2, <3>3
      <3> DEFINE x == events[b.sent].sample y == e.sample
      <3>5. x \in Nat /\ y \in Nat /\ at = origin + y /\ b.acc = origin + x /\ GapBefore(events, k) = y - x
        BY <1>3, <3>1, <3>2, <3>4
      <3> HIDE DEF x, y
      <3>6. (origin + y) - (origin + x) = y - x
        BY <3>5
      <3>7. QED BY <3>5, <3>6
    <2>3. QED BY <2>1, <2>2
  <1>6. at = SampleOf(e)
    BY DEF SampleOf, AtOf
  <1> HIDE DEF e, at
  <1>7. /\ Anchor(at) \in Command /\ NoteCommand(e, 0) \in Command /\ NoteCommand(e, at - b.acc) \in Command
    BY <1>3, <1>4 DEF Anchor, NoteCommand, Command
  <1>8. WithEvent(b, e) = c
    <2>1. Append(b.commands, NoteCommand(e, at - b.acc)) = b.commands \o <<NoteCommand(e, at - b.acc)>>
      BY <1>1, <1>7, AppendIsConcat
    <2>2. CASE at - b.acc > MaxDelay
      BY <1>6, <2>2 DEF WithEvent
    <2>3. CASE ~(at - b.acc > MaxDelay)
      BY <1>6, <2>1, <2>3 DEF WithEvent
    <2>4. QED BY <2>2, <2>3
  <1>9. /\ more \in Seq(Command) /\ Len(more) = 1 + (IF GapBefore(events, k) > MaxDelay THEN 1 ELSE 0)
    BY <1>5, <1>7
  <1>10. at - at = 0 /\ at = AtOf(events, origin, k)
    BY <1>3 DEF at
  <1>11. Says(events, origin, more, b.sent, b.acc, k, at)
    <2>1. ASSUME NEW d \in Int PROVE OneSays(events, origin, NoteCommand(e, at - d), b.sent, d, k, at)
      BY <1>2, <1>10 DEF OneSays, e
    <2>2. CASE at - b.acc > MaxDelay
      <3>1. OneSays(events, origin, Anchor(at), b.sent, b.acc, b.sent, at)
        BY DEF OneSays
      <3>2. Says(events, origin, <<Anchor(at)>>, b.sent, b.acc, b.sent, at)
        BY <1>1, <1>3, <1>4, <3>1, SaysOne
      <3>3. OneSays(events, origin, NoteCommand(e, 0), b.sent, at, k, at)
        BY <1>3, <1>10, <2>1
      <3>4. Says(events, origin, <<NoteCommand(e, 0)>>, b.sent, at, k, at)
        BY <1>1, <1>2, <1>3, <3>3, SaysOne
      <3>5. <<Anchor(at)>> \in Seq(Command) /\ <<NoteCommand(e, 0)>> \in Seq(Command)
        BY <1>7
      <3>6. Says(events, origin, <<Anchor(at)>> \o <<NoteCommand(e, 0)>>, b.sent, b.acc, k, at)
        BY <3>2, <3>4, <3>5, SaysMore
      <3>7. more = <<Anchor(at)>> \o <<NoteCommand(e, 0)>>
        BY <2>2
      <3>8. QED BY <3>6, <3>7
    <2>3. CASE ~(at - b.acc > MaxDelay)
      <3>1. Says(events, origin, <<NoteCommand(e, at - b.acc)>>, b.sent, b.acc, k, at)
        BY <1>1, <1>2, <1>3, <1>4, <2>1, SaysOne
      <3>2. QED BY <2>3, <3>1
    <2>4. QED BY <2>2, <2>3
  <1> HIDE DEF more
  <1>12. c.commands \in Seq(Command) /\ Len(c.commands) = Len(b.commands) + Len(more)
    BY <1>1, <1>9, ConcatProperties
  <1>13. Says(events, origin, c.commands, m, a, k, at)
    BY <1>1, <1>9, <1>11, SaysMore
  <1>14. at = AccOf(events, origin, k)
    BY <1>2, <1>10 DEF AccOf
  <1>15. Len(c.commands) = (k - m) + Cardinality(Anchored(events, m + 1 .. k))
    <2>1. /\ Cardinality(Anchored(events, m + 1 .. k - 1)) \in Nat
          /\ Cardinality(Anchored(events, m + 1 .. k))
               = Cardinality(Anchored(events, m + 1 .. k - 1)) + (IF GapBefore(events, k) > MaxDelay THEN 1 ELSE 0)
      BY <1>2, MoreAnchored
    <2>2. Len(b.commands) = (b.sent - m) + Cardinality(Anchored(events, m + 1 .. k - 1))
      BY <1>1, <1>2
    <2> HIDE DEF k, c
    <2>3. k = b.sent + 1
      BY DEF k
    <2> DEFINE old == Cardinality(Anchored(events, m + 1 .. k - 1))
               gap == IF GapBefore(events, k) > MaxDelay THEN 1 ELSE 0
               had == Len(b.commands) n == b.sent
    <2>4. gap \in Nat /\ Len(c.commands) = Len(b.commands) + (1 + gap)
      BY <1>9, <1>12
    <2>5. old \in Nat /\ b.sent \in Nat /\ m \in Nat /\ Len(b.commands) = (b.sent - m) + old
          /\ Cardinality(Anchored(events, m + 1 .. k)) = old + gap
      BY <1>1, <2>1, <2>2
    <2>6. Len(c.commands) = had + (1 + gap) /\ had = (n - m) + old /\ k = n + 1
      BY <2>3, <2>4, <2>5
    <2>7. old \in Nat /\ n \in Nat /\ m \in Nat /\ gap \in Nat
      BY <2>4, <2>5
    <2> HIDE DEF old, gap, had, n
    <2>8. ((n - m) + old) + (1 + gap) = ((n + 1) - m) + (old + gap)
      BY <2>7
    <2>9. QED BY <2>5, <2>6, <2>8
  <1>16. k - m <= room
    <2>1. Cardinality(Anchored(events, m + 1 .. b.sent)) >= 0
      <3>1. IsFiniteSet(m + 1 .. b.sent)
        <4>1. m + 1 \in Int /\ b.sent \in Int
          BY <1>1
        <4>2. QED BY <4>1, FS_Interval
      <3>2. Anchored(events, m + 1 .. b.sent) \in SUBSET (m + 1 .. b.sent)
        BY DEF Anchored
      <3>3. Cardinality(Anchored(events, m + 1 .. b.sent)) \in Nat
        BY <3>1, <3>2, FS_Subset, FS_CardinalityType
      <3>4. QED BY <3>3
    <2>2. Cardinality(Anchored(events, m + 1 .. b.sent)) \in Int
      BY <1>1, <1>2, <2>1, MoreAnchored
    <2>3. QED BY <1>1, <2>1, <2>2
  <1>17. c.sent = k /\ c.acc = at /\ c.sent \in m .. Len(events)
    BY <1>2
  <1> HIDE DEF c, k
  <1>18. IsBatch(events, origin, m, a, room, until, c)
    BY <1>12, <1>13, <1>14, <1>15, <1>16, <1>17 DEF IsBatch
  <1>19. QED BY <1>8, <1>17, <1>18 DEF k, e

LEMMA BatchIs ==
  ASSUME events \in Seq(Event), origin \in Int, reading \in Int, sent \in 0 .. Len(events),
         acc = AccOf(events, origin, sent), Room \in Int
  PROVE  /\ IsBatch(events, origin, sent, acc, Room, reading + Horizon, NextBatch)
         /\ Stops(events, origin, Len(events), Room, reading + Horizon, NextBatch)
  <1> DEFINE room == Room
             until == reading + Horizon
             N == Len(events)
             Takes(b, k) == b.sent = k - 1 /\ Len(b.commands) < room /\ SampleOf(events[k]) <= until
             Step(f, k) == IF k = sent THEN [commands |-> << >>, acc |-> acc, sent |-> sent]
                           ELSE LET b == f[k - 1] IN IF Takes(b, k) THEN WithEvent(b, events[k]) ELSE b
             after == CHOOSE f : f = [k \in sent .. N |-> Step(f, k)]
  <1>1. NextBatch = after[N]
    BY DEF NextBatch
  <1>2. N \in Nat /\ sent \in Nat /\ sent <= N
    BY LenProperties
  <1>3. after = [k \in sent .. N |-> Step(after, k)]
    <2> HIDE DEF Step
    <2> DEFINE Upto(k, f) == f = [j \in sent .. k |-> Step(f, j)]
               T == {k \in sent .. N : \E f : Upto(k, f)}
    <2>1. sent \in T
      <3> DEFINE f == [j \in sent .. sent |-> [commands |-> << >>, acc |-> acc, sent |-> sent]]
      <3>1. \A g : Step(g, sent) = [commands |-> << >>, acc |-> acc, sent |-> sent]
        BY DEF Step
      <3>2. \A j \in sent .. sent : j = sent
        BY <1>2
      <3>3. Upto(sent, f)
        BY <3>1, <3>2
      <3> HIDE DEF f, Upto
      <3>4. \E g : Upto(sent, g)
        BY <3>3
      <3>5. sent \in sent .. N
        BY <1>2
      <3>6. QED BY <3>4, <3>5
    <2>2. ASSUME NEW k \in sent .. N - 1, k \in T PROVE k + 1 \in T
      <3>1. PICK f : Upto(k, f)
        BY <2>2
      <3> DEFINE g == [j \in sent .. k + 1 |-> IF j = k + 1 THEN Step(f, k + 1) ELSE f[j]]
      <3>2. ASSUME NEW j \in sent .. k + 1 PROVE g[j] = Step(g, j)
        <4>1. j = sent \/ (j - 1 \in sent .. k /\ j - 1 \in sent .. k + 1 /\ j - 1 # k + 1)
          BY <1>2
        <4>2. j # sent => g[j - 1] = f[j - 1]
          BY <4>1
        <4> HIDE DEF g
        <4>3. Step(g, j) = Step(f, j)
          BY <4>2 DEF Step
        <4>4. j # k + 1 => j \in sent .. k
          BY <1>2
        <4>5. g[j] = Step(f, j)
          BY <3>1, <4>4 DEF g
        <4>6. QED BY <4>3, <4>5
      <3>3. Upto(k + 1, g)
        BY <3>2
      <3>4. k + 1 \in sent .. N
        BY <1>2
      <3>5. QED BY <3>3, <3>4
    <2>3. sent .. N \subseteq T
      <3> HIDE DEF T
      <3>1. QED BY <1>2, <2>1, <2>2, Onward
    <2>4. N \in T
      BY <1>2, <2>3
    <2>5. \E f : f = [k \in sent .. N |-> Step(f, k)]
      BY <2>4
    <2>6. QED BY <2>5, Zenon
  <1> HIDE DEF after, room, until
  <1>4. until \in Int /\ room \in Int
    BY PlayerFacts DEF until, room
  <1> DEFINE Good(k, b) == /\ IsBatch(events, origin, sent, acc, room, until, b)
                           /\ Stops(events, origin, k, room, until, b)
                           /\ b.sent <= k
             T == {k \in sent .. N : Good(k, after[k])}
  <1>5. sent \in T
    <2> DEFINE b == [commands |-> << >>, acc |-> acc, sent |-> sent]
    <2>1. after[sent] = b
      BY <1>2, <1>3
    <2>2. acc \in Int
      BY EventFacts
    <2>3. b.commands = << >> /\ b.acc = acc /\ b.sent = sent
      OBVIOUS
    <2> HIDE DEF b
    <2>4. Says(events, origin, b.commands, sent, acc, b.sent, b.acc)
      BY <1>2, <2>2, <2>3, SaysNothing
    <2>5. Cardinality(Anchored(events, sent + 1 .. b.sent)) = 0
      <3>1. Anchored(events, sent + 1 .. b.sent) = {}
        BY <1>2, <2>3 DEF Anchored
      <3>2. QED BY <3>1, FS_EmptySet
    <2>6. b.commands \in Seq(Command) /\ Len(b.commands) = 0
      BY <2>3, EmptySeq
    <2>7. IsBatch(events, origin, sent, acc, room, until, b)
      BY <1>2, <2>3, <2>4, <2>5, <2>6 DEF IsBatch
    <2>8. Stops(events, origin, sent, room, until, b) /\ b.sent <= sent
      BY <1>2, <2>3 DEF Stops
    <2>9. Good(sent, after[sent])
      BY <2>1, <2>7, <2>8
    <2>10. sent \in sent .. N
      BY <1>2
    <2> HIDE DEF Good
    <2>11. QED BY <2>9, <2>10
  <1>6. ASSUME NEW k \in sent .. N - 1, k \in T PROVE k + 1 \in T
    <2> DEFINE b == after[k]
               c == after[k + 1]
    <2>1. /\ k + 1 \in sent .. N /\ k + 1 # sent /\ (k + 1) - 1 = k /\ k \in sent .. N /\ k \in Nat
      BY <1>2
    <2>2. c = IF Takes(b, k + 1) THEN WithEvent(b, events[k + 1]) ELSE b
      BY <1>3, <2>1
    <2>3. Good(k, b)
      BY <1>6
    <2> HIDE DEF b, c
    <2>4. b.sent \in sent .. N /\ b.sent <= k /\ Len(b.commands) \in Nat /\ b.sent \in Nat
      <3>1. b.sent \in sent .. N /\ b.sent <= k /\ b.commands \in Seq(Command)
        BY <2>3 DEF IsBatch
      <3>2. Len(b.commands) \in Nat
        BY <3>1, LenProperties
      <3>3. QED BY <1>2, <3>1, <3>2
    <2>5. CASE Takes(b, k + 1)
      <3>1. b.sent = k /\ Len(b.commands) < room /\ c = WithEvent(b, events[k + 1])
        BY <2>1, <2>2, <2>5
      <3>2. b.sent + 1 = k + 1 /\ b.sent + 1 <= N
        BY <1>2, <2>1, <3>1
      <3>3. IsBatch(events, origin, sent, acc, room, until, c) /\ c.sent = k + 1
        BY <1>4, <2>3, <3>1, <3>2, OneMore
      <3>4. Stops(events, origin, k + 1, room, until, c) /\ c.sent <= k + 1
        BY <2>1, <3>3 DEF Stops
      <3>5. QED BY <2>1, <3>3, <3>4 DEF c
    <2>6. CASE ~Takes(b, k + 1)
      <3>1. c = b
        BY <2>2, <2>6
      <3>2. Stops(events, origin, k + 1, room, until, b)
        <4>1. CASE b.sent < k
          BY <2>3, <4>1 DEF Stops
        <4>2. CASE b.sent = k
          <5>1. k + 1 \in 1 .. N
            BY <1>2, <2>1
          <5>2. AtOf(events, origin, k + 1) = SampleOf(events[k + 1]) /\ AtOf(events, origin, k + 1) \in Int
            BY <5>1, EventFacts DEF SampleOf, AtOf
          <5>3. ~(Len(b.commands) < room) \/ ~(SampleOf(events[k + 1]) <= until)
            BY <2>1, <2>6, <4>2
          <5>4. Len(b.commands) >= room \/ AtOf(events, origin, k + 1) > until
            BY <1>4, <2>4, <5>2, <5>3
          <5>5. QED BY <4>2, <5>4 DEF Stops
        <4>3. QED BY <2>1, <2>4, <4>1, <4>2
      <3>3. b.sent <= k + 1
        BY <2>1, <2>4
      <3>4. QED BY <2>1, <2>3, <3>1, <3>2, <3>3 DEF c
    <2>7. QED BY <2>5, <2>6
  <1>7. N \in T
    <2> HIDE DEF T
    <2>1. sent .. N \subseteq T
      BY <1>2, <1>5, <1>6, Onward
    <2>2. QED BY <1>2, <2>1
  <1>8. QED BY <1>1, <1>7 DEF room, until

-----------------------------------------------------------------------------
\* The notes that sound once l events have landed, and the voices that sound them.
Playing(st, rl, l) == {n \in DOMAIN st : st[n] <= l /\ l < rl[n]}
Of(notes, N, p) == {n \in N : notes[n].pitch = p}
At(s, p) == {i \in DOMAIN s : s[i] = p}
Sound(s, notes, st, rl, l) ==
  /\ s \in Seq(Nat) /\ Len(s) = Cardinality(Playing(st, rl, l))
  /\ \A p : Cardinality(At(s, p)) = Cardinality(Of(notes, Playing(st, rl, l), p))

LEMMA ArrangedFacts ==
  ASSUME NEW notes \in Seq(NoteLine), NEW es \in Seq(Event), NEW st, NEW rl, Arranged(notes, es, st, rl)
  PROVE  /\ Len(notes) \in Nat /\ Len(es) \in Nat /\ DOMAIN st = 1 .. Len(notes) /\ DOMAIN notes = 1 .. Len(notes)
         /\ \A n \in 1 .. Len(notes) :
              /\ notes[n] \in NoteLine /\ notes[n].time \in Nat /\ Ends(notes[n]) \in Nat /\ notes[n].pitch \in Nat
              /\ st[n] \in 1 .. Len(es) /\ rl[n] \in 1 .. Len(es) /\ st[n] \in Nat /\ rl[n] \in Nat /\ st[n] < rl[n]
              /\ es[st[n]].sample = notes[n].time /\ es[st[n]].on /\ es[st[n]].pitch = notes[n].pitch
              /\ es[rl[n]].sample = Ends(notes[n]) /\ ~es[rl[n]].on /\ es[rl[n]].pitch = notes[n].pitch
         /\ \A n, m \in 1 .. Len(notes) : (st[n] = st[m] \/ rl[n] = rl[m]) => n = m
         /\ \A k \in 1 .. Len(es) : \E n \in 1 .. Len(notes) : k = st[n] \/ k = rl[n]
  <1>1. /\ Len(notes) \in Nat /\ Len(es) \in Nat /\ DOMAIN notes = 1 .. Len(notes)
        /\ \A n \in 1 .. Len(notes) : notes[n] \in NoteLine
    BY LenProperties
  <1>2. \A note \in NoteLine : note.time \in Nat /\ Ends(note) \in Nat /\ note.pitch \in Nat
    BY DEF NoteLine, Ends
  <1>3. DOMAIN st = 1 .. Len(notes)
    BY DEF Arranged
  <1>4. \A note : /\ StartOf(note).sample = note.time /\ StartOf(note).on /\ StartOf(note).pitch = note.pitch
                  /\ ReleaseOf(note).sample = Ends(note) /\ ~ReleaseOf(note).on /\ ReleaseOf(note).pitch = note.pitch
    BY DEF StartOf, ReleaseOf
  <1>5. ASSUME NEW n \in 1 .. Len(notes)
        PROVE  /\ st[n] \in 1 .. Len(es) /\ rl[n] \in 1 .. Len(es) /\ st[n] \in Nat /\ rl[n] \in Nat /\ st[n] < rl[n]
               /\ es[st[n]] = StartOf(notes[n]) /\ es[rl[n]] = ReleaseOf(notes[n])
    BY <1>1 DEF Arranged
  <1>6. /\ \A n, m \in 1 .. Len(notes) : (st[n] = st[m] \/ rl[n] = rl[m]) => n = m
        /\ \A k \in 1 .. Len(es) : \E n \in 1 .. Len(notes) : k = st[n] \/ k = rl[n]
    BY DEF Arranged
  <1>7. ASSUME NEW n \in 1 .. Len(notes)
        PROVE  /\ notes[n] \in NoteLine /\ notes[n].time \in Nat /\ Ends(notes[n]) \in Nat /\ notes[n].pitch \in Nat
               /\ es[st[n]].sample = notes[n].time /\ es[st[n]].on /\ es[st[n]].pitch = notes[n].pitch
               /\ es[rl[n]].sample = Ends(notes[n]) /\ ~es[rl[n]].on /\ es[rl[n]].pitch = notes[n].pitch
    BY <1>1, <1>2, <1>4, <1>5
  <1>8. QED BY <1>1, <1>3, <1>5, <1>6, <1>7

\* A start takes in its note and no other, a release lets go of its own.
TakesIn(notes, es, st, rl, l, n) ==
  /\ n \in 1 .. Len(notes) /\ st[n] = l + 1 /\ notes[n].pitch = es[l + 1].pitch
  /\ n \notin Playing(st, rl, l) /\ Playing(st, rl, l + 1) = Playing(st, rl, l) \cup {n}

LetsGo(notes, es, st, rl, l, n) ==
  /\ n \in 1 .. Len(notes) /\ notes[n].pitch = es[l + 1].pitch
  /\ n \in Playing(st, rl, l) /\ Playing(st, rl, l + 1) = Playing(st, rl, l) \ {n}

LEMMA StartTakes ==
  ASSUME NEW notes \in Seq(NoteLine), NEW es \in Seq(Event), NEW st, NEW rl, Arranged(notes, es, st, rl),
         NEW l \in 0 .. Len(es) - 1, es[l + 1].on
  PROVE  \E n : TakesIn(notes, es, st, rl, l, n)
  <1>1. l \in Nat /\ l + 1 \in 1 .. Len(es)
    BY ArrangedFacts
  <1>2. PICK n \in 1 .. Len(notes) : l + 1 = st[n]
    <2>1. \E n \in 1 .. Len(notes) : l + 1 = st[n] \/ l + 1 = rl[n]
      BY <1>1, ArrangedFacts
    <2>2. \A n \in 1 .. Len(notes) : l + 1 # rl[n]
      BY ArrangedFacts
    <2>3. QED BY <2>1, <2>2
  <1>3. ASSUME NEW m \in 1 .. Len(notes), m # n
        PROVE  (st[m] <= l + 1 /\ l + 1 < rl[m]) <=> (st[m] <= l /\ l < rl[m])
    <2>1. st[m] # l + 1 /\ rl[m] # l + 1
      BY <1>2, <1>3, ArrangedFacts
    <2>2. st[m] \in Nat /\ rl[m] \in Nat
      BY ArrangedFacts
    <2>3. QED BY <1>1, <2>1, <2>2
  <1>4. ~(st[n] <= l) /\ st[n] <= l + 1 /\ l + 1 < rl[n]
    <2>1. st[n] < rl[n] /\ rl[n] \in Nat
      BY ArrangedFacts
    <2>2. QED BY <1>1, <1>2, <2>1
  <1>5. DOMAIN st = 1 .. Len(notes)
    BY ArrangedFacts
  <1>6. n \notin Playing(st, rl, l) /\ Playing(st, rl, l + 1) = Playing(st, rl, l) \cup {n}
    BY <1>3, <1>4, <1>5 DEF Playing
  <1>7. notes[n].pitch = es[l + 1].pitch
    BY <1>2, ArrangedFacts
  <1>8. QED BY <1>2, <1>6, <1>7 DEF TakesIn

LEMMA ReleaseGives ==
  ASSUME NEW notes \in Seq(NoteLine), NEW es \in Seq(Event), NEW st, NEW rl, Arranged(notes, es, st, rl),
         NEW l \in 0 .. Len(es) - 1, ~es[l + 1].on
  PROVE  \E n : LetsGo(notes, es, st, rl, l, n)
  <1>1. l \in Nat /\ l + 1 \in 1 .. Len(es)
    BY ArrangedFacts
  <1>2. PICK n \in 1 .. Len(notes) : l + 1 = rl[n]
    <2>1. \E n \in 1 .. Len(notes) : l + 1 = st[n] \/ l + 1 = rl[n]
      BY <1>1, ArrangedFacts
    <2>2. \A n \in 1 .. Len(notes) : l + 1 # st[n]
      BY ArrangedFacts
    <2>3. QED BY <2>1, <2>2
  <1>3. ASSUME NEW m \in 1 .. Len(notes), m # n
        PROVE  (st[m] <= l + 1 /\ l + 1 < rl[m]) <=> (st[m] <= l /\ l < rl[m])
    <2>1. rl[m] # l + 1
      BY <1>2, <1>3, ArrangedFacts
    <2>2. es[st[m]].on
      BY ArrangedFacts
    <2>3. st[m] # l + 1
      BY <2>2
    <2>4. st[m] \in Nat /\ rl[m] \in Nat
      BY ArrangedFacts
    <2>5. QED BY <1>1, <2>1, <2>3, <2>4
  <1>4. st[n] <= l /\ l < rl[n] /\ ~(l + 1 < rl[n])
    <2>1. st[n] < rl[n] /\ rl[n] \in Nat /\ st[n] \in Nat
      BY ArrangedFacts
    <2>2. QED BY <1>1, <1>2, <2>1
  <1>5. DOMAIN st = 1 .. Len(notes)
    BY ArrangedFacts
  <1>6. n \in Playing(st, rl, l) /\ Playing(st, rl, l + 1) = Playing(st, rl, l) \ {n}
    BY <1>3, <1>4, <1>5 DEF Playing
  <1>7. notes[n].pitch = es[l + 1].pitch
    BY <1>2, ArrangedFacts
  <1>8. QED BY <1>6, <1>7 DEF LetsGo

\* What plays after a start is held when it starts, so there is a voice for it.
LEMMA HeldAtStart ==
  ASSUME NEW notes \in Seq(NoteLine), NEW es \in Seq(Event), NEW st, NEW rl, Arranged(notes, es, st, rl), Sorted(es),
         NEW n \in 1 .. Len(notes)
  PROVE  Playing(st, rl, st[n]) \subseteq Held(notes, notes[n].time)
  <1> SUFFICES ASSUME NEW m \in Playing(st, rl, st[n]) PROVE m \in Held(notes, notes[n].time)
    OBVIOUS
  <1>1. m \in 1 .. Len(notes) /\ st[m] <= st[n] /\ st[n] < rl[m] /\ DOMAIN notes = 1 .. Len(notes)
    BY ArrangedFacts DEF Playing
  <1>2. /\ st[m] \in 1 .. Len(es) /\ st[n] \in 1 .. Len(es) /\ rl[m] \in 1 .. Len(es)
        /\ st[m] \in Nat /\ st[n] \in Nat /\ rl[m] \in Nat
        /\ es[st[m]].sample = notes[m].time /\ es[st[n]].sample = notes[n].time /\ es[rl[m]].sample = Ends(notes[m])
        /\ es[st[n]].on /\ ~es[rl[m]].on
        /\ notes[m].time \in Nat /\ notes[n].time \in Nat /\ Ends(notes[m]) \in Nat
    <2>1. \A i \in 1 .. Len(notes) :
             /\ notes[i].time \in Nat /\ Ends(notes[i]) \in Nat
             /\ st[i] \in 1 .. Len(es) /\ rl[i] \in 1 .. Len(es) /\ st[i] \in Nat /\ rl[i] \in Nat
             /\ es[st[i]].sample = notes[i].time /\ es[st[i]].on
             /\ es[rl[i]].sample = Ends(notes[i]) /\ ~es[rl[i]].on
      BY ArrangedFacts
    <2>2. QED BY <1>1, <2>1
  <1>3. notes[m].time <= notes[n].time
    <2>1. CASE st[m] = st[n]
      BY <1>2, <2>1
    <2>2. CASE st[m] < st[n]
      BY <1>2, <2>2 DEF Sorted
    <2>3. QED BY <1>1, <1>2, <2>1, <2>2
  <1>4. notes[n].time <= Ends(notes[m]) /\ notes[n].time # Ends(notes[m])
    BY <1>1, <1>2 DEF Sorted
  <1>5. notes[n].time < Ends(notes[m])
    BY <1>2, <1>4
  <1>6. QED BY <1>1, <1>3, <1>5 DEF Held

LEMMA OfFinite ==
  ASSUME NEW notes \in Seq(NoteLine), NEW es \in Seq(Event), NEW st, NEW rl, Arranged(notes, es, st, rl), NEW l
  PROVE  /\ IsFiniteSet(Playing(st, rl, l)) /\ Cardinality(Playing(st, rl, l)) \in Nat
         /\ \A p : IsFiniteSet(Of(notes, Playing(st, rl, l), p)) /\ Cardinality(Of(notes, Playing(st, rl, l), p)) \in Nat
  <1>1. Playing(st, rl, l) \in SUBSET (1 .. Len(notes)) /\ Len(notes) \in Nat
    BY ArrangedFacts DEF Playing
  <1>2. IsFiniteSet(1 .. Len(notes))
    BY <1>1, FS_Interval
  <1>3. IsFiniteSet(Playing(st, rl, l))
    BY <1>1, <1>2, FS_Subset
  <1>4. \A p : Of(notes, Playing(st, rl, l), p) \in SUBSET Playing(st, rl, l)
    BY DEF Of
  <1>5. \A p : IsFiniteSet(Of(notes, Playing(st, rl, l), p))
    BY <1>3, <1>4, FS_Subset
  <1>6. QED BY <1>3, <1>5, FS_CardinalityType

LEMMA AtFinite ==
  ASSUME NEW s \in Seq(Nat), NEW p
  PROVE  IsFiniteSet(At(s, p)) /\ Cardinality(At(s, p)) \in Nat /\ At(s, p) \subseteq 1 .. Len(s)
  <1>1. At(s, p) \in SUBSET (1 .. Len(s)) /\ Len(s) \in Nat
    BY LenProperties DEF At
  <1>2. IsFiniteSet(1 .. Len(s))
    BY <1>1, FS_Interval
  <1>3. IsFiniteSet(At(s, p))
    BY <1>1, <1>2, FS_Subset
  <1>4. QED BY <1>1, <1>3, FS_CardinalityType

\* A start lands: a voice is free for it.
LEMMA StartSounds ==
  ASSUME NEW notes \in Seq(NoteLine), NEW es \in Seq(Event), NEW st, NEW rl, Arranged(notes, es, st, rl), Sorted(es),
         SaneNotes(notes), NEW l \in 0 .. Len(es) - 1, es[l + 1].on, NEW s, Sound(s, notes, st, rl, l)
  PROVE  Len(s) # Voices /\ Sound(Append(s, es[l + 1].pitch), notes, st, rl, l + 1)
  <1> DEFINE e == es[l + 1].pitch
             P == Playing(st, rl, l)
             Q == Playing(st, rl, l + 1)
  <1>1. PICK n \in 1 .. Len(notes) : /\ n \notin P /\ Q = P \cup {n} /\ st[n] = l + 1 /\ notes[n].pitch = e
    <2>1. PICK n : TakesIn(notes, es, st, rl, l, n)
      BY StartTakes
    <2>2. QED BY <2>1 DEF TakesIn
  <1>2. IsFiniteSet(P) /\ Cardinality(P) \in Nat
    BY OfFinite
  <1>3. Cardinality(Q) <= Voices
    <2>1. Q \in SUBSET Held(notes, notes[n].time)
      BY <1>1, HeldAtStart
    <2>2. DOMAIN notes = 1 .. Len(notes) /\ Len(notes) \in Nat
      BY ArrangedFacts
    <2>3. IsFiniteSet(1 .. Len(notes)) /\ Held(notes, notes[n].time) \in SUBSET (1 .. Len(notes))
      BY <2>2, FS_Interval DEF Held
    <2>4. IsFiniteSet(Held(notes, notes[n].time))
      BY <2>3, FS_Subset
    <2>5. Cardinality(Q) <= Cardinality(Held(notes, notes[n].time))
      BY <2>1, <2>4, FS_Subset
    <2>6. Cardinality(Held(notes, notes[n].time)) <= Voices
      BY <2>2 DEF SaneNotes
    <2>7. Cardinality(Held(notes, notes[n].time)) \in Nat /\ Cardinality(Q) \in Nat
      BY <2>4, FS_CardinalityType, OfFinite
    <2>8. QED BY <2>5, <2>6, <2>7, PlayerFacts
  <1>4. \A p : Of(notes, Q, p) = IF p = e THEN Of(notes, P, p) \cup {n} ELSE Of(notes, P, p)
    BY <1>1 DEF Of
  <1>5. \A p : n \notin Of(notes, P, p)
    BY <1>1 DEF Of
  <1>6. \A p : IsFiniteSet(Of(notes, P, p)) /\ Cardinality(Of(notes, P, p)) \in Nat
    BY OfFinite
  <1>7. s \in Seq(Nat) /\ Len(s) = Cardinality(P) /\ \A p : Cardinality(At(s, p)) = Cardinality(Of(notes, P, p))
    BY DEF Sound
  <1>8. e \in Nat /\ Len(s) \in Nat
    BY <1>1, <1>7, ArrangedFacts, LenProperties
  <1> HIDE DEF P, Q, e
  <1>9. Cardinality(Q) = Cardinality(P) + 1
    BY <1>1, <1>2, FS_AddElement
  <1>10. /\ Append(s, e) \in Seq(Nat) /\ Len(Append(s, e)) = Len(s) + 1
         /\ \A i \in 1 .. Len(s) : Append(s, e)[i] = s[i]
         /\ Append(s, e)[Len(s) + 1] = e
    BY <1>7, <1>8, AppendProperties
  <1>11. ASSUME NEW p PROVE Cardinality(At(Append(s, e), p)) = Cardinality(Of(notes, Q, p))
    <2>1. DOMAIN Append(s, e) = (1 .. Len(s)) \cup {Len(s) + 1} /\ DOMAIN s = 1 .. Len(s) /\ Len(s) + 1 \notin 1 .. Len(s)
      <3>1. DOMAIN Append(s, e) = 1 .. Len(s) + 1 /\ DOMAIN s = 1 .. Len(s)
        BY <1>7, <1>10, LenProperties
      <3>2. QED BY <1>8, <3>1
    <2>2. At(Append(s, e), p) = IF p = e THEN At(s, p) \cup {Len(s) + 1} ELSE At(s, p)
      BY <1>10, <2>1 DEF At
    <2>3. IsFiniteSet(At(s, p)) /\ Len(s) + 1 \notin At(s, p)
      BY <1>7, <2>1, AtFinite
    <2>4. CASE p = e
      <3>1. Cardinality(At(Append(s, e), p)) = Cardinality(At(s, p)) + 1
        BY <2>2, <2>3, <2>4, FS_AddElement
      <3>2. Cardinality(Of(notes, Q, p)) = Cardinality(Of(notes, P, p)) + 1
        BY <1>4, <1>5, <1>6, <2>4, FS_AddElement
      <3>3. QED BY <1>7, <3>1, <3>2
    <2>5. CASE p # e
      BY <1>4, <1>7, <2>2, <2>5
    <2>6. QED BY <2>4, <2>5
  <1>12. Len(s) # Voices
    BY <1>2, <1>3, <1>7, <1>9, PlayerFacts
  <1>13. QED BY <1>7, <1>9, <1>10, <1>11, <1>12 DEF Sound, Q, e

\* A sequence with one of its members taken out.
LEMMA Without ==
  ASSUME NEW s \in Seq(Nat), NEW e, \E i \in 1 .. Len(s) : s[i] = e
  PROVE  /\ RemoveFirst(s, e) \in Seq(Nat) /\ Len(RemoveFirst(s, e)) = Len(s) - 1
         /\ \A p : Cardinality(At(s, p)) = Cardinality(At(RemoveFirst(s, e), p)) + (IF p = e THEN 1 ELSE 0)
  <1> DEFINE I == {i \in 1 .. Len(s) : s[i] = e}
             j == CHOOSE x \in I : \A y \in I : x <= y
             r == RemoveFirst(s, e)
             L == Len(s)
  <1>1. L \in Nat /\ DOMAIN s = 1 .. L /\ \A i \in 1 .. L : s[i] \in Nat
    BY LenProperties
  <1>2. j \in I
    <2>1. I # {} /\ I \subseteq Nat
      BY <1>1
    <2>2. \E x \in I : \A y \in I : x <= y
      BY <2>1, LeastExists
    <2>3. QED BY <2>2
  <1>3. r = SubSeq(s, 1, j - 1) \o SubSeq(s, j + 1, L)
    <2>1. I # {} /\ \E i \in 1 .. Len(s) : s[i] = e
      OBVIOUS
    <2>2. SelectInSeq(s, LAMBDA v : v = e) = j
      BY <2>1 DEF SelectInSeq, Min
    <2>3. QED BY <2>1, <2>2 DEF RemoveFirst, RemoveAt
  <1>4. j \in 1 .. L /\ s[j] = e
    BY <1>2
  <1> HIDE DEF I, j, r
  <1>5. /\ SubSeq(s, 1, j - 1) \in Seq(Nat) /\ Len(SubSeq(s, 1, j - 1)) = j - 1
        /\ \A i \in 1 .. j - 1 : SubSeq(s, 1, j - 1)[i] = s[i]
    <2>1. j - 1 \in Int /\ 1 \in Int /\ \A i \in 1 .. j - 1 : s[i] \in Nat
      BY <1>1, <1>4
    <2>2. /\ SubSeq(s, 1, j - 1) \in Seq(Nat)
          /\ Len(SubSeq(s, 1, j - 1)) = IF 1 <= j - 1 THEN (j - 1) - 1 + 1 ELSE 0
          /\ \A i \in 1 .. (j - 1) - 1 + 1 : SubSeq(s, 1, j - 1)[i] = s[1 + i - 1]
      BY <2>1, SubSeqProperties
    <2>3. QED BY <1>1, <1>4, <2>2
  <1>6. /\ SubSeq(s, j + 1, L) \in Seq(Nat) /\ Len(SubSeq(s, j + 1, L)) = L - j
        /\ \A i \in 1 .. L - j : SubSeq(s, j + 1, L)[i] = s[j + i]
    <2>1. j + 1 \in Int /\ L \in Int /\ \A i \in j + 1 .. L : s[i] \in Nat
      BY <1>1, <1>4
    <2>2. /\ SubSeq(s, j + 1, L) \in Seq(Nat)
          /\ Len(SubSeq(s, j + 1, L)) = IF j + 1 <= L THEN L - (j + 1) + 1 ELSE 0
          /\ \A i \in 1 .. L - (j + 1) + 1 : SubSeq(s, j + 1, L)[i] = s[(j + 1) + i - 1]
      BY <2>1, SubSeqProperties
    <2>3. L - (j + 1) + 1 = L - j /\ \A i \in 1 .. L - j : (j + 1) + i - 1 = j + i
      BY <1>1, <1>4
    <2>4. Len(SubSeq(s, j + 1, L)) = L - j
      <3> HIDE DEF L
      <3>1. j \in Nat /\ j <= L /\ L \in Nat
        BY <1>1, <1>4
      <3>2. CASE j + 1 <= L
        <4>1. Len(SubSeq(s, j + 1, L)) = L - (j + 1) + 1
          BY <2>2, <3>2
        <4>2. QED BY <1>1, <3>1, <4>1
      <3>3. CASE ~(j + 1 <= L)
        <4>1. Len(SubSeq(s, j + 1, L)) = 0
          BY <2>2, <3>3
        <4>2. L - j = 0
          BY <1>1, <3>1, <3>3
        <4>3. QED BY <4>1, <4>2
      <3>4. QED BY <3>2, <3>3
    <2>5. QED BY <2>2, <2>3, <2>4
  <1> DEFINE from(i) == IF i < j THEN i ELSE i + 1
  <1>7. /\ r \in Seq(Nat) /\ Len(r) = L - 1 /\ DOMAIN r = 1 .. L - 1
        /\ \A i \in 1 .. L - 1 : r[i] = s[from(i)]
    <2>1. /\ r \in Seq(Nat) /\ Len(r) = (j - 1) + (L - j)
          /\ \A i \in 1 .. (j - 1) + (L - j) :
               r[i] = IF i <= j - 1 THEN SubSeq(s, 1, j - 1)[i] ELSE SubSeq(s, j + 1, L)[i - (j - 1)]
      <3> DEFINE x == SubSeq(s, 1, j - 1) y == SubSeq(s, j + 1, L)
      <3>1. x \in Seq(Nat) /\ y \in Seq(Nat) /\ Len(x) = j - 1 /\ Len(y) = L - j /\ r = x \o y
        BY <1>3, <1>5, <1>6
      <3> HIDE DEF x, y
      <3>2. /\ x \o y \in Seq(Nat) /\ Len(x \o y) = Len(x) + Len(y)
            /\ \A i \in 1 .. Len(x) + Len(y) : (x \o y)[i] = IF i <= Len(x) THEN x[i] ELSE y[i - Len(x)]
        BY <3>1, ConcatProperties
      <3>3. QED BY <3>1, <3>2 DEF x, y
    <2>2. (j - 1) + (L - j) = L - 1
      BY <1>1, <1>4
    <2>3. ASSUME NEW i \in 1 .. L - 1 PROVE r[i] = s[from(i)]
      <3>1. CASE i < j
        <4>1. i <= j - 1 /\ i \in 1 .. j - 1
          BY <1>1, <1>4, <3>1
        <4>2. QED BY <1>5, <2>1, <2>2, <3>1, <4>1
      <3>2. CASE ~(i < j)
        <4>1. ~(i <= j - 1) /\ i - (j - 1) \in 1 .. L - j /\ j + (i - (j - 1)) = i + 1
          BY <1>1, <1>4, <3>2
        <4>2. QED BY <1>6, <2>1, <2>2, <3>2, <4>1
      <3>3. QED BY <3>1, <3>2
    <2>4. QED BY <2>1, <2>2, <2>3, LenProperties
  <1>8. /\ \A i \in 1 .. L - 1 : from(i) \in 1 .. L /\ from(i) # j
        /\ \A i, k \in 1 .. L - 1 : from(i) = from(k) => i = k
        /\ \A i \in 1 .. L : i # j => \E k \in 1 .. L - 1 : from(k) = i
    <2>1. \A i \in 1 .. L - 1 : from(i) \in 1 .. L /\ from(i) # j
      BY <1>1, <1>4
    <2>2. ASSUME NEW i \in 1 .. L - 1, NEW k \in 1 .. L - 1, from(i) = from(k) PROVE i = k
      <3>1. i \in Nat /\ k \in Nat /\ j \in Nat
        BY <1>1, <1>4
      <3>2. CASE i < j
        BY <2>2, <3>1, <3>2
      <3>3. CASE ~(i < j)
        BY <2>2, <3>1, <3>3
      <3>4. QED BY <3>2, <3>3
    <2>3. ASSUME NEW i \in 1 .. L, i # j PROVE \E k \in 1 .. L - 1 : from(k) = i
      <3>1. CASE i < j
        <4>1. i \in 1 .. L - 1 /\ from(i) = i
          BY <1>1, <1>4, <3>1
        <4>2. QED BY <4>1
      <3>2. CASE i > j
        <4>1. i - 1 \in 1 .. L - 1 /\ from(i - 1) = i
          BY <1>1, <1>4, <3>2
        <4>2. QED BY <4>1
      <3>3. QED BY <1>1, <1>4, <2>3, <3>1, <3>2
    <2>4. QED BY <2>1, <2>2, <2>3
  <1> HIDE DEF from, L
  <1>9. ASSUME NEW p
        PROVE  Cardinality(At(s, p)) = Cardinality(At(r, p)) + (IF p = e THEN 1 ELSE 0)
    <2> DEFINE A == At(r, p)
               B == At(s, p) \ {j}
               f == [i \in A |-> from(i)]
    <2>1. A = {i \in 1 .. L - 1 : r[i] = p} /\ B = {i \in 1 .. L : s[i] = p /\ i # j}
      BY <1>1, <1>7 DEF At
    <2>2. IsFiniteSet(A) /\ IsFiniteSet(At(s, p))
      BY <1>7, AtFinite
    <2>3. IsFiniteSet(B)
      BY <2>2, FS_RemoveElement
    <2>4. f \in [A -> B]
      <3>1. \A i \in A : from(i) \in B
        BY <1>7, <1>8, <2>1
      <3>2. QED BY <3>1
    <2>5. \A i, k \in A : f[i] = f[k] => i = k
      BY <1>8, <2>1
    <2>6. \A i \in B : \E k \in A : f[k] = i
      <3> SUFFICES ASSUME NEW i \in B PROVE \E k \in A : f[k] = i
        OBVIOUS
      <3>1. i \in 1 .. L /\ s[i] = p /\ i # j
        BY <2>1
      <3>2. PICK k \in 1 .. L - 1 : from(k) = i
        BY <1>8, <3>1
      <3>3. k \in A
        BY <1>7, <2>1, <3>1, <3>2
      <3>4. QED BY <3>2, <3>3
    <2> HIDE DEF A, B, f
    <2>7. f \in Bijection(A, B)
      BY <2>4, <2>5, <2>6 DEF Bijection, Injection, Surjection, IsInjective
    <2>8. Cardinality(A) = Cardinality(B)
      BY <2>2, <2>7, FS_Bijection DEF ExistsBijection
    <2>9. Cardinality(At(s, p)) \in Nat /\ Cardinality(A) \in Nat
      BY <2>2, FS_CardinalityType
    <2>10. CASE p = e
      <3>1. j \in At(s, p)
        BY <1>1, <1>4, <2>10 DEF At, L
      <3>2. Cardinality(B) = Cardinality(At(s, p)) - 1
        BY <2>2, <3>1, FS_RemoveElement DEF B
      <3>3. Cardinality(At(s, p)) = Cardinality(A) + 1
        BY <2>8, <2>9, <3>2
      <3>4. QED BY <2>10, <3>3 DEF A
    <2>11. CASE p # e
      <3>1. B = At(s, p)
        BY <1>4, <2>11 DEF At, B
      <3>2. Cardinality(At(s, p)) = Cardinality(A) + 0
        BY <2>8, <2>9, <3>1
      <3>3. QED BY <2>11, <3>2 DEF A
    <2>12. QED BY <2>10, <2>11
  <1>10. QED BY <1>7, <1>9 DEF r, L

LEMMA ReleaseSounds ==
  ASSUME NEW notes \in Seq(NoteLine), NEW es \in Seq(Event), NEW st, NEW rl, Arranged(notes, es, st, rl),
         NEW l \in 0 .. Len(es) - 1, ~es[l + 1].on, NEW s, Sound(s, notes, st, rl, l)
  PROVE  Sound(RemoveFirst(s, es[l + 1].pitch), notes, st, rl, l + 1)
  <1> DEFINE e == es[l + 1].pitch
             P == Playing(st, rl, l)
             Q == Playing(st, rl, l + 1)
  <1>1. PICK n \in 1 .. Len(notes) : n \in P /\ Q = P \ {n} /\ notes[n].pitch = e
    <2>1. PICK n : LetsGo(notes, es, st, rl, l, n)
      BY ReleaseGives
    <2>2. QED BY <2>1 DEF LetsGo
  <1>2. /\ IsFiniteSet(P) /\ Cardinality(P) \in Nat
        /\ \A p : IsFiniteSet(Of(notes, P, p)) /\ Cardinality(Of(notes, P, p)) \in Nat
    BY OfFinite
  <1>3. s \in Seq(Nat) /\ Len(s) = Cardinality(P) /\ \A p : Cardinality(At(s, p)) = Cardinality(Of(notes, P, p))
    BY DEF Sound
  <1> HIDE DEF P, Q, e
  <1>4. Cardinality(Q) = Cardinality(P) - 1
    BY <1>1, <1>2, FS_RemoveElement
  <1>5. \A p : Of(notes, Q, p) = IF p = e THEN Of(notes, P, p) \ {n} ELSE Of(notes, P, p)
    BY <1>1 DEF Of
  <1>6. n \in Of(notes, P, e)
    BY <1>1 DEF Of
  <1>7. Cardinality(Of(notes, Q, e)) = Cardinality(Of(notes, P, e)) - 1
    BY <1>2, <1>5, <1>6, FS_RemoveElement
  <1>8. \E i \in 1 .. Len(s) : s[i] = e
    <2>1. At(s, e) # {}
      <3>1. SUFFICES ASSUME At(s, e) = {} PROVE FALSE
        OBVIOUS
      <3>2. Cardinality(Of(notes, P, e)) = 0
        BY <1>3, <3>1, FS_EmptySet
      <3>3. Of(notes, P, e) = {}
        BY <1>2, <3>2, FS_EmptySet
      <3>4. QED BY <1>6, <3>3
    <2>2. PICK i \in At(s, e) : TRUE
      BY <2>1
    <2>3. i \in 1 .. Len(s)
      BY <1>3, AtFinite
    <2>4. QED BY <2>2, <2>3 DEF At
  <1>9. /\ RemoveFirst(s, e) \in Seq(Nat) /\ Len(RemoveFirst(s, e)) = Len(s) - 1
        /\ \A p : Cardinality(At(s, p)) = Cardinality(At(RemoveFirst(s, e), p)) + (IF p = e THEN 1 ELSE 0)
    BY <1>3, <1>8, Without
  <1>10. ASSUME NEW p PROVE Cardinality(At(RemoveFirst(s, e), p)) = Cardinality(Of(notes, Q, p))
    <2>1. Cardinality(At(RemoveFirst(s, e), p)) \in Nat
      BY <1>9, AtFinite
    <2>2. Cardinality(At(s, p)) = Cardinality(At(RemoveFirst(s, e), p)) + (IF p = e THEN 1 ELSE 0)
      BY <1>9
    <2>3. Cardinality(At(s, p)) = Cardinality(Of(notes, P, p))
      BY <1>3
    <2>4. CASE p = e
      BY <1>7, <2>1, <2>2, <2>3, <2>4
    <2>5. CASE p # e
      BY <1>5, <2>1, <2>2, <2>3, <2>5
    <2>6. QED BY <2>4, <2>5
  <1>11. Len(RemoveFirst(s, e)) = Cardinality(Q)
    BY <1>3, <1>4, <1>9
  <1>12. QED BY <1>9, <1>10, <1>11 DEF Sound, Q, e

-----------------------------------------------------------------------------
\* A batch reaches as far beyond the count as a lead, and fills no more of the
\* ring than it is meant to.
LEMMA RoomIs ==
  ASSUME events \in Seq(Event), origin \in Int, sent \in Int, Sorted(events), reading \in Int
  PROVE  /\ Room \in Int /\ Cardinality(By(events, origin, reading)) \in Nat
         /\ Room = Capacity - Margin - (sent - Cardinality(By(events, origin, reading)))
  <1>1. PICK p \in 0 .. Len(events) : By(events, origin, reading) = 1 .. p
                                      /\ Cardinality(By(events, origin, reading)) = p
    BY TheFirst
  <1>2. Len(events) \in Nat /\ DOMAIN events = 1 .. Len(events)
    BY EventFacts
  <1>3. {i \in DOMAIN events : SampleOf(events[i]) <= reading} = By(events, origin, reading)
    BY <1>2 DEF By, SampleOf, AtOf
  <1>4. Room = Capacity - Margin - (sent - Cardinality(By(events, origin, reading)))
    BY <1>3 DEF Room, Outstanding
  <1>5. QED BY <1>1, <1>2, <1>4, PlayerFacts

LEMMA Reaches ==
  ASSUME events \in Seq(Event), origin \in Int, Sorted(events), SaneDensity(events),
         sent \in 0 .. Len(events), reading \in Int, NEW a, NEW b,
         \A k \in sent + 1 .. Len(events) : AtOf(events, origin, k) > reading,
         IsBatch(events, origin, sent, a, Room, reading + Horizon, b),
         Stops(events, origin, Len(events), Room, reading + Horizon, b)
  PROVE  /\ \A k \in b.sent + 1 .. Len(events) : AtOf(events, origin, k) > reading + Lead
         /\ b.sent = sent \/ b.sent <= Capacity - Margin + Cardinality(By(events, origin, reading))
  <1> DEFINE N == Len(events)
             J == sent + 1 .. b.sent
             n == b.sent
  <1>1. PICK p \in 0 .. N : By(events, origin, reading) = 1 .. p /\ Cardinality(By(events, origin, reading)) = p
    BY TheFirst
  <1>2. N \in Nat /\ sent \in Nat /\ p \in Nat
    BY <1>1, EventFacts
  <1>3. Room = Capacity - Margin - (sent - p)
    <2>1. Room = Capacity - Margin - (sent - Cardinality(By(events, origin, reading)))
      BY <1>2, RoomIs
    <2>2. QED BY <1>1, <2>1
  <1>4. n \in sent .. N /\ n \in Nat /\ sent <= n /\ n <= N
    BY <1>2 DEF IsBatch
  <1>5. n = sent \/ n <= Capacity - Margin + p
    <2>1. n = sent \/ n - sent <= Room
      BY DEF IsBatch
    <2>2. QED BY <1>2, <1>3, <1>4, <2>1, PlayerFacts
  <1>6. p <= sent
    <2> SUFFICES ASSUME p > sent PROVE FALSE
      BY <1>2
    <2>1. p \in sent + 1 .. N /\ p \in 1 .. N /\ p \in 1 .. p
      BY <1>1, <1>2
    <2>2. AtOf(events, origin, p) <= reading
      BY <1>1, <2>1 DEF By
    <2>3. AtOf(events, origin, p) > reading /\ AtOf(events, origin, p) \in Int
      BY <2>1, EventFacts
    <2>4. QED BY <2>2, <2>3
  <1>7. n < N => AtOf(events, origin, n + 1) > reading + Lead
    <2> SUFFICES ASSUME n < N, ~(AtOf(events, origin, n + 1) > reading + Lead) PROVE FALSE
      OBVIOUS
    <2>1. /\ n + 1 \in 1 .. N /\ p + 1 \in 1 .. N /\ p + 1 <= n + 1
      BY <1>2, <1>4, <1>6
    <2>2. AtOf(events, origin, n + 1) \in Int /\ AtOf(events, origin, p + 1) \in Int
      <3>1. \A k \in 1 .. N : AtOf(events, origin, k) \in Int
        BY EventFacts
      <3>2. QED BY <2>1, <3>1
    <2>3. ~(AtOf(events, origin, p + 1) <= reading)
      <3>1. p + 1 \notin 1 .. p
        BY <1>2
      <3>2. QED BY <1>1, <2>1, <3>1 DEF By
    <2>4. AtOf(events, origin, n + 1) < AtOf(events, origin, p + 1) + Lead
      BY <2>2, <2>3, PlayerFacts
    <2>5. ~(AtOf(events, origin, n + 1) > reading + Horizon)
      BY <2>2, PlayerFacts
    <2>6. Len(b.commands) >= Room
      BY <2>5 DEF Stops
    <2>7. Len(b.commands) = (n - sent) + Cardinality(Anchored(events, J))
      BY DEF IsBatch
    <2>8. J \in SUBSET (p + 1 .. n + 1)
      BY <1>2, <1>4, <1>6
    <2>9. ((n + 1) - (p + 1) + 1) + Cardinality(Anchored(events, J)) <= Capacity - Margin
      BY <2>1, <2>4, <2>8, WithinTheRoom
    <2>10. Cardinality(Anchored(events, J)) \in Nat
      <3>1. sent + 1 \in Int /\ n \in Int
        BY <1>2, <1>4
      <3>2. IsFiniteSet(J) /\ Anchored(events, J) \in SUBSET J
        BY <3>1, FS_Interval DEF Anchored
      <3>3. QED BY <3>2, FS_Subset, FS_CardinalityType
    <2> HIDE DEF J, n, N
    <2>11. QED BY <1>2, <1>3, <1>4, <2>6, <2>7, <2>9, <2>10, PlayerFacts
  <1>8. ASSUME NEW k \in n + 1 .. N PROVE AtOf(events, origin, k) > reading + Lead
    <2>1. n + 1 \in 1 .. N /\ k \in 1 .. N /\ n + 1 <= k /\ n < N
      BY <1>2, <1>4
    <2>2. AtOf(events, origin, n + 1) <= AtOf(events, origin, k)
      BY <2>1, InOrderOfTime
    <2>3. AtOf(events, origin, n + 1) \in Int /\ AtOf(events, origin, k) \in Int
      <3>1. \A i \in 1 .. N : AtOf(events, origin, i) \in Int
        BY EventFacts
      <3>2. QED BY <2>1, <3>1
    <2>4. QED BY <1>7, <2>1, <2>2, <2>3, PlayerFacts
  <1>9. QED BY <1>1, <1>5, <1>8

-----------------------------------------------------------------------------
\* What is played.
Piece == /\ score.notes \in Seq(NoteLine) /\ score.notes # << >> /\ score.patch \subseteq HEADER
         /\ events = Events(score.notes) /\ SaneNotes(score.notes) /\ SaneDensity(events)

Clock == now \in Nat /\ aged \in 0 .. WireTime /\ asked \in 0 .. Refill /\ anchor \in Int

\* Before the piece is started: a reset and the patch, on their way or heard.
Setting == [op : {"set"}, name : HEADER] \cup [op : {"reset"}]
Pending == \A name \in score.patch : \/ \E i \in 1 .. Len(wire) : wire[i] = SetCommand(name)
                                     \/ panel[name] = "score" /\ (wire # << >> => Head(wire).op # "reset")
SettingUp ==
  /\ sent = 0 /\ ring = << >> /\ wire \in Seq(Setting) /\ DOMAIN panel = HEADER
  /\ \A i \in 2 .. Len(wire) : wire[i].op = "set"
  /\ \/ pc = "reset" /\ wire = << >>
     \/ pc = "start" /\ Pending /\ (sounding # << >> => wire # << >> /\ Head(wire).op = "reset")

\* While it is played: l events have landed, the ring holds those up to h and the
\* wire those up to the last sent; none of them is late, and the others are far
\* enough ahead for the next look at the count to be in time.
Landed(es, o, t, l) ==
  \A k \in 1 .. Len(es) : (AtOf(es, o, k) + Late < t => k <= l) /\ (k <= l => AtOf(es, o, k) <= t)
OnTheWay(es, o, h, n, t) == \A k \in h + 1 .. n : AtOf(es, o, k) + Late >= t
Ahead(es, o, n, t, u) == \A k \in n + 1 .. Len(es) : AtOf(es, o, k) + Late >= t /\ AtOf(es, o, k) > u
Entry(es, o, k) == [at |-> AtOf(es, o, k), on |-> es[k].on, pitch |-> es[k].pitch]
RingOf(es, o, l, h) == [i \in 1 .. h - l |-> Entry(es, o, l + i)]
Fits(es, o, n, t) == n <= Capacity - Margin + Cardinality(By(es, o, t + Torn))

InPlay(l, h) ==
  /\ origin \in Int
  /\ l \in Nat /\ h \in Nat /\ sent \in Nat /\ l <= h /\ h <= sent /\ sent <= Len(events)
  /\ acc = AccOf(events, origin, sent)
  /\ wire \in Seq(Command) /\ Says(events, origin, wire, h, anchor, sent, acc)
  /\ ring = RingOf(events, origin, l, h)
  /\ Landed(events, origin, now, l)
  /\ OnTheWay(events, origin, h, sent, now + WireTime - aged)
  /\ Fits(events, origin, sent, now)
  /\ \/ pc = "ask" /\ Ahead(events, origin, sent, now + 2 * Refill - asked + WireTime, now + Refill - asked + Torn)
     \/ /\ pc = "batch" /\ sent < Len(events) /\ reading \in {now - asked, now - asked + Torn}
        /\ Ahead(events, origin, sent, now + Refill - asked + WireTime, reading)

\* What sounds is what the landed events make sound, with the score's settings.
Sounding(l) == /\ \E st, rl : Arranged(score.notes, events, st, rl) /\ Sound(sounding, score.notes, st, rl, l)
               /\ \A name \in score.patch : panel[name] = "score"

IInv == /\ Piece /\ Clock /\ ~dropped
        /\ SettingUp \/ \E l, h : InPlay(l, h) /\ Sounding(l)

LEMMA PieceIs ==
  ASSUME Piece
  PROVE  /\ events \in Seq(Event) /\ Sorted(events) /\ Len(events) \in Nat /\ Len(events) > 0
         /\ \E st, rl : Arranged(score.notes, events, st, rl)
  <1>1. \A i \in DOMAIN score.notes : score.notes[i].duration > 0
    BY DEF Piece, SaneNotes
  <1>2. score.notes \in Seq(NoteLine) /\ events = Events(score.notes)
    BY DEF Piece
  <1>3. Len(score.notes) \in Nat /\ Len(score.notes) > 0
    BY <1>2, EmptySeq, LenProperties DEF Piece
  <1>4. QED BY <1>1, <1>2, <1>3, EventsAre

LEMMA Inits == ASSUME Init PROVE IInv
  <1>1. PICK file \in Scores : score = ParseScore(file)
    BY DEF Init
  <1>2. /\ file \in Seq(SettingLine \cup NoteLine) /\ Notes(file) # << >>
        /\ SaneNotes(Notes(file)) /\ SaneDensity(Events(Notes(file)))
    BY ScoreAssumption
  <1>3. score.notes = Notes(file) /\ score.patch = Patch(file)
    BY <1>1 DEF ParseScore
  <1>4. events = Events(score.notes)
    BY DEF Init
  <1>5. Piece
    BY <1>2, <1>3, <1>4, ScoreIs DEF Piece
  <1>6. Clock /\ ~dropped
    BY PlayerFacts DEF Init, Clock
  <1>7. SettingUp
    <2>1. /\ sent = 0 /\ ring = << >> /\ wire = << >> /\ DOMAIN panel = HEADER /\ pc = "reset"
      BY DEF Init
    <2>2. wire \in Seq(Setting) /\ \A i \in 2 .. Len(wire) : wire[i].op = "set"
      BY <2>1
    <2>3. QED BY <2>1, <2>2 DEF SettingUp
  <1>8. QED BY <1>5, <1>6, <1>7 DEF IInv

\* Nothing of the piece changes.
LEMMA PieceStays == ASSUME Piece, [Next]_vars PROVE Piece' /\ score' = score /\ events' = events
  <1>1. score' = score /\ events' = events
    BY DEF Next, vars, host, Reset, Start, Ask, Batch, Hear, Land, Tick
  <1>2. QED BY <1>1 DEF Piece

-----------------------------------------------------------------------------
\* apply_patch sends each of the settings the score names.
Has(w, c) == \E i \in 1 .. Len(w) : w[i] = c
Sets == [op : {"set"}, name : HEADER]

LEMMA HasMore ==
  ASSUME NEW w \in Seq(Sets), NEW x \in Seq(Sets), NEW c, Has(w, c) \/ Has(x, c)
  PROVE  Has(w \o x, c)
  <1>1. /\ Len(w) \in Nat /\ Len(x) \in Nat /\ Len(w \o x) = Len(w) + Len(x)
        /\ \A i \in 1 .. Len(w) + Len(x) : (w \o x)[i] = IF i <= Len(w) THEN w[i] ELSE x[i - Len(w)]
    BY LenProperties, ConcatProperties
  <1>2. CASE Has(w, c)
    <2>1. PICK i \in 1 .. Len(w) : w[i] = c
      BY <1>2 DEF Has
    <2>2. i \in 1 .. Len(w) + Len(x) /\ i <= Len(w)
      BY <1>1
    <2>3. (w \o x)[i] = c
      BY <1>1, <2>1, <2>2
    <2>4. QED BY <1>1, <2>2, <2>3 DEF Has
  <1>3. CASE Has(x, c)
    <2>1. PICK i \in 1 .. Len(x) : x[i] = c
      BY <1>3 DEF Has
    <2>2. Len(w) + i \in 1 .. Len(w) + Len(x) /\ ~(Len(w) + i <= Len(w)) /\ (Len(w) + i) - Len(w) = i
      BY <1>1
    <2>3. (w \o x)[Len(w) + i] = c
      BY <1>1, <2>1, <2>2
    <2>4. QED BY <1>1, <2>2, <2>3 DEF Has
  <1>4. QED BY <1>2, <1>3

LEMMA NamedIs ==
  ASSUME NEW patch, NEW name \in HEADER
  PROVE  /\ SetNamed(name, patch) \in Seq(Sets)
         /\ name \in patch => Has(SetNamed(name, patch), SetCommand(name))
  <1>1. SetCommand(name) \in Sets
    BY DEF SetCommand, Sets
  <1>2. SetNamed(name, patch) \in Seq(Sets)
    BY <1>1 DEF SetNamed
  <1>3. ASSUME name \in patch PROVE Has(SetNamed(name, patch), SetCommand(name))
    <2>1. SetNamed(name, patch) = <<SetCommand(name)>>
      BY <1>3 DEF SetNamed
    <2>2. Has(<<SetCommand(name)>>, SetCommand(name))
      BY DEF Has
    <2>3. QED BY <2>1, <2>2
  <1>4. QED BY <1>2, <1>3

LEMMA PatchIs ==
  ASSUME NEW patch \in SUBSET HEADER
  PROVE  /\ ApplyPatch(patch) \in Seq(Sets)
         /\ \A name \in patch : Has(ApplyPatch(patch), SetCommand(name))
  <1> DEFINE S(name) == SetNamed(name, patch)
             H(w, name) == name \in patch => Has(w, SetCommand(name))
  <1>1. HEADER = {"wave", "attack", "decay", "sustain", "release", "master"}
    BY DEF HEADER
  <1>2. \A name \in HEADER : S(name) \in Seq(Sets) /\ H(S(name), name)
    BY NamedIs
  <1>3. \A w, x \in Seq(Sets) : w \o x \in Seq(Sets) /\ \A name : H(w, name) \/ H(x, name) => H(w \o x, name)
    <2> TAKE w \in Seq(Sets), x \in Seq(Sets)
    <2>1. w \o x \in Seq(Sets)
      BY ConcatProperties
    <2>2. QED BY <2>1, HasMore
  <1> HIDE DEF S, H
  <1>4. /\ S("wave") \in Seq(Sets) /\ S("attack") \in Seq(Sets) /\ S("decay") \in Seq(Sets)
        /\ S("release") \in Seq(Sets) /\ S("sustain") \in Seq(Sets) /\ S("master") \in Seq(Sets)
        /\ H(S("wave"), "wave") /\ H(S("attack"), "attack") /\ H(S("decay"), "decay")
        /\ H(S("release"), "release") /\ H(S("sustain"), "sustain") /\ H(S("master"), "master")
    BY <1>1, <1>2
  <1> DEFINE e1 == S("attack") \o S("decay")
             e2 == e1 \o S("release")
             e3 == e2 \o S("sustain")
             e4 == S("wave") \o e3
             e5 == e4 \o S("master")
  <1>5. ApplyPatch(patch) = e5
    BY DEF ApplyPatch, SetEnvelope, S
  <1>6. e1 \in Seq(Sets) /\ H(e1, "attack") /\ H(e1, "decay")
    BY <1>3, <1>4
  <1> HIDE DEF e1
  <1>7. e2 \in Seq(Sets) /\ H(e2, "attack") /\ H(e2, "decay") /\ H(e2, "release")
    BY <1>3, <1>4, <1>6
  <1> HIDE DEF e2
  <1>8. e3 \in Seq(Sets) /\ H(e3, "attack") /\ H(e3, "decay") /\ H(e3, "release") /\ H(e3, "sustain")
    BY <1>3, <1>4, <1>7
  <1> HIDE DEF e3
  <1>9. e4 \in Seq(Sets) /\ H(e4, "wave") /\ H(e4, "attack") /\ H(e4, "decay") /\ H(e4, "release") /\ H(e4, "sustain")
    BY <1>3, <1>4, <1>8
  <1> HIDE DEF e4
  <1>10. /\ e5 \in Seq(Sets) /\ H(e5, "wave") /\ H(e5, "attack") /\ H(e5, "decay") /\ H(e5, "release")
         /\ H(e5, "sustain") /\ H(e5, "master")
    BY <1>3, <1>4, <1>9
  <1> HIDE DEF e5
  <1>11. \A name \in HEADER : H(e5, name)
    BY <1>1, <1>10
  <1>12. QED BY <1>5, <1>10, <1>11 DEF H

LEMMA ResetSetsUp == ASSUME IInv, Reset PROVE Clock' /\ ~dropped' /\ SettingUp'
  <1>1. /\ pc' = "start" /\ asked' = 0 /\ sent' = sent /\ aged' = aged /\ now' = now /\ anchor' = anchor
        /\ ring' = ring /\ dropped' = dropped /\ panel' = panel /\ score' = score
        /\ wire' = wire \o (<<[op |-> "reset"]>> \o ApplyPatch(score.patch)) /\ pc = "reset"
    BY DEF Reset, Sends, board
  <1>2. SettingUp /\ score.patch \in SUBSET HEADER
    BY <1>1 DEF IInv, InPlay, Piece
  <1>3. wire = << >> /\ sent = 0 /\ ring = << >> /\ DOMAIN panel = HEADER
    BY <1>1, <1>2 DEF SettingUp
  <1> DEFINE sets == ApplyPatch(score.patch)
             w == <<[op |-> "reset"]>> \o sets
  <1>4. sets \in Seq(Sets) /\ \A name \in score.patch : Has(sets, SetCommand(name))
    BY <1>2, PatchIs
  <1>5. sets \in Seq(Setting) /\ <<[op |-> "reset"]>> \in Seq(Setting)
    <2>1. Sets \subseteq Setting /\ [op |-> "reset"] \in Setting
      BY DEF Sets, Setting
    <2>2. sets \in Seq(Setting)
      BY <1>4, <2>1, SeqMonotonic
    <2>3. QED BY <2>1, <2>2
  <1>6. Len(sets) \in Nat /\ \A i \in 1 .. Len(sets) : sets[i] \in Sets
    BY <1>4, LenProperties
  <1> HIDE DEF sets
  <1>7. /\ w \in Seq(Setting) /\ Len(w) = 1 + Len(sets) /\ w[1] = [op |-> "reset"]
        /\ \A i \in 1 .. Len(sets) : w[i + 1] = sets[i]
    <2>1. Len(<<[op |-> "reset"]>>) = 1
      OBVIOUS
    <2>2. /\ w \in Seq(Setting) /\ Len(w) = 1 + Len(sets)
          /\ \A i \in 1 .. 1 + Len(sets) : w[i] = IF i <= 1 THEN <<[op |-> "reset"]>>[i] ELSE sets[i - 1]
      BY <1>5, <2>1, ConcatProperties
    <2>3. 1 \in 1 .. 1 + Len(sets)
      BY <1>6
    <2>4. w[1] = [op |-> "reset"]
      BY <2>2, <2>3
    <2>5. ASSUME NEW i \in 1 .. Len(sets) PROVE w[i + 1] = sets[i]
      <3>1. i + 1 \in 1 .. 1 + Len(sets) /\ ~(i + 1 <= 1) /\ (i + 1) - 1 = i
        BY <1>6
      <3>2. QED BY <2>2, <3>1
    <2>6. QED BY <2>2, <2>4, <2>5
  <1>8. wire' = w
    <2> HIDE DEF w
    <2>1. wire' = << >> \o w
      BY <1>1, <1>3 DEF w, sets
    <2>2. QED BY <1>7, <2>1, ConcatEmptySeq
  <1> HIDE DEF w
  <1>9. w # << >> /\ Head(w).op = "reset"
    BY <1>6, <1>7, EmptySeq
  <1>10. \A i \in 2 .. Len(w) : w[i].op = "set"
    <2> TAKE i \in 2 .. Len(w)
    <2>1. i - 1 \in 1 .. Len(sets) /\ (i - 1) + 1 = i
      BY <1>6, <1>7
    <2>2. w[i] \in Sets
      BY <1>6, <1>7, <2>1
    <2>3. QED BY <2>2 DEF Sets
  <1>11. ASSUME NEW name \in score.patch PROVE \E i \in 1 .. Len(w) : w[i] = SetCommand(name)
    <2>1. PICK i \in 1 .. Len(sets) : sets[i] = SetCommand(name)
      BY <1>4 DEF Has
    <2>2. i + 1 \in 1 .. Len(w) /\ w[i + 1] = SetCommand(name)
      BY <1>6, <1>7, <2>1
    <2>3. QED BY <2>2
  <1>12. Pending'
    BY <1>1, <1>8, <1>11 DEF Pending
  <1>13. SettingUp'
    BY <1>1, <1>3, <1>7, <1>8, <1>9, <1>10, <1>12 DEF SettingUp
  <1>14. QED BY <1>1, <1>13, PlayerFacts DEF IInv, Clock

LEMMA HearSetsUp == ASSUME IInv, SettingUp, Hear PROVE Clock' /\ ~dropped' /\ SettingUp'
  <1>1. /\ wire # << >> /\ wire' = Tail(wire) /\ aged' \in {0, aged} /\ now' = now /\ score' = score /\ pc' = pc
        /\ sent' = sent /\ asked' = asked
    BY DEF Hear, host
  <1>2. /\ sent = 0 /\ ring = << >> /\ wire \in Seq(Setting) /\ DOMAIN panel = HEADER
        /\ \A i \in 2 .. Len(wire) : wire[i].op = "set"
        /\ pc = "start" /\ Pending /\ (sounding # << >> => Head(wire).op = "reset")
    BY <1>1 DEF SettingUp
  <1> DEFINE c == Head(wire)
             w == Tail(wire)
  <1>3. /\ c \in Setting /\ w \in Seq(Setting) /\ Len(wire) \in Nat /\ Len(wire) > 0 /\ Len(w) = Len(wire) - 1
        /\ \A i \in 1 .. Len(w) : w[i] = wire[i + 1]
        /\ c = wire[1] /\ (w # << >> => Len(w) > 0 /\ Head(w) = w[1])
    <2>1. /\ c \in Setting /\ w \in Seq(Setting) /\ Len(w) = Len(wire) - 1
          /\ \A i \in 1 .. Len(w) : w[i] = wire[i + 1]
      BY <1>1, <1>2, HeadTailProperties
    <2>2. Len(wire) \in Nat /\ Len(wire) > 0 /\ (w # << >> => Len(w) > 0)
      BY <1>1, <1>2, <2>1, EmptySeq, LenProperties
    <2>3. QED BY <2>1, <2>2
  <1> HIDE DEF c, w
  <1>4. \A i \in 1 .. Len(w) : w[i].op = "set"
    <2> TAKE i \in 1 .. Len(w)
    <2>1. i + 1 \in 2 .. Len(wire)
      BY <1>3
    <2>2. QED BY <1>2, <1>3, <2>1
  <1>5. w # << >> => Head(w).op # "reset"
    <2> SUFFICES ASSUME w # << >> PROVE Head(w).op = "set"
      OBVIOUS
    <2>1. 1 \in 1 .. Len(w)
      BY <1>3
    <2>2. QED BY <1>3, <1>4, <2>1
  <1>6. \A i \in 2 .. Len(w) : w[i].op = "set"
    <2> TAKE i \in 2 .. Len(w)
    <2>1. i \in 1 .. Len(w)
      BY <1>3
    <2>2. QED BY <1>4, <2>1
  <1>7. ASSUME NEW name \in score.patch, \E i \in 1 .. Len(wire) : wire[i] = SetCommand(name), c # SetCommand(name)
        PROVE  \E i \in 1 .. Len(w) : w[i] = SetCommand(name)
    <2>1. PICK i \in 1 .. Len(wire) : wire[i] = SetCommand(name)
      BY <1>7
    <2>2. i # 1
      BY <1>3, <1>7, <2>1
    <2>3. i - 1 \in 1 .. Len(w) /\ (i - 1) + 1 = i
      BY <1>3, <2>2
    <2>4. w[i - 1] = SetCommand(name)
      BY <1>3, <2>1, <2>3
    <2>5. QED BY <2>3, <2>4
  <1>8. CASE c.op = "reset"
    <2>1. ring' = << >> /\ anchor' = -1 /\ sounding' = << >> /\ dropped' = dropped
          /\ panel' = [panel EXCEPT !["wave"] = "reset"]
      BY <1>8 DEF Hear, ResetBoard, c
    <2>2. Pending'
      <3> SUFFICES ASSUME NEW name \in score.patch PROVE \E i \in 1 .. Len(w) : w[i] = SetCommand(name)
        BY <1>1 DEF Pending, w
      <3>1. c # SetCommand(name)
        BY <1>8 DEF SetCommand
      <3>2. \E i \in 1 .. Len(wire) : wire[i] = SetCommand(name)
        BY <1>1, <1>2, <1>8 DEF Pending, c
      <3>3. QED BY <1>7, <3>1, <3>2
    <2>3. DOMAIN panel' = HEADER
      BY <1>2, <2>1
    <2>4. SettingUp'
      BY <1>1, <1>2, <1>3, <1>6, <2>1, <2>2, <2>3 DEF SettingUp, w
    <2>5. QED BY <1>1, <2>1, <2>4, PlayerFacts DEF IInv, Clock
  <1>9. CASE c.op # "reset"
    <2>1. c \in Sets
      BY <1>3, <1>9 DEF Setting, Sets
    <2>2. c.op = "set" /\ c.name \in HEADER /\ c = SetCommand(c.name)
      BY <2>1 DEF Sets, SetCommand
    <2>3. /\ panel' = [panel EXCEPT ![c.name] = "score"]
          /\ anchor' = anchor /\ ring' = ring /\ dropped' = dropped /\ sounding' = sounding
      BY <2>2 DEF Hear, c
    <2>4. Pending'
      <3> SUFFICES ASSUME NEW name \in score.patch
                   PROVE  (\E i \in 1 .. Len(w) : w[i] = SetCommand(name)) \/ panel'[name] = "score"
        BY <1>1, <1>5 DEF Pending, w
      <3>1. CASE c = SetCommand(name)
        <4>1. c.name = name
          BY <3>1 DEF SetCommand
        <4>2. QED BY <1>2, <2>2, <2>3, <4>1
      <3>2. CASE c # SetCommand(name)
        <4>1. (\E i \in 1 .. Len(wire) : wire[i] = SetCommand(name)) \/ panel[name] = "score"
          BY <1>2 DEF Pending
        <4>2. CASE panel[name] = "score"
          <5>1. name \in HEADER
            BY DEF IInv, Piece
          <5>2. QED BY <1>2, <2>3, <4>2, <5>1
        <4>3. CASE \E i \in 1 .. Len(wire) : wire[i] = SetCommand(name)
          BY <1>7, <3>2, <4>3
        <4>4. QED BY <4>1, <4>2, <4>3
      <3>3. QED BY <3>1, <3>2
    <2>5. DOMAIN panel' = HEADER
      BY <1>2, <2>3
    <2>6. sounding' = << >>
      BY <1>2, <1>9, <2>3 DEF c
    <2>7. SettingUp'
      BY <1>1, <1>2, <1>3, <1>6, <2>3, <2>4, <2>5, <2>6 DEF SettingUp, w
    <2>8. QED BY <1>1, <2>3, <2>7, PlayerFacts DEF IInv, Clock
  <1>10. QED BY <1>8, <1>9

-----------------------------------------------------------------------------
\* The piece begins far enough ahead.
LEMMA StartPlays == ASSUME IInv, Start PROVE Clock' /\ ~dropped' /\ \E l, h : (InPlay(l, h) /\ Sounding(l))'
  <1>1. /\ pc = "start" /\ wire = << >> /\ acc' = origin' /\ pc' = "ask" /\ asked' = 0
        /\ wire' = wire \o <<Anchor(origin')>>
        /\ score' = score /\ events' = events /\ sent' = sent /\ reading' = reading /\ aged' = aged /\ now' = now
        /\ anchor' = anchor /\ ring' = ring /\ dropped' = dropped /\ sounding' = sounding /\ panel' = panel
    BY DEF Start, Sends, board
  <1>2. PICK torn \in {0, Torn} : origin' = now + torn + LeadIn
    BY DEF Start
  <1>3. SettingUp /\ Piece /\ Clock /\ ~dropped
    BY <1>1 DEF IInv, InPlay
  <1>4. now \in Nat /\ aged \in 0 .. WireTime /\ anchor \in Int
    BY <1>3 DEF Clock
  <1>5. origin' \in Int /\ origin' >= now + LeadIn
    BY <1>2, <1>4, PlayerFacts
  <1>6. /\ sent = 0 /\ ring = << >> /\ sounding = << >> /\ \A name \in score.patch : panel[name] = "score"
    <2>1. sent = 0 /\ ring = << >> /\ sounding = << >> /\ Pending
      BY <1>1, <1>3 DEF SettingUp
    <2>2. ASSUME NEW name \in score.patch PROVE panel[name] = "score"
      <3>1. Len(wire) = 0
        BY <1>1
      <3>2. ~(\E i \in 1 .. Len(wire) : wire[i] = SetCommand(name))
        BY <3>1
      <3>3. QED BY <2>1, <3>2 DEF Pending
    <2>3. QED BY <2>1, <2>2
  <1>7. events \in Seq(Event) /\ Len(events) \in Nat
    BY <1>3, PieceIs
  <1>8. \A k \in 1 .. Len(events) : AtOf(events, origin', k) \in Int /\ AtOf(events, origin', k) >= origin'
    BY <1>5, <1>7, EventFacts
  <1>9. wire' = <<Anchor(origin')>> /\ Anchor(origin') \in Command /\ wire' \in Seq(Command)
    <2>1. Anchor(origin') \in Command
      BY <1>5 DEF Anchor, Command
    <2>2. <<Anchor(origin')>> \in Seq(Command)
      BY <2>1
    <2>3. wire' = <<Anchor(origin')>>
      BY <1>1, <2>2, ConcatEmptySeq
    <2>4. QED BY <2>1, <2>2, <2>3
  <1>10. Says(events, origin', wire', 0, anchor, 0, origin')
    <2>1. OneSays(events, origin', Anchor(origin'), 0, anchor, 0, origin')
      BY DEF OneSays
    <2>2. QED BY <1>4, <1>5, <1>9, <2>1, SaysOne
  <1>11. ring = RingOf(events, origin', 0, 0)
    <2>1. RingOf(events, origin', 0, 0) = << >>
      BY DEF RingOf
    <2>2. QED BY <1>6, <2>1
  <1>12. Landed(events, origin', now, 0)
    BY <1>4, <1>5, <1>8, PlayerFacts DEF Landed
  <1>13. OnTheWay(events, origin', 0, 0, now + WireTime - aged)
    BY DEF OnTheWay
  <1>14. Fits(events, origin', 0, now)
    <2>1. Cardinality(By(events, origin', now + Torn)) \in Nat
      <3>1. now + Torn \in Int
        BY <1>4, PlayerFacts
      <3>2. \E p \in 0 .. Len(events) : Cardinality(By(events, origin', now + Torn)) = p
        BY <1>3, <1>5, <1>7, <3>1, TheFirst, PieceIs
      <3>3. QED BY <1>7, <3>2
    <2>2. QED BY <2>1, PlayerFacts DEF Fits
  <1>15. Ahead(events, origin', 0, now + 2 * Refill - 0 + WireTime, now + Refill - 0 + Torn)
    BY <1>4, <1>5, <1>8, PlayerFacts DEF Ahead
  <1>16. origin' = AccOf(events, origin', 0)
    BY DEF AccOf
  <1>17. InPlay(0, 0)'
    BY <1>1, <1>5, <1>6, <1>7, <1>9, <1>10, <1>11, <1>12, <1>13, <1>14, <1>15, <1>16 DEF InPlay
  <1>18. Sounding(0)'
    <2>1. PICK st, rl : Arranged(score.notes, events, st, rl)
      BY <1>3, PieceIs
    <2>2. Playing(st, rl, 0) = {}
      <3>1. score.notes \in Seq(NoteLine)
        BY <1>3 DEF Piece
      <3>2. DOMAIN st = 1 .. Len(score.notes) /\ \A n \in 1 .. Len(score.notes) : st[n] \in 1 .. Len(events)
        BY <1>7, <2>1, <3>1, ArrangedFacts
      <3>3. QED BY <1>7, <3>2 DEF Playing
    <2>3. Sound(<< >>, score.notes, st, rl, 0)
      <3>1. \A p : At(<< >>, p) = {} /\ Of(score.notes, Playing(st, rl, 0), p) = {}
        BY <2>2 DEF At, Of
      <3>2. << >> \in Seq(Nat) /\ Len(<< >>) = 0
        BY EmptySeq
      <3>3. QED BY <2>2, <3>1, <3>2, FS_EmptySet DEF Sound
    <2>4. Sound(sounding', score.notes, st, rl, 0)
      BY <1>1, <1>6, <2>3
    <2>5. QED BY <1>1, <1>6, <2>1, <2>4 DEF Sounding
  <1>19. Clock'
    BY <1>1, <1>4, PlayerFacts DEF Clock
  <1>20. QED BY <1>1, <1>3, <1>17, <1>18, <1>19

LEMMA SoundingStays ==
  ASSUME NEW l, Sounding(l), score' = score, events' = events, sounding' = sounding, panel' = panel
  PROVE  Sounding(l)'
  BY DEF Sounding

LEMMA AskPlays ==
  ASSUME Piece, Clock, NEW l, NEW h, InPlay(l, h), Ask PROVE Clock' /\ InPlay(l, h)'
  <1>1. /\ pc = "ask" /\ pc' = "batch" /\ asked' = 0 /\ ~Done
        /\ score' = score /\ events' = events /\ origin' = origin /\ sent' = sent /\ acc' = acc
        /\ wire' = wire /\ aged' = aged /\ now' = now /\ anchor' = anchor /\ ring' = ring
    BY DEF Ask, Keeps, board
  <1>2. PICK torn \in {0, Torn} : reading' = now + torn
    BY DEF Ask
  <1>3. now \in Nat /\ aged \in 0 .. WireTime /\ asked \in 0 .. Refill /\ anchor \in Int
    BY DEF Clock
  <1>4. /\ origin \in Int /\ sent \in Nat /\ sent <= Len(events)
        /\ Ahead(events, origin, sent, now + 2 * Refill - asked + WireTime, now + Refill - asked + Torn)
    BY <1>1 DEF InPlay
  <1>5. events \in Seq(Event) /\ Len(events) \in Nat
    BY PieceIs
  <1>6. sent < Len(events)
    BY <1>1, <1>4, <1>5 DEF Done
  <1>7. Ahead(events, origin, sent, now + Refill - 0 + WireTime, reading')
    <2>1. ASSUME NEW k \in sent + 1 .. Len(events)
          PROVE  AtOf(events, origin, k) + Late >= now + Refill - 0 + WireTime /\ AtOf(events, origin, k) > reading'
      <3>1. /\ AtOf(events, origin, k) + Late >= now + 2 * Refill - asked + WireTime
            /\ AtOf(events, origin, k) > now + Refill - asked + Torn
        BY <1>4 DEF Ahead
      <3>2. AtOf(events, origin, k) \in Int
        <4>1. k \in 1 .. Len(events)
          BY <1>4, <1>5
        <4>2. QED BY <1>4, <1>5, <4>1, EventFacts
      <3>3. QED BY <1>2, <1>3, <3>1, <3>2, PlayerFacts
    <2>2. QED BY <2>1 DEF Ahead
  <1>8. reading' \in Int /\ reading' \in {now - 0, now - 0 + Torn}
    BY <1>2, <1>3, PlayerFacts
  <1>9. Clock'
    BY <1>1, <1>3, PlayerFacts DEF Clock
  <1>10. InPlay(l, h)'
    BY <1>1, <1>6, <1>7, <1>8 DEF InPlay
  <1>11. QED BY <1>9, <1>10

\* More have their time as it goes on.
LEMMA ByMore ==
  ASSUME NEW es \in Seq(Event), NEW o \in Int, NEW x \in Int, NEW y \in Int, x <= y
  PROVE  /\ Cardinality(By(es, o, x)) \in Nat /\ Cardinality(By(es, o, y)) \in Nat
         /\ Cardinality(By(es, o, x)) <= Cardinality(By(es, o, y))
  <1>1. Len(es) \in Nat /\ \A k \in 1 .. Len(es) : AtOf(es, o, k) \in Int
    BY EventFacts
  <1>2. IsFiniteSet(1 .. Len(es)) /\ By(es, o, y) \in SUBSET (1 .. Len(es))
    BY <1>1, FS_Interval DEF By
  <1>3. IsFiniteSet(By(es, o, y))
    BY <1>2, FS_Subset
  <1>4. By(es, o, x) \in SUBSET By(es, o, y)
    BY <1>1 DEF By
  <1>5. QED BY <1>3, <1>4, FS_Subset, FS_CardinalityType

\* What a batch leaves out is in time after the next look at the count.
LEMMA BatchPlays ==
  ASSUME Piece, Clock, NEW l, NEW h, InPlay(l, h), Batch PROVE Clock' /\ InPlay(l, h)'
  <1> DEFINE b == NextBatch
  <1>1. /\ pc = "batch" /\ pc' = "ask" /\ sent' = b.sent /\ acc' = b.acc /\ wire' = wire \o b.commands
        /\ score' = score /\ events' = events /\ origin' = origin /\ reading' = reading /\ asked' = asked
        /\ aged' = aged /\ now' = now /\ anchor' = anchor /\ ring' = ring
    BY DEF Batch, Sends, board
  <1>2. now \in Nat /\ aged \in 0 .. WireTime /\ asked \in 0 .. Refill /\ anchor \in Int
    BY DEF Clock
  <1>3. /\ origin \in Int /\ l \in Nat /\ h \in Nat /\ sent \in Nat /\ l <= h /\ h <= sent
        /\ sent <= Len(events) /\ acc = AccOf(events, origin, sent)
        /\ wire \in Seq(Command) /\ Says(events, origin, wire, h, anchor, sent, acc)
        /\ OnTheWay(events, origin, h, sent, now + WireTime - aged) /\ Fits(events, origin, sent, now)
        /\ reading \in {now - asked, now - asked + Torn}
        /\ Ahead(events, origin, sent, now + Refill - asked + WireTime, reading)
    BY <1>1 DEF InPlay
  <1>4. events \in Seq(Event) /\ Sorted(events) /\ Len(events) \in Nat /\ SaneDensity(events)
    BY PieceIs DEF Piece
  <1>5. sent \in 0 .. Len(events) /\ reading \in Int /\ Room \in Int
    <2>1. sent \in 0 .. Len(events) /\ reading \in Int
      BY <1>2, <1>3, <1>4, PlayerFacts
    <2>2. QED BY <1>3, <1>4, <2>1, RoomIs
  <1>6. /\ IsBatch(events, origin, sent, acc, Room, reading + Horizon, b)
        /\ Stops(events, origin, Len(events), Room, reading + Horizon, b)
    BY <1>3, <1>4, <1>5, BatchIs
  <1> HIDE DEF b
  <1>7. /\ b.commands \in Seq(Command) /\ b.sent \in Nat /\ sent <= b.sent /\ b.sent <= Len(events)
        /\ b.acc = AccOf(events, origin, b.sent) /\ Says(events, origin, b.commands, sent, acc, b.sent, b.acc)
    <2>1. /\ b.commands \in Seq(Command) /\ b.sent \in sent .. Len(events) /\ b.acc = AccOf(events, origin, b.sent)
          /\ Says(events, origin, b.commands, sent, acc, b.sent, b.acc)
      BY <1>6 DEF IsBatch
    <2>2. QED BY <1>3, <1>4, <2>1
  <1>8. \A k \in sent + 1 .. Len(events) : /\ AtOf(events, origin, k) + Late >= now + Refill - asked + WireTime
                                           /\ AtOf(events, origin, k) > reading /\ AtOf(events, origin, k) \in Int
    <2> TAKE k \in sent + 1 .. Len(events)
    <2>1. k \in 1 .. Len(events)
      BY <1>3, <1>4
    <2>2. AtOf(events, origin, k) \in Int
      BY <1>3, <1>4, <2>1, EventFacts
    <2>3. QED BY <1>3, <2>2 DEF Ahead
  <1>9. /\ \A k \in b.sent + 1 .. Len(events) : AtOf(events, origin, k) > reading + Lead
        /\ b.sent = sent \/ b.sent <= Capacity - Margin + Cardinality(By(events, origin, reading))
    BY <1>3, <1>4, <1>5, <1>6, <1>8, Reaches
  <1>10. wire' \in Seq(Command) /\ Says(events, origin, wire', h, anchor, b.sent, b.acc)
    BY <1>1, <1>3, <1>7, ConcatProperties, SaysMore
  <1>11. OnTheWay(events, origin, h, b.sent, now + WireTime - aged)
    <2>1. ASSUME NEW k \in h + 1 .. b.sent PROVE AtOf(events, origin, k) + Late >= now + WireTime - aged
      <3>1. CASE k <= sent
        <4>1. k \in h + 1 .. sent
          BY <1>3, <1>7, <3>1
        <4>2. QED BY <1>3, <4>1 DEF OnTheWay
      <3>2. CASE k > sent
        <4>1. k \in sent + 1 .. Len(events)
          BY <1>3, <1>4, <1>7, <3>2
        <4>2. AtOf(events, origin, k) + Late >= now + Refill - asked + WireTime /\ AtOf(events, origin, k) \in Int
          BY <1>8, <4>1
        <4>3. QED BY <1>2, <4>2, PlayerFacts
      <3>3. QED BY <1>3, <1>7, <3>1, <3>2
    <2>2. QED BY <2>1 DEF OnTheWay
  <1>12. Fits(events, origin, b.sent, now)
    <2>1. reading <= now + Torn /\ now + Torn \in Int
      BY <1>2, <1>3, PlayerFacts
    <2>2. /\ Cardinality(By(events, origin, reading)) \in Nat /\ Cardinality(By(events, origin, now + Torn)) \in Nat
          /\ Cardinality(By(events, origin, reading)) <= Cardinality(By(events, origin, now + Torn))
      BY <1>3, <1>4, <2>1, ByMore
    <2>3. QED BY <1>3, <1>7, <1>9, <2>2, PlayerFacts DEF Fits
  <1>13. Ahead(events, origin, b.sent, now + 2 * Refill - asked + WireTime, now + Refill - asked + Torn)
    <2>1. ASSUME NEW k \in b.sent + 1 .. Len(events)
          PROVE  /\ AtOf(events, origin, k) + Late >= now + 2 * Refill - asked + WireTime
                 /\ AtOf(events, origin, k) > now + Refill - asked + Torn
      <3>1. AtOf(events, origin, k) > reading + Lead
        BY <1>9
      <3>2. k \in sent + 1 .. Len(events)
        BY <1>3, <1>4, <1>7
      <3>3. AtOf(events, origin, k) \in Int
        BY <1>8, <3>2
      <3>4. reading >= now - asked
        BY <1>2, <1>3, PlayerFacts
      <3>5. QED BY <1>2, <1>3, <3>1, <3>3, <3>4, PlayerFacts
    <2>2. QED BY <2>1 DEF Ahead
  <1>14. Clock'
    BY <1>1, <1>2 DEF Clock
  <1>15. h <= b.sent
    BY <1>3, <1>7
  <1>16. InPlay(l, h)'
    BY <1>1, <1>7, <1>10, <1>11, <1>12, <1>13, <1>15 DEF InPlay
  <1>17. QED BY <1>14, <1>16

\* The ring: the events heard and not landed, in order.
EntryType == [at : Int, on : BOOLEAN, pitch : Nat]

LEMMA RingIs ==
  ASSUME NEW es \in Seq(Event), NEW o \in Int, NEW l \in Nat, NEW h \in Nat, l <= h, h <= Len(es)
  PROVE  /\ RingOf(es, o, l, h) \in Seq(EntryType) /\ Len(RingOf(es, o, l, h)) = h - l
         /\ \A i \in 1 .. h - l : RingOf(es, o, l, h)[i] = Entry(es, o, l + i)
         /\ RingOf(es, o, l, h) # << >> => l < h
  <1> DEFINE r == RingOf(es, o, l, h)
  <1>1. Len(es) \in Nat /\ h - l \in Nat
    BY LenProperties
  <1>2. ASSUME NEW i \in 1 .. h - l PROVE Entry(es, o, l + i) \in EntryType
    <2>1. l + i \in 1 .. Len(es)
      BY <1>1
    <2>2. AtOf(es, o, l + i) \in Int /\ es[l + i].on \in BOOLEAN /\ es[l + i].pitch \in Nat
      BY <2>1, EventFacts
    <2>3. QED BY <2>2 DEF Entry, EntryType
  <1>3. r \in [1 .. h - l -> EntryType] /\ \A i \in 1 .. h - l : r[i] = Entry(es, o, l + i)
    BY <1>2 DEF RingOf
  <1> HIDE DEF r
  <1>4. r \in Seq(EntryType)
    BY <1>1, <1>3, SeqDef
  <1>5. Len(r) = h - l
    <2>1. 1 .. Len(r) = 1 .. h - l /\ Len(r) \in Nat
      BY <1>3, <1>4, LenProperties
    <2>2. QED BY <1>1, <2>1
  <1>6. r # << >> => l < h
    <2>1. r # << >> => Len(r) # 0
      BY <1>4, EmptySeq
    <2>2. QED BY <1>5, <2>1
  <1>7. QED BY <1>3, <1>4, <1>5, <1>6 DEF r

LEMMA RingGrows ==
  ASSUME NEW es \in Seq(Event), NEW o \in Int, NEW l \in Nat, NEW h \in Nat, l <= h, h + 1 <= Len(es)
  PROVE  Append(RingOf(es, o, l, h), Entry(es, o, h + 1)) = RingOf(es, o, l, h + 1)
  <1> DEFINE r == RingOf(es, o, l, h)
             e == Entry(es, o, h + 1)
             q == RingOf(es, o, l, h + 1)
  <1>1. Len(es) \in Nat /\ l <= h + 1 /\ h <= Len(es) /\ h + 1 \in Nat /\ h + 1 \in 1 .. Len(es)
    BY LenProperties
  <1>2. r \in Seq(EntryType) /\ Len(r) = h - l /\ \A i \in 1 .. h - l : r[i] = Entry(es, o, l + i)
    BY <1>1, RingIs
  <1>3. q \in Seq(EntryType) /\ Len(q) = (h + 1) - l /\ \A i \in 1 .. (h + 1) - l : q[i] = Entry(es, o, l + i)
    BY <1>1, RingIs
  <1>4. e \in EntryType
    <2>1. AtOf(es, o, h + 1) \in Int /\ es[h + 1].on \in BOOLEAN /\ es[h + 1].pitch \in Nat
      BY <1>1, EventFacts
    <2>2. QED BY <2>1 DEF Entry, EntryType
  <1> HIDE DEF r, e, q
  <1>5. /\ Append(r, e) \in Seq(EntryType) /\ Len(Append(r, e)) = Len(r) + 1
        /\ \A i \in 1 .. Len(r) : Append(r, e)[i] = r[i]
        /\ Append(r, e)[Len(r) + 1] = e
    BY <1>2, <1>4, AppendProperties
  <1>6. Len(Append(r, e)) = Len(q)
    BY <1>2, <1>3, <1>5
  <1>7. ASSUME NEW i \in 1 .. Len(Append(r, e)) PROVE Append(r, e)[i] = q[i]
    <2>1. i \in 1 .. (h + 1) - l
      BY <1>3, <1>6
    <2>2. CASE i \in 1 .. h - l
      BY <1>2, <1>3, <1>5, <2>1, <2>2
    <2>3. CASE i \notin 1 .. h - l
      <3>1. i = Len(r) + 1 /\ l + i = h + 1
        BY <1>2, <2>1, <2>3
      <3>2. QED BY <1>3, <1>5, <2>1, <3>1 DEF e
    <2>4. QED BY <2>2, <2>3
  <1>8. Append(r, e) = q
    BY <1>3, <1>5, <1>6, <1>7, SeqEqual
  <1>9. QED BY <1>8 DEF r, e, q

LEMMA RingShrinks ==
  ASSUME NEW es \in Seq(Event), NEW o \in Int, NEW l \in Nat, NEW h \in Nat, l < h, h <= Len(es)
  PROVE  /\ Head(RingOf(es, o, l, h)) = Entry(es, o, l + 1)
         /\ Tail(RingOf(es, o, l, h)) = RingOf(es, o, l + 1, h)
         /\ Last(RingOf(es, o, l, h)) = Entry(es, o, h)
  <1> DEFINE r == RingOf(es, o, l, h)
             q == RingOf(es, o, l + 1, h)
  <1>1. Len(es) \in Nat /\ l <= h /\ l + 1 <= h /\ l + 1 \in Nat
    BY LenProperties
  <1>2. r \in Seq(EntryType) /\ Len(r) = h - l /\ \A i \in 1 .. h - l : r[i] = Entry(es, o, l + i)
    BY <1>1, RingIs
  <1>3. q \in Seq(EntryType) /\ Len(q) = h - (l + 1) /\ \A i \in 1 .. h - (l + 1) : q[i] = Entry(es, o, (l + 1) + i)
    <2> DEFINE m == l + 1
    <2>1. m \in Nat /\ m <= h
      BY <1>1
    <2> HIDE DEF m
    <2>2. /\ RingOf(es, o, m, h) \in Seq(EntryType) /\ Len(RingOf(es, o, m, h)) = h - m
          /\ \A i \in 1 .. h - m : RingOf(es, o, m, h)[i] = Entry(es, o, m + i)
      BY <2>1, RingIs
    <2>3. QED BY <2>2 DEF m
  <1> HIDE DEF r, q
  <1>4. r # << >> /\ 1 \in 1 .. h - l /\ h - l \in 1 .. h - l /\ l + (h - l) = h
    BY <1>1, <1>2
  <1>5. Head(r) = Entry(es, o, l + 1)
    BY <1>2, <1>4
  <1>6. Last(r) = Entry(es, o, h)
    <2>1. r[h - l] = Entry(es, o, l + (h - l))
      BY <1>2, <1>4
    <2>2. Last(r) = r[h - l]
      BY <1>2 DEF Last
    <2>3. QED BY <1>4, <2>1, <2>2
  <1>7. /\ Tail(r) \in Seq(EntryType) /\ Len(Tail(r)) = Len(r) - 1
        /\ \A i \in 1 .. Len(Tail(r)) : Tail(r)[i] = r[i + 1]
    BY <1>2, <1>4, HeadTailProperties
  <1>8. Len(Tail(r)) = Len(q)
    BY <1>1, <1>2, <1>3, <1>7
  <1>9. ASSUME NEW i \in 1 .. Len(Tail(r)) PROVE Tail(r)[i] = q[i]
    <2>1. i \in 1 .. h - (l + 1) /\ i + 1 \in 1 .. h - l /\ l + (i + 1) = (l + 1) + i
      BY <1>1, <1>3, <1>8
    <2>2. r[i + 1] = Entry(es, o, l + (i + 1)) /\ q[i] = Entry(es, o, (l + 1) + i)
      BY <1>2, <1>3, <2>1
    <2>3. QED BY <1>7, <2>1, <2>2
  <1>10. Tail(r) = q
    BY <1>3, <1>7, <1>8, <1>9, SeqEqual
  <1>11. QED BY <1>5, <1>6, <1>10 DEF r, q

\* A command is heard: an event of it finds the place it was sent for.
LEMMA HearPlays ==
  ASSUME Piece, Clock, ~dropped, NEW l, NEW h, InPlay(l, h), Hear
  PROVE  Clock' /\ ~dropped' /\ (\E n : InPlay(l, n)') /\ sounding' = sounding /\ panel' = panel
  <1>1. /\ wire # << >> /\ wire' = Tail(wire) /\ aged' = (IF Len(wire) = 1 THEN 0 ELSE aged) /\ now' = now
        /\ score' = score /\ events' = events /\ pc' = pc /\ origin' = origin /\ sent' = sent /\ acc' = acc
        /\ reading' = reading /\ asked' = asked
    BY DEF Hear, host
  <1>2. now \in Nat /\ aged \in 0 .. WireTime /\ asked \in 0 .. Refill /\ anchor \in Int
    BY DEF Clock
  <1>3. /\ origin \in Int /\ l \in Nat /\ h \in Nat /\ sent \in Nat /\ l <= h /\ h <= sent /\ sent <= Len(events)
        /\ wire \in Seq(Command) /\ Says(events, origin, wire, h, anchor, sent, acc)
        /\ ring = RingOf(events, origin, l, h) /\ Landed(events, origin, now, l)
        /\ OnTheWay(events, origin, h, sent, now + WireTime - aged) /\ Fits(events, origin, sent, now)
    BY DEF InPlay
  <1>4. events \in Seq(Event) /\ Sorted(events) /\ Len(events) \in Nat /\ SaneDensity(events)
    BY PieceIs DEF Piece
  <1> DEFINE c == Head(wire)
  <1>5. PICK m \in Nat, b \in Int : OneSays(events, origin, c, h, anchor, m, b) /\ Says(events, origin, Tail(wire), m, b, sent, acc)
    BY <1>1, <1>3, <1>4, SaysFirst
  <1>6. Tail(wire) \in Seq(Command) /\ Len(wire) \in Nat /\ (Len(wire) = 1 => Tail(wire) = << >>)
    <2>1. Tail(wire) \in Seq(Command) /\ Len(Tail(wire)) = Len(wire) - 1 /\ Len(wire) \in Nat
      BY <1>1, <1>3, HeadTailProperties, LenProperties
    <2>2. Tail(wire) # << >> => Len(Tail(wire)) # 0
      BY <2>1, EmptySeq
    <2>3. QED BY <2>1, <2>2
  <1>7. m <= sent /\ (Tail(wire) = << >> => m = sent)
    <2>1. Says(events, origin, Tail(wire), m, b, sent, acc)
      BY <1>5
    <2> DEFINE w == Tail(wire)
    <2>2. w \in Seq(Command) /\ Says(events, origin, w, m, b, sent, acc)
      BY <1>6, <2>1
    <2> HIDE DEF w
    <2>3. m <= sent /\ (w = << >> => m = sent)
      BY <1>4, <2>2, SaysBounds
    <2>4. QED BY <2>3 DEF w
  <1> HIDE DEF c
  <1>8. h <= m
    BY <1>3, <1>5 DEF OneSays
  <1>9. OnTheWay(events, origin, m, sent, now + WireTime - aged')
    <2>1. CASE Len(wire) = 1
      <3>1. m = sent
        BY <1>6, <1>7, <2>1
      <3>2. m + 1 .. sent = {}
        BY <1>3, <3>1
      <3>3. QED BY <3>2 DEF OnTheWay
    <2>2. CASE Len(wire) # 1
      <3>1. aged' = aged
        BY <1>1, <2>2
      <3>2. m + 1 .. sent \subseteq h + 1 .. sent
        BY <1>3, <1>5, <1>8
      <3>3. QED BY <1>3, <3>1, <3>2 DEF OnTheWay
    <2>3. QED BY <2>1, <2>2
  <1>10. /\ anchor' = b /\ ring' = RingOf(events, origin, l, m) /\ dropped' = dropped
         /\ sounding' = sounding /\ panel' = panel
    <2>1. CASE c = Anchor(b) /\ m = h
      <3>1. c.op = "at" /\ c.sample = b
        BY <2>1 DEF Anchor
      <3>2. anchor' = c.sample /\ ring' = ring /\ dropped' = dropped /\ sounding' = sounding /\ panel' = panel
        BY <3>1 DEF Hear, c
      <3>3. QED BY <1>3, <2>1, <3>1, <3>2
    <2>2. CASE /\ m = h + 1 /\ m <= Len(events) /\ b = AtOf(events, origin, m)
               /\ c = NoteCommand(events[m], b - anchor)
      <3>1. c.op = "note" /\ c.delay = b - anchor /\ c.on = events[m].on /\ c.pitch = events[m].pitch
        BY <2>2 DEF NoteCommand
      <3>2. anchor' = anchor + c.delay /\ Holds(anchor', c) /\ sounding' = sounding /\ panel' = panel
        BY <3>1 DEF Hear, c
      <3>3. anchor' = b
        BY <1>2, <1>5, <3>1, <3>2
      <3>4. Len(ring) = h - l /\ (ring # << >> => l < h)
        <4>1. h <= Len(events)
          BY <1>3, <1>4
        <4>2. /\ Len(RingOf(events, origin, l, h)) = h - l
              /\ RingOf(events, origin, l, h) # << >> => l < h
          <5>1. events \in Seq(Event) /\ origin \in Int /\ l \in Nat /\ h \in Nat /\ l <= h
            BY <1>3, <1>4
          <5>2. QED BY <4>1, <5>1, RingIs
        <4>3. QED BY <1>3, <4>2
      <3>5. Len(ring) # Capacity
        <4>1. Cardinality(By(events, origin, now + Torn)) <= l + Margin
          <5>1. l \in 0 .. Len(events) /\ now \in Int
            BY <1>2, <1>3, <1>4
          <5>2. \A k \in 1 .. Len(events) : AtOf(events, origin, k) + Late < now => k <= l
            BY <1>3 DEF Landed
          <5>3. QED BY <1>3, <1>4, <5>1, <5>2, WithinTheMargin
        <4>2. Cardinality(By(events, origin, now + Torn)) \in Nat
          <5>1. now + Torn \in Int
            BY <1>2, PlayerFacts
          <5>2. QED BY <1>3, <1>4, <5>1, ByMore
        <4>3. sent <= Capacity - Margin + Cardinality(By(events, origin, now + Torn))
          BY <1>3 DEF Fits
        <4>4. QED BY <1>3, <1>7, <2>2, <3>4, <4>1, <4>2, <4>3, PlayerFacts
      <3>6. ~(ring # << >> /\ Last(ring).at > anchor')
        <4> SUFFICES ASSUME ring # << >> PROVE ~(Last(ring).at > anchor')
          OBVIOUS
        <4>1. l < h /\ h \in 1 .. Len(events) /\ m \in 1 .. Len(events) /\ h <= m
          BY <1>3, <1>4, <2>2, <3>4
        <4>2. Last(ring) = Entry(events, origin, h)
          BY <1>3, <1>4, <4>1, RingShrinks
        <4>3. Last(ring).at = AtOf(events, origin, h)
          BY <4>2 DEF Entry
        <4>4. AtOf(events, origin, h) <= AtOf(events, origin, m)
          BY <1>3, <1>4, <4>1, InOrderOfTime
        <4>5. AtOf(events, origin, h) \in Int /\ b \in Int
          BY <1>3, <1>4, <4>1, EventFacts
        <4>6. QED BY <2>2, <3>3, <4>3, <4>4, <4>5
      <3>7. /\ ring' = Append(ring, [at |-> anchor', on |-> c.on, pitch |-> c.pitch])
            /\ dropped' = dropped
        BY <3>2, <3>5, <3>6 DEF Holds
      <3>8. [at |-> anchor', on |-> c.on, pitch |-> c.pitch] = Entry(events, origin, m)
        BY <2>2, <3>1, <3>3 DEF Entry
      <3>9. Append(ring, Entry(events, origin, h + 1)) = RingOf(events, origin, l, h + 1)
        BY <1>3, <1>4, <2>2, RingGrows
      <3>10. QED BY <2>2, <3>2, <3>3, <3>7, <3>8, <3>9
    <2>3. QED BY <1>5, <2>1, <2>2 DEF OneSays
  <1>11. l <= m
    BY <1>3, <1>5, <1>8
  <1>12. InPlay(l, m)'
    BY <1>1, <1>5, <1>6, <1>7, <1>9, <1>10, <1>11 DEF InPlay
  <1>13. Clock'
    BY <1>1, <1>2, <1>5, <1>10, PlayerFacts DEF Clock
  <1>14. QED BY <1>10, <1>12, <1>13

\* An event lands, and sounds as it should.
LEMMA LandPlays ==
  ASSUME Piece, Clock, NEW l, NEW h, InPlay(l, h), Sounding(l), Land
  PROVE  Clock' /\ dropped' = dropped /\ InPlay(l + 1, h)' /\ Sounding(l + 1)'
  <1>1. /\ ring # << >> /\ Head(ring).at <= now /\ ring' = Tail(ring)
        /\ sounding' = IF Head(ring).on THEN Started(Head(ring).pitch) ELSE RemoveFirst(sounding, Head(ring).pitch)
        /\ score' = score /\ events' = events /\ pc' = pc /\ origin' = origin /\ sent' = sent /\ acc' = acc
        /\ reading' = reading /\ asked' = asked /\ wire' = wire /\ aged' = aged /\ now' = now
        /\ anchor' = anchor /\ dropped' = dropped /\ panel' = panel
    BY DEF Land, host
  <1>2. /\ origin \in Int /\ l \in Nat /\ h \in Nat /\ sent \in Nat /\ l <= h /\ h <= sent /\ sent <= Len(events)
        /\ ring = RingOf(events, origin, l, h) /\ Landed(events, origin, now, l)
    BY DEF InPlay
  <1>3. events \in Seq(Event) /\ Sorted(events) /\ Len(events) \in Nat /\ score.notes \in Seq(NoteLine) /\ SaneNotes(score.notes)
    BY PieceIs DEF Piece
  <1>4. l < h /\ h <= Len(events) /\ l + 1 <= h /\ l + 1 \in Nat /\ l + 1 \in 1 .. Len(events)
    <2>1. l < h
      <3>1. h <= Len(events)
        BY <1>2, <1>3
      <3>2. QED BY <1>1, <1>2, <1>3, <3>1, RingIs
    <2>2. QED BY <1>2, <1>3, <2>1
  <1>5. Head(ring) = Entry(events, origin, l + 1) /\ Tail(ring) = RingOf(events, origin, l + 1, h)
    BY <1>2, <1>3, <1>4, RingShrinks
  <1>6. Head(ring).at = AtOf(events, origin, l + 1) /\ Head(ring).on = events[l + 1].on /\ Head(ring).pitch = events[l + 1].pitch
    BY <1>5 DEF Entry
  <1>7. Landed(events, origin, now, l + 1)
    <2>1. ASSUME NEW k \in 1 .. Len(events)
          PROVE  (AtOf(events, origin, k) + Late < now => k <= l + 1) /\ (k <= l + 1 => AtOf(events, origin, k) <= now)
      <3>1. (AtOf(events, origin, k) + Late < now => k <= l) /\ (k <= l => AtOf(events, origin, k) <= now)
        BY <1>2 DEF Landed
      <3>2. k = l + 1 => AtOf(events, origin, k) <= now
        BY <1>1, <1>6
      <3>3. k \in Nat
        OBVIOUS
      <3>4. QED BY <1>2, <3>1, <3>2, <3>3
    <2>2. QED BY <2>1 DEF Landed
  <1>8. InPlay(l + 1, h)'
    BY <1>1, <1>4, <1>5, <1>7 DEF InPlay
  <1>9. Sounding(l + 1)'
    <2>1. PICK st, rl : Arranged(score.notes, events, st, rl) /\ Sound(sounding, score.notes, st, rl, l)
      BY DEF Sounding
    <2>2. l \in 0 .. Len(events) - 1
      BY <1>2, <1>3, <1>4
    <2>3. Sound(sounding', score.notes, st, rl, l + 1)
      <3>1. CASE events[l + 1].on
        <4>1. Len(sounding) # Voices /\ Sound(Append(sounding, events[l + 1].pitch), score.notes, st, rl, l + 1)
          BY <1>3, <2>1, <2>2, <3>1, StartSounds
        <4>2. sounding' = Append(sounding, events[l + 1].pitch)
          BY <1>1, <1>6, <3>1, <4>1 DEF Started
        <4>3. QED BY <4>1, <4>2
      <3>2. CASE ~events[l + 1].on
        <4>1. Sound(RemoveFirst(sounding, events[l + 1].pitch), score.notes, st, rl, l + 1)
          BY <1>3, <2>1, <2>2, <3>2, ReleaseSounds
        <4>2. sounding' = RemoveFirst(sounding, events[l + 1].pitch)
          BY <1>1, <1>6, <3>2
        <4>3. QED BY <4>1, <4>2
      <3>3. QED BY <3>1, <3>2
    <2>4. QED BY <1>1, <2>1, <2>3 DEF Sounding
  <1>10. Clock'
    BY <1>1 DEF Clock
  <1>11. QED BY <1>1, <1>8, <1>9, <1>10

\* A sample passes: nothing that has its time is left behind.
LEMMA TickPlays ==
  ASSUME Piece, Clock, NEW l, NEW h, InPlay(l, h), Tick
  PROVE  Clock' /\ dropped' = dropped /\ InPlay(l, h)' /\ sounding' = sounding /\ panel' = panel
  <1>1. /\ ring # << >> => now < Head(ring).at + Late
        /\ wire # << >> => aged < WireTime
        /\ Done \/ asked < Refill
        /\ now' = now + 1 /\ aged' = (IF wire = << >> THEN 0 ELSE aged + 1) /\ asked' = (IF Done THEN 0 ELSE asked + 1)
        /\ score' = score /\ events' = events /\ pc' = pc /\ origin' = origin /\ sent' = sent /\ acc' = acc
        /\ reading' = reading /\ wire' = wire
        /\ anchor' = anchor /\ ring' = ring /\ dropped' = dropped /\ sounding' = sounding /\ panel' = panel
    BY DEF Tick, board
  <1>2. now \in Nat /\ aged \in 0 .. WireTime /\ asked \in 0 .. Refill /\ anchor \in Int
    BY DEF Clock
  <1>3. /\ origin \in Int /\ l \in Nat /\ h \in Nat /\ sent \in Nat /\ l <= h /\ h <= sent /\ sent <= Len(events)
        /\ wire \in Seq(Command) /\ Says(events, origin, wire, h, anchor, sent, acc)
        /\ ring = RingOf(events, origin, l, h) /\ Landed(events, origin, now, l)
        /\ OnTheWay(events, origin, h, sent, now + WireTime - aged) /\ Fits(events, origin, sent, now)
    BY DEF InPlay
  <1>4. events \in Seq(Event) /\ Sorted(events) /\ Len(events) \in Nat
    BY PieceIs
  <1>5. \A k \in 1 .. Len(events) : AtOf(events, origin, k) \in Int
    BY <1>3, <1>4, EventFacts
  <1>6. (Done <=> sent >= Len(events)) /\ (wire = << >> => h = sent)
    BY <1>3, <1>4, SaysBounds DEF Done
  <1>7. now + 1 \in Nat /\ aged' \in 0 .. WireTime /\ asked' \in 0 .. Refill
    BY <1>1, <1>2, PlayerFacts
  <1>8. ASSUME NEW k \in sent + 1 .. Len(events)
        PROVE  /\ AtOf(events, origin, k) + Late >= now + Refill - asked + WireTime
               /\ ~Done /\ asked < Refill /\ asked' = asked + 1 /\ AtOf(events, origin, k) \in Int
    <2>1. k \in 1 .. Len(events) /\ ~Done
      BY <1>3, <1>4, <1>6
    <2>2. CASE pc = "ask"
      <3>1. AtOf(events, origin, k) + Late >= now + 2 * Refill - asked + WireTime
        BY <2>2 DEF InPlay, Ahead
      <3>2. QED BY <1>1, <1>2, <1>5, <2>1, <3>1, PlayerFacts
    <2>3. CASE pc = "batch"
      <3>1. AtOf(events, origin, k) + Late >= now + Refill - asked + WireTime
        BY <2>3 DEF InPlay, Ahead
      <3>2. QED BY <1>1, <1>5, <2>1, <3>1
    <2>4. QED BY <2>2, <2>3 DEF InPlay
  <1>9. Landed(events, origin, now + 1, l)
    <2> SUFFICES ASSUME NEW k \in 1 .. Len(events)
                 PROVE  /\ AtOf(events, origin, k) + Late < now + 1 => k <= l
                        /\ k <= l => AtOf(events, origin, k) <= now + 1
      BY DEF Landed
    <2>1. AtOf(events, origin, k) \in Int /\ k \in Nat
      BY <1>5
    <2>2. k <= l => AtOf(events, origin, k) <= now
      BY <1>3 DEF Landed
    <2>3. ASSUME l < k, k <= h PROVE AtOf(events, origin, k) + Late >= now + 1
      <3>1. l < h /\ h <= Len(events) /\ l + 1 <= k /\ l + 1 \in 1 .. Len(events)
        BY <1>3, <1>4, <2>1, <2>3
      <3>2. Head(ring) = Entry(events, origin, l + 1)
        BY <1>3, <1>4, <3>1, RingShrinks
      <3>3. Len(ring) = h - l
        <4>1. events \in Seq(Event) /\ origin \in Int /\ l \in Nat /\ h \in Nat /\ l <= h
          BY <1>3, <1>4
        <4>2. Len(RingOf(events, origin, l, h)) = h - l
          BY <3>1, <4>1, RingIs
        <4>3. QED BY <1>3, <4>2
      <3>4. ring # << >>
        <4>1. Len(ring) # 0
          BY <1>3, <3>1, <3>3
        <4>2. QED BY <4>1, EmptySeq
      <3>5. now < AtOf(events, origin, l + 1) + Late
        BY <1>1, <3>2, <3>4 DEF Entry
      <3>6. AtOf(events, origin, l + 1) <= AtOf(events, origin, k)
        BY <1>3, <1>4, <3>1, InOrderOfTime
      <3>7. AtOf(events, origin, l + 1) \in Int
        BY <1>5, <3>1
      <3>8. QED BY <1>2, <2>1, <3>5, <3>6, <3>7, PlayerFacts
    <2>4. ASSUME h < k, k <= sent PROVE AtOf(events, origin, k) + Late >= now + 1
      <3>1. k \in h + 1 .. sent /\ wire # << >>
        BY <1>3, <1>6, <2>1, <2>4
      <3>2. AtOf(events, origin, k) + Late >= now + WireTime - aged
        BY <1>3, <3>1 DEF OnTheWay
      <3>3. QED BY <1>1, <1>2, <2>1, <3>1, <3>2, PlayerFacts
    <2>5. ASSUME sent < k PROVE AtOf(events, origin, k) + Late >= now + 1
      <3>1. k \in sent + 1 .. Len(events)
        BY <1>3, <1>4, <2>1, <2>5
      <3>2. QED BY <1>2, <1>8, <2>1, <3>1, PlayerFacts
    <2>6. QED BY <1>2, <1>3, <2>1, <2>2, <2>3, <2>4, <2>5, PlayerFacts
  <1>10. OnTheWay(events, origin, h, sent, (now + 1) + WireTime - aged')
    <2>1. CASE wire = << >>
      <3>1. h + 1 .. sent = {}
        BY <1>3, <1>6, <2>1
      <3>2. QED BY <3>1 DEF OnTheWay
    <2>2. CASE wire # << >>
      <3>1. (now + 1) + WireTime - aged' = now + WireTime - aged
        BY <1>1, <1>2, <2>2, PlayerFacts
      <3>2. QED BY <1>3, <3>1
    <2>3. QED BY <2>1, <2>2
  <1>11. Fits(events, origin, sent, now + 1)
    <2>1. now + Torn \in Int /\ (now + 1) + Torn \in Int /\ now + Torn <= (now + 1) + Torn
      BY <1>2, PlayerFacts
    <2>2. /\ Cardinality(By(events, origin, now + Torn)) \in Nat
          /\ Cardinality(By(events, origin, (now + 1) + Torn)) \in Nat
          /\ Cardinality(By(events, origin, now + Torn)) <= Cardinality(By(events, origin, (now + 1) + Torn))
      BY <1>3, <1>4, <2>1, ByMore
    <2>3. QED BY <1>3, <2>2, PlayerFacts DEF Fits
  <1>12. CASE pc = "ask"
    <2>1. Ahead(events, origin, sent, now + 2 * Refill - asked + WireTime, now + Refill - asked + Torn)
      BY <1>12 DEF InPlay
    <2>2. Ahead(events, origin, sent, (now + 1) + 2 * Refill - asked' + WireTime, (now + 1) + Refill - asked' + Torn)
      <3> SUFFICES ASSUME NEW k \in sent + 1 .. Len(events)
                   PROVE  /\ AtOf(events, origin, k) + Late >= (now + 1) + 2 * Refill - asked' + WireTime
                          /\ AtOf(events, origin, k) > (now + 1) + Refill - asked' + Torn
        BY DEF Ahead
      <3>1. asked' = asked + 1
        BY <1>8
      <3>2. /\ (now + 1) + 2 * Refill - asked' + WireTime = now + 2 * Refill - asked + WireTime
            /\ (now + 1) + Refill - asked' + Torn = now + Refill - asked + Torn
        BY <1>2, <3>1, PlayerFacts
      <3>3. QED BY <2>1, <3>2 DEF Ahead
    <2>3. InPlay(l, h)'
      BY <1>1, <1>3, <1>9, <1>10, <1>11, <1>12, <2>2 DEF InPlay
    <2>4. QED BY <1>1, <1>2, <1>7, <2>3 DEF Clock
  <1>13. CASE pc = "batch"
    <2>1. /\ sent < Len(events) /\ reading \in {now - asked, now - asked + Torn}
          /\ Ahead(events, origin, sent, now + Refill - asked + WireTime, reading)
      BY <1>13 DEF InPlay
    <2>2. asked' = asked + 1
      BY <1>1, <1>3, <1>4, <1>6, <2>1
    <2>3. (now + 1) + Refill - asked' + WireTime = now + Refill - asked + WireTime /\ (now + 1) - asked' = now - asked
      BY <1>2, <2>2, PlayerFacts
    <2>4. /\ Ahead(events, origin, sent, (now + 1) + Refill - asked' + WireTime, reading)
          /\ reading \in {(now + 1) - asked', (now + 1) - asked' + Torn}
      BY <2>1, <2>3
    <2>5. InPlay(l, h)'
      BY <1>1, <1>3, <1>9, <1>10, <1>11, <1>13, <2>1, <2>4 DEF InPlay
    <2>6. QED BY <1>1, <1>2, <1>7, <2>5 DEF Clock
  <1>14. QED BY <1>12, <1>13 DEF InPlay

LEMMA TickSetsUp == ASSUME Piece, Clock, SettingUp, Tick PROVE Clock' /\ dropped' = dropped /\ SettingUp'
  <1>1. /\ wire # << >> => aged < WireTime
        /\ Done \/ asked < Refill
        /\ now' = now + 1 /\ aged' = (IF wire = << >> THEN 0 ELSE aged + 1) /\ asked' = (IF Done THEN 0 ELSE asked + 1)
        /\ score' = score /\ pc' = pc /\ sent' = sent /\ wire' = wire
        /\ anchor' = anchor /\ ring' = ring /\ dropped' = dropped /\ sounding' = sounding /\ panel' = panel
    BY DEF Tick, board
  <1>2. Clock'
    BY <1>1, PlayerFacts DEF Clock
  <1>3. Pending => Pending'
    BY <1>1 DEF Pending
  <1>4. SettingUp'
    BY <1>1, <1>3 DEF SettingUp
  <1>5. QED BY <1>1, <1>2, <1>4

-----------------------------------------------------------------------------
LEMMA Steps == ASSUME IInv, [Next]_vars PROVE IInv'
  <1>1. Piece /\ Clock /\ ~dropped /\ (SettingUp \/ \E l, h : InPlay(l, h) /\ Sounding(l))
    BY DEF IInv
  <1>2. Piece' /\ score' = score /\ events' = events
    BY <1>1, PieceStays
  <1>3. CASE Reset
    BY <1>2, <1>3, ResetSetsUp DEF IInv
  <1>4. CASE Start
    <2>1. Clock' /\ ~dropped' /\ \E l, h : (InPlay(l, h) /\ Sounding(l))'
      BY <1>4, StartPlays
    <2>2. QED BY <1>2, <2>1 DEF IInv
  <1>5. CASE vars' = vars
    BY <1>1, <1>5 DEF vars, host, board, IInv, Piece, Clock, SettingUp, Pending, InPlay, Sounding
  <1>6. CASE SettingUp
    <2>1. ~Ask /\ ~Batch /\ ~Land
      BY <1>6 DEF SettingUp, Ask, Batch, Land
    <2>2. CASE Hear
      BY <1>2, <1>6, <2>2, HearSetsUp DEF IInv
    <2>3. CASE Tick
      <3>1. Clock' /\ dropped' = dropped /\ SettingUp'
        BY <1>1, <1>6, <2>3, TickSetsUp
      <3>2. QED BY <1>1, <1>2, <3>1 DEF IInv
    <2>4. QED BY <1>3, <1>4, <1>5, <2>1, <2>2, <2>3 DEF Next
  <1>7. ASSUME NEW l, NEW h, InPlay(l, h), Sounding(l) PROVE IInv'
    <2>1. CASE Ask
      <3>1. Clock' /\ InPlay(l, h)'
        BY <1>1, <1>7, <2>1, AskPlays
      <3>2. sounding' = sounding /\ panel' = panel /\ dropped' = dropped
        BY <2>1 DEF Ask, Keeps, board
      <3>3. Sounding(l)'
        BY <1>2, <1>7, <3>2, SoundingStays
      <3>4. QED BY <1>1, <1>2, <3>1, <3>2, <3>3 DEF IInv
    <2>2. CASE Batch
      <3>1. Clock' /\ InPlay(l, h)'
        BY <1>1, <1>7, <2>2, BatchPlays
      <3>2. sounding' = sounding /\ panel' = panel /\ dropped' = dropped
        BY <2>2 DEF Batch, Sends, board
      <3>3. Sounding(l)'
        BY <1>2, <1>7, <3>2, SoundingStays
      <3>4. QED BY <1>1, <1>2, <3>1, <3>2, <3>3 DEF IInv
    <2>3. CASE Hear
      <3>1. Clock' /\ ~dropped' /\ (\E n : InPlay(l, n)') /\ sounding' = sounding /\ panel' = panel
        BY <1>1, <1>7, <2>3, HearPlays
      <3>2. Sounding(l)'
        BY <1>2, <1>7, <3>1, SoundingStays
      <3>3. QED BY <1>2, <3>1, <3>2 DEF IInv
    <2>4. CASE Land
      <3>1. Clock' /\ dropped' = dropped /\ InPlay(l + 1, h)' /\ Sounding(l + 1)'
        BY <1>1, <1>7, <2>4, LandPlays
      <3>2. QED BY <1>1, <1>2, <3>1 DEF IInv
    <2>5. CASE Tick
      <3>1. Clock' /\ dropped' = dropped /\ InPlay(l, h)' /\ sounding' = sounding /\ panel' = panel
        BY <1>1, <1>7, <2>5, TickPlays
      <3>2. Sounding(l)'
        BY <1>2, <1>7, <3>1, SoundingStays
      <3>3. QED BY <1>1, <1>2, <3>1, <3>2 DEF IInv
    <2>6. QED BY <1>3, <1>4, <1>5, <2>1, <2>2, <2>3, <2>4, <2>5 DEF Next
  <1>8. QED BY <1>1, <1>6, <1>7

LEMMA Holding == Spec => []IInv
  <1>1. Init => IInv
    BY Inits
  <1>2. IInv /\ [Next]_vars => IInv'
    BY Steps
  <1>3. QED BY <1>1, <1>2, PTL DEF Spec

\* The ring drops nothing: what the host sends fits, however old the count it
\* reckons with, and however late within Late the events land
\* (player.py 44-52, 106-141).
THEOREM NeverDrops == Spec => []NothingDropped
  <1>1. IInv => NothingDropped
    BY DEF IInv, NothingDropped
  <1>2. QED BY <1>1, Holding, PTL

\* When nothing is due, what has landed is what has its time.
LEMMA WhatHasItsTime ==
  ASSUME Piece, now \in Nat, NEW l, NEW h, InPlay(l, h), ~Due, NEW st, NEW rl, Arranged(score.notes, events, st, rl)
  PROVE  Held(score.notes, now - origin) = Playing(st, rl, l)
  <1>1. origin \in Int /\ l \in Nat /\ Landed(events, origin, now, l)
    BY DEF InPlay
  <1>2. events \in Seq(Event) /\ Len(events) \in Nat /\ score.notes \in Seq(NoteLine)
    BY PieceIs DEF Piece
  <1>3. ASSUME NEW k \in 1 .. Len(events) PROVE AtOf(events, origin, k) <= now <=> k <= l
    <2>1. AtOf(events, origin, k) \in Int /\ k \in Nat
      BY <1>1, <1>2, EventFacts
    <2>2. now - AtOf(events, origin, k) \notin 0 .. Late
      <3>1. k \in DOMAIN events
        BY <1>2, EventFacts, <1>1
      <3>2. now - SampleOf(events[k]) \notin 0 .. Late
        BY <3>1 DEF Due
      <3>3. QED BY <3>2 DEF SampleOf, AtOf
    <2>3. (AtOf(events, origin, k) + Late < now => k <= l) /\ (k <= l => AtOf(events, origin, k) <= now)
      BY <1>1 DEF Landed
    <2>4. QED BY <1>1, <2>1, <2>2, <2>3, PlayerFacts
  <1>4. ASSUME NEW n \in 1 .. Len(score.notes)
        PROVE  /\ score.notes[n].time <= now - origin <=> st[n] <= l
               /\ now - origin < Ends(score.notes[n]) <=> l < rl[n]
    <2>1. /\ st[n] \in 1 .. Len(events) /\ rl[n] \in 1 .. Len(events) /\ st[n] \in Nat /\ rl[n] \in Nat
          /\ events[st[n]].sample = score.notes[n].time /\ events[rl[n]].sample = Ends(score.notes[n])
          /\ score.notes[n].time \in Nat /\ Ends(score.notes[n]) \in Nat
      <3> DEFINE notes == score.notes es == events
      <3>1. notes \in Seq(NoteLine) /\ es \in Seq(Event) /\ n \in 1 .. Len(notes) /\ Arranged(notes, es, st, rl)
        BY <1>2
      <3> HIDE DEF notes, es
      <3>2. /\ st[n] \in 1 .. Len(es) /\ rl[n] \in 1 .. Len(es) /\ st[n] \in Nat /\ rl[n] \in Nat
            /\ es[st[n]].sample = notes[n].time /\ es[rl[n]].sample = Ends(notes[n])
            /\ notes[n].time \in Nat /\ Ends(notes[n]) \in Nat
        BY <3>1, ArrangedFacts
      <3>3. QED BY <3>2 DEF notes, es
    <2>2. AtOf(events, origin, st[n]) = origin + score.notes[n].time /\ AtOf(events, origin, rl[n]) = origin + Ends(score.notes[n])
      BY <2>1 DEF AtOf
    <2>3. (origin + score.notes[n].time <= now <=> st[n] <= l) /\ (origin + Ends(score.notes[n]) <= now <=> rl[n] <= l)
      BY <1>3, <2>1, <2>2
    <2> DEFINE begin == score.notes[n].time end == Ends(score.notes[n]) a == st[n] b == rl[n]
    <2>4. /\ now \in Int /\ origin \in Int /\ begin \in Int /\ end \in Int /\ b \in Nat /\ l \in Nat
          /\ (origin + begin <= now <=> a <= l) /\ (origin + end <= now <=> b <= l)
      BY <1>1, <2>1, <2>3
    <2> HIDE DEF begin, end, a, b
    <2>5. (begin <= now - origin <=> a <= l) /\ (now - origin < end <=> l < b)
      BY <2>4
    <2>6. QED BY <2>5 DEF begin, end, a, b
  <1>5. DOMAIN st = 1 .. Len(score.notes) /\ DOMAIN score.notes = 1 .. Len(score.notes)
    BY <1>2, ArrangedFacts
  <1>6. QED BY <1>4, <1>5 DEF Held, Playing

\* What sounds between two events is what the score has sounding, pitch by pitch
\* and voice by voice, in the sound the score names (player.py 9-17, 56-65, 181-193).
THEOREM PlaysAsWritten == Spec => []AsWritten
  <1>1. ASSUME IInv PROVE AsWritten
    <2> SUFFICES ASSUME sent > 0, ~Due
                 PROVE  (\A p : Cardinality(Sounds(p)) = Cardinality(Written(p))) /\ InItsSound
      BY DEF AsWritten
    <2>1. Piece /\ now \in Nat
      BY <1>1 DEF IInv, Clock
    <2>2. ~SettingUp
      BY DEF SettingUp
    <2>3. PICK l, h : InPlay(l, h) /\ Sounding(l)
      BY <1>1, <2>2 DEF IInv
    <2>4. PICK st, rl : Arranged(score.notes, events, st, rl) /\ Sound(sounding, score.notes, st, rl, l)
      BY <2>3 DEF Sounding
    <2>5. Held(score.notes, now - origin) = Playing(st, rl, l)
      BY <2>1, <2>3, <2>4, WhatHasItsTime
    <2>6. ASSUME NEW p PROVE Cardinality(Sounds(p)) = Cardinality(Written(p))
      <3>1. Sounds(p) = At(sounding, p)
        BY DEF Sounds, At
      <3>2. Written(p) = Of(score.notes, Playing(st, rl, l), p)
        BY <2>5 DEF Written, Of
      <3>3. Cardinality(At(sounding, p)) = Cardinality(Of(score.notes, Playing(st, rl, l), p))
        BY <2>4 DEF Sound
      <3>4. QED BY <3>1, <3>2, <3>3
    <2>7. InItsSound
      BY <2>3 DEF Sounding, InItsSound
    <2>8. QED BY <2>6, <2>7
  <1>2. QED BY <1>1, Holding, PTL

\* Once the score is played nothing sounds: every note has been let go
\* (player.py 94-98, 198-216).
THEOREM SilentAtTheEnd == Spec => [](Over => sounding = << >>)
  <1>1. ASSUME IInv, Over PROVE sounding = << >>
    <2>1. Done /\ pc = "ask" /\ ring = << >> /\ wire = << >>
      BY <1>1 DEF Over
    <2>2. Piece /\ events \in Seq(Event) /\ Len(events) \in Nat /\ score.notes \in Seq(NoteLine)
      BY <1>1, PieceIs DEF IInv, Piece
    <2>3. PICK l, h : InPlay(l, h) /\ Sounding(l)
      BY <1>1, <2>1 DEF IInv, SettingUp
    <2>4. /\ origin \in Int /\ l \in Nat /\ h \in Nat /\ sent \in Nat /\ l <= h /\ h <= sent /\ sent <= Len(events)
          /\ wire \in Seq(Command) /\ Says(events, origin, wire, h, anchor, sent, acc)
          /\ ring = RingOf(events, origin, l, h)
      BY <2>3 DEF InPlay
    <2>5. h = sent
      <3>1. events \in Seq(Event) /\ wire \in Seq(Command) /\ Says(events, origin, wire, h, anchor, sent, acc)
        BY <2>2, <2>4
      <3>2. wire = << >> => h = sent
        BY <3>1, SaysNoMore
      <3>3. QED BY <2>1, <3>2
    <2>6. h - l = 0
      <3>1. h <= Len(events)
        BY <2>2, <2>4
      <3>2. Len(RingOf(events, origin, l, h)) = h - l
        BY <2>2, <2>4, <3>1, RingIs
      <3>3. Len(ring) = 0
        BY <2>1
      <3>4. QED BY <2>4, <3>2, <3>3
    <2>7. l = Len(events)
      BY <2>1, <2>2, <2>4, <2>5, <2>6 DEF Done
    <2>8. PICK st, rl : Arranged(score.notes, events, st, rl) /\ Sound(sounding, score.notes, st, rl, l)
      BY <2>3 DEF Sounding
    <2>9. Playing(st, rl, l) = {}
      <3>1. DOMAIN st = 1 .. Len(score.notes) /\ \A n \in 1 .. Len(score.notes) : rl[n] \in 1 .. Len(events)
        BY <2>2, <2>8, ArrangedFacts
      <3>2. \A n \in 1 .. Len(score.notes) : ~(l < rl[n])
        BY <2>2, <2>7, <3>1
      <3>3. QED BY <3>1, <3>2 DEF Playing
    <2>10. sounding \in Seq(Nat) /\ Len(sounding) = 0
      BY <2>8, <2>9, FS_EmptySet DEF Sound
    <2>11. QED BY <2>10, EmptySeq
  <1>2. QED BY <1>1, Holding, PTL

=============================================================================
