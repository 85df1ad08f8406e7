-------------------------- MODULE ScoreOps_proofs ---------------------------
(***************************************************************************)
(* What each operation of LayersPresenter does to the invariant and to the  *)
(* rows, as the sequence of the documents it passes through: the panel's    *)
(* moves and groups, and the sync of the loaded audio and lyrics.           *)
(***************************************************************************)
EXTENDS ScoreDocs_proofs

-----------------------------------------------------------------------------
(* Gestures as sequences of documents.                                      *)

\* A gesture goes on with one, two or three more commits.
LEMMA HistoryGrows ==
    ASSUME NEW h \in Histories
    PROVE  /\ h \in Seq(Good) /\ Len(h) \in Nat \ {0} /\ Last(h) \in Good /\ Last(h) \in Documents
           /\ \A d \in Good : Append(h, d) \in Histories /\ Last(Append(h, d)) = d
           /\ \A d, e \in Good : h \o <<d, e>> \in Histories /\ Last(h \o <<d, e>>) = e
           /\ \A d, e, f \in Good :
                 h \o <<d, e, f>> \in Histories /\ Last(h \o <<d, e, f>>) = f
<1>1. h \in Seq(Good) /\ h # <<>>
  BY DEF Histories
<1>2. Len(h) \in Nat \ {0}
  BY <1>1, EmptySeq, LenProperties
<1>3. Last(h) \in Good /\ Last(h) \in Documents
  <2>1. Len(h) \in 1 .. Len(h)
    BY <1>2
  <2>2. h[Len(h)] \in Good
    BY <1>1, <2>1, ElementOfSeq
  <2>3. QED BY <2>2 DEF Last, Good
<1>4. ASSUME NEW d \in Good
      PROVE  Append(h, d) \in Histories /\ Last(Append(h, d)) = d
  <2>1. /\ Append(h, d) \in Seq(Good) /\ Append(h, d) # <<>>
        /\ Len(Append(h, d)) = Len(h) + 1 /\ Append(h, d)[Len(h) + 1] = d
    BY <1>1, AppendProperties
  <2>2. QED BY <2>1 DEF Histories, Last
<1>5. ASSUME NEW d \in Good, NEW e \in Good
      PROVE  h \o <<d, e>> \in Histories /\ Last(h \o <<d, e>>) = e
  <2>1. /\ <<d, e>> \in Seq(Good) /\ Len(<<d, e>>) = 2 /\ <<d, e>>[2] = e
    OBVIOUS
  <2> DEFINE t == <<d, e>>
  <2> HIDE DEF t
  <2>2. h \o t \in Seq(Good) /\ Len(h \o t) = Len(h) + 2 /\ (h \o t)[Len(h) + 2] = e
    <3>1. t \in Seq(Good) /\ Len(t) = 2 /\ t[2] = e
      BY <2>1 DEF t
    <3>2. /\ h \o t \in Seq(Good) /\ Len(h \o t) = Len(h) + Len(t)
          /\ \A i \in 1 .. Len(h) + Len(t) : (h \o t)[i] =
                IF i <= Len(h) THEN h[i] ELSE t[i - Len(h)]
      BY ONLY <1>1, <3>1, ConcatProperties
    <3>3. Len(h) + 2 \in 1 .. Len(h) + Len(t) /\ ~(Len(h) + 2 <= Len(h))
          /\ Len(h) + 2 - Len(h) = 2
      BY <1>2, <3>1
    <3>4. (h \o t)[Len(h) + 2] = t[Len(h) + 2 - Len(h)]
      BY ONLY <3>2, <3>3
    <3>5. QED BY <3>1, <3>2, <3>3, <3>4
  <2>3. Len(h \o t) # 0
    BY <1>2, <2>2
  <2>4. h \o t # <<>>
    BY <2>3
  <2>5. h \o t \in Histories /\ Last(h \o t) = e
    BY <2>2, <2>4 DEF Histories, Last
  <2>6. QED BY <2>5 DEF t
<1>6. ASSUME NEW d \in Good, NEW e \in Good, NEW f \in Good
      PROVE  h \o <<d, e, f>> \in Histories /\ Last(h \o <<d, e, f>>) = f
  <2>1. /\ <<d, e, f>> \in Seq(Good) /\ Len(<<d, e, f>>) = 3 /\ <<d, e, f>>[3] = f
    OBVIOUS
  <2> DEFINE t == <<d, e, f>>
  <2> HIDE DEF t
  <2>2. h \o t \in Seq(Good) /\ Len(h \o t) = Len(h) + 3 /\ (h \o t)[Len(h) + 3] = f
    <3>1. t \in Seq(Good) /\ Len(t) = 3 /\ t[3] = f
      BY <2>1 DEF t
    <3>2. /\ h \o t \in Seq(Good) /\ Len(h \o t) = Len(h) + Len(t)
          /\ \A i \in 1 .. Len(h) + Len(t) : (h \o t)[i] =
                IF i <= Len(h) THEN h[i] ELSE t[i - Len(h)]
      BY ONLY <1>1, <3>1, ConcatProperties
    <3>3. Len(h) + 3 \in 1 .. Len(h) + Len(t) /\ ~(Len(h) + 3 <= Len(h))
          /\ Len(h) + 3 - Len(h) = 3
      BY <1>2, <3>1
    <3>4. (h \o t)[Len(h) + 3] = t[Len(h) + 3 - Len(h)]
      BY ONLY <3>2, <3>3
    <3>5. QED BY <3>1, <3>2, <3>3, <3>4
  <2>3. Len(h \o t) # 0
    BY <1>2, <2>2
  <2>4. h \o t # <<>>
    BY <2>3
  <2>5. h \o t \in Histories /\ Last(h \o t) = f
    BY <2>2, <2>4 DEF Histories, Last
  <2>6. QED BY <2>5 DEF t
<1>7. QED BY <1>1, <1>2, <1>3, <1>4, <1>5, <1>6

\* Being Rearranged composes.
LEMMA RearrangedTwice ==
    ASSUME NEW d, NEW e, NEW f, Rearranged(d, e), Rearranged(e, f)
    PROVE  Rearranged(d, f)
<1>1. QED BY DEF Rearranged

\* One document is one, to begin with.
LEMMA RearrangedNot ==
    ASSUME NEW d \in Documents
    PROVE  Rearranged(d, d)
<1>1. QED BY DEF Rearranged

\* A run deleted from its end is, at the end, cut off before ti; on the way
\* it is one of its prefixes.
LEMMA CutGood ==
    ASSUME NEW h \in Histories, NEW li \in DOMAIN Last(h).ordering,
           NEW si \in DOMAIN Last(h).ordering[li].slots,
           NEW ti \in DOMAIN Last(h).ordering[li].slots[si].tracks
    PROVE  LET d == Last(h)
               ts == d.ordering[li].slots[si].tracks
           IN /\ Cut(h, li, si, ti) \in Histories
              /\ Last(Cut(h, li, si, ti)) = WithTracks(d, li, si, SubSeq(ts, 1, ti - 1))
<1> DEFINE d == Last(h)
           ts == d.ordering[li].slots[si].tracks
           n == Len(ts) - ti + 1
           c == [i \in 1 .. n |-> WithTracks(d, li, si, SubSeq(ts, 1, Len(ts) - i))]
<1>1. d \in Good /\ d \in Documents /\ h \in Seq(Good) /\ Len(h) \in Nat \ {0}
  BY HistoryGrows
<1>2. Len(ts) \in Nat /\ ti \in 1 .. Len(ts)
  BY <1>1, DocumentShape
<1>3. n \in Nat \ {0} /\ Len(ts) - n = ti - 1 /\ \A i \in 1 .. n : Len(ts) - i \in 0 .. Len(ts)
  <2> HIDE DEF ts
  <2> QED BY <1>2
<1>4. \A i \in 1 .. n : WithTracks(d, li, si, SubSeq(ts, 1, Len(ts) - i)) \in Good
  BY <1>1, <1>3, PrefixGood
<1>5. Cut(h, li, si, ti) = h \o c
  BY DEF Cut, WithTracks
<1> HIDE DEF n
<1>6. c \in Seq(Good) /\ Len(c) = n /\ c[n] = WithTracks(d, li, si, SubSeq(ts, 1, ti - 1))
  <2>1. c \in [1 .. n -> Good] /\ n \in Nat
    BY <1>3, <1>4
  <2>2. c \in Seq(Good) /\ Len(c) = n
    BY <2>1, SeqDef, LenProperties
  <2>3. c[n] = WithTracks(d, li, si, SubSeq(ts, 1, Len(ts) - n))
    BY <1>3
  <2>4. QED BY <1>3, <2>2, <2>3
<1> HIDE DEF c
<1>7. h \o c \in Seq(Good) /\ Len(h \o c) = Len(h) + n /\ (h \o c)[Len(h) + n] = c[n]
  <2>1. h \in Seq(Good) /\ c \in Seq(Good)
    BY <1>1, <1>6
  <2>2. /\ h \o c \in Seq(Good) /\ Len(h \o c) = Len(h) + Len(c)
        /\ \A i \in 1 .. Len(h) + Len(c) :
              (h \o c)[i] = IF i <= Len(h) THEN h[i] ELSE c[i - Len(h)]
    BY ONLY <2>1, ConcatProperties
  <2>3. Len(h) + n \in 1 .. Len(h) + Len(c) /\ ~(Len(h) + n <= Len(h)) /\ (Len(h) + n) - Len(h) = n
    BY <1>1, <1>3, <1>6
  <2>4. QED BY <1>6, <2>2, <2>3
<1>8. Len(h \o c) # 0
  BY <1>1, <1>3, <1>7
<1>9. h \o c \in Histories /\ Last(h \o c) = c[n]
  BY <1>7, <1>8 DEF Histories, Last
<1>10. QED BY <1>5, <1>6, <1>9

\* A loose run and a group are slots.
LEMMA SlotsOfTracks ==
    ASSUME NEW ts \in Seq(TrackId)
    PROVE  /\ Loose(ts) \in Slot /\ Loose(ts).group = Null /\ Loose(ts).tracks = ts
           /\ \A g \in Nat : Group(g, ts) \in Slot /\ Group(g, ts).group = g
                              /\ Group(g, ts).tracks = ts
<1>1. QED BY DEF Slot, Loose, Group

\* A sequence of one track.
LEMMA OneTrack ==
    ASSUME NEW t \in TrackId
    PROVE  /\ <<t>> \in Seq(TrackId) /\ Len(<<t>>) = 1 /\ DOMAIN <<t>> = {1} /\ <<t>>[1] = t
           /\ ToSet(<<t>>) = {t}
<1>1. <<t>> \in Seq(TrackId) /\ Len(<<t>>) = 1 /\ DOMAIN <<t>> = {1} /\ <<t>>[1] = t
  OBVIOUS
<1>2. ToSet(<<t>>) = {t}
  BY <1>1 DEF ToSet
<1>3. QED BY <1>1, <1>2

\* Appending to the last loose run places the track and nothing else.
LEMMA AppendLooseGood ==
    ASSUME NEW d \in Good, NEW li \in DOMAIN d.ordering, NEW t \in TrackId,
           t \in Scope(d) => t \in DOMAIN d.tracks /\ t \notin Placed(d)
    PROVE  LET e == AppendLoose(d, li, t)
           IN /\ e \in Good /\ Rearranged(d, e) /\ e.groups = d.groups
              /\ Placed(e) = Placed(d) \cup {t}
<1> DEFINE q == d.ordering[li].slots
           last == LastLoose(q)
<1>1. d \in Documents
  BY DEF Good
<1>2. last \in Nat /\ (last > 0 => last \in DOMAIN d.ordering[li].slots)
  BY <1>1, LastLooseFinds
<1>3. CASE last > 0
  <2> DEFINE n == Len(q[last].tracks) + 1
  <2>1. n \in 1 .. Len(d.ordering[li].slots[last].tracks) + 1
    BY <1>1, <1>2, <1>3, DocumentShape
  <2>2. AppendLoose(d, li, t) = InsertTrack(d, li, last, n, t)
    BY <1>3 DEF AppendLoose
  <2> HIDE DEF n, last
  <2>3. QED BY <1>2, <1>3, <2>1, <2>2, InsertTrackGood
<1>4. CASE ~(last > 0)
  <2> DEFINE n == Len(q) + 1
             slot == Loose(<<t>>)
  <2>1. n \in 1 .. Len(d.ordering[li].slots) + 1
    BY <1>1, DocumentShape
  <2>2. slot \in Slot /\ slot.group = Null /\ slot.tracks = <<t>>
    BY OneTrack, SlotsOfTracks
  <2>3. AppendLoose(d, li, t) = InsertSlot(d, li, n, slot)
    BY <1>4 DEF AppendLoose
  <2> HIDE DEF n, slot
  <2>4. Free(d, slot.group) /\ Fits(d, slot.tracks)
    BY <2>2, OneTrack DEF Free, Fits
  <2>5. /\ InsertSlot(d, li, n, slot) \in Good
        /\ Placed(InsertSlot(d, li, n, slot)) = Placed(d) \cup {t}
    <3>1. ToSet(slot.tracks) = {t}
      BY <2>2, OneTrack
    <3>2. InsertSlot(d, li, n, slot) \in Good
          /\ Placed(InsertSlot(d, li, n, slot)) = Placed(d) \cup ToSet(slot.tracks)
      BY <2>1, <2>2, <2>4, InsertSlotGood
    <3>3. QED BY <3>1, <3>2
  <2>6. Rearranged(d, InsertSlot(d, li, n, slot)) /\ InsertSlot(d, li, n, slot).groups = d.groups
    BY <1>1, <2>1, <2>2, InsertSlotShape
  <2>7. QED BY <2>3, <2>5, <2>6
<1>5. QED BY <1>3, <1>4

\* Taking a row out, and its run if that empties it, touches no other track.
LEMMA UprootGood ==
    ASSUME NEW h \in Histories, NEW row, NEW t, InRow(Last(h), row.li, row.si, row.ti, t)
    PROVE  LET d == Last(h)
               u == Uproot(h, row)
               e == Last(u)
           IN /\ u \in Histories /\ Rearranged(d, e) /\ e.groups = d.groups
              /\ \A x \in Placed(e) : x \in Placed(d)
              /\ t \in Scope(d) => t \notin Placed(e)
              /\ \A i, x : x # t /\ InLayer(d, i, x) => InLayer(e, i, x)
<1> DEFINE d == Last(h)
           li == row.li
           si == row.si
           f == DropTrack(d, li, si, row.ti)
           u == Uproot(h, row)
<1>1. d \in Good /\ d \in Documents
  BY HistoryGrows
<1>2. /\ li \in DOMAIN d.ordering /\ si \in DOMAIN d.ordering[li].slots
      /\ row.ti \in DOMAIN d.ordering[li].slots[si].tracks
      /\ d.ordering[li].slots[si].tracks[row.ti] = t
  BY DEF InRow
<1> HIDE DEF li, si
<1>3. /\ f \in Good /\ Rearranged(d, f) /\ f.groups = d.groups
      /\ \A x \in Placed(f) : x \in Placed(d)
      /\ t \in Scope(d) => t \notin Placed(f)
      /\ \A i, j, k, x : InRow(d, i, j, k, x) /\ x # t => \E k2 : InRow(f, i, j, k2, x)
  <2> HIDE DEF d
  <2> QED BY <1>1, <1>2, DropTrackGood
<1>4. DOMAIN f.ordering = DOMAIN d.ordering /\ DOMAIN f.ordering[li].slots = DOMAIN d.ordering[li].slots
  <2> HIDE DEF d
  <2> QED BY <1>1, <1>2, <1>3, DropTrackShape DEF Rearranged
<1>5. u = IF SlotOf(f, row) = Loose(<<>>) THEN h \o <<f, DropSlot(f, li, si)>> ELSE Append(h, f)
  BY DEF Uproot, li, si
<1> HIDE DEF f, u, d
<1>6. CASE SlotOf(f, row) # Loose(<<>>)
  <2>1. u \in Histories /\ Last(u) = f
    BY <1>3, <1>5, <1>6, HistoryGrows
  <2>2. \A i, x : x # t /\ InLayer(d, i, x) => InLayer(f, i, x)
    BY <1>3, InLayerByPosition
  <2>3. QED BY <1>3, <2>1, <2>2 DEF u, d
<1>7. CASE SlotOf(f, row) = Loose(<<>>)
  <2> DEFINE e == DropSlot(f, li, si)
  <2>1. f \in Documents /\ li \in DOMAIN f.ordering /\ si \in DOMAIN f.ordering[li].slots
    BY <1>2, <1>3, <1>4 DEF Good
  <2>2. /\ e \in Good /\ \A x \in Placed(e) : x \in Placed(f)
    BY <1>3, <2>1, DropSlotGood
  <2>3. /\ Rearranged(f, e) /\ e.groups = f.groups
        /\ \A i, j, k \in Nat : \A x : InRow(e, i, j, k, x) <=>
              IF i # li \/ j < si THEN InRow(f, i, j, k, x) ELSE InRow(f, i, j + 1, k, x)
    BY <2>1, DropSlotShape
  <2> HIDE DEF e
  <2>4. u \in Histories /\ Last(u) = e
    BY <1>3, <1>5, <1>7, <2>2, HistoryGrows DEF e
  <2>5. Rearranged(d, e) /\ e.groups = d.groups
    BY <1>3, <2>3, RearrangedTwice
  <2>6. ASSUME NEW i, NEW x, x # t, InLayer(d, i, x) PROVE InLayer(e, i, x)
    <3>1. PICK j, k : InRow(f, i, j, k, x)
      BY <1>3, <2>6, InLayerByPosition
    <3>2. i \in Nat \ {0} /\ j \in Nat \ {0} /\ k \in Nat \ {0} /\ li \in Nat /\ si \in Nat
      BY <2>1, <3>1, InRowNat, DocumentShape
    <3>3. f.ordering[li].slots[si].tracks = <<>>
      BY <1>7 DEF SlotOf, Loose, li, si
    <3>4. ~(i = li /\ j = si)
      BY <3>1, <3>3 DEF InRow
    <3>5. CASE i # li \/ j < si
      <4>1. InRow(e, i, j, k, x)
        BY <2>3, <3>1, <3>2, <3>5
      <4>2. QED BY <4>1, InLayerByPosition
    <3>6. CASE i = li /\ j > si
      <4>1. j - 1 \in Nat /\ ~(j - 1 < si) /\ (j - 1) + 1 = j
        BY <3>2, <3>6
      <4>2. InRow(e, i, j - 1, k, x)
        BY <2>3, <3>1, <3>2, <3>6, <4>1
      <4>3. QED BY <4>2, InLayerByPosition
    <3>7. QED BY <3>2, <3>4, <3>5, <3>6
  <2>7. QED BY <1>3, <2>2, <2>4, <2>5, <2>6 DEF u, d
<1>8. QED BY <1>6, <1>7

\* A slot and the tail of a run go in one behind the other.
LEMMA InsertWithTailGood ==
    ASSUME NEW h \in Histories, NEW li \in DOMAIN Last(h).ordering,
           NEW si \in 1 .. Len(Last(h).ordering[li].slots) + 1, NEW slot \in Slot,
           NEW tail \in Seq(TrackId),
           Free(Last(h), slot.group), Fits(Last(h), slot.tracks), Fits(Last(h), tail),
           \A x \in ToSet(tail) : x \in Scope(Last(h)) => x \notin ToSet(slot.tracks)
    PROVE  LET g == InsertWithTail(h, li, si, slot, tail)
           IN /\ g \in Histories /\ Rearranged(Last(h), Last(g))
              /\ Last(g).groups = Last(h).groups
              /\ Placed(Last(g)) = Placed(Last(h)) \cup ToSet(slot.tracks) \cup ToSet(tail)
<1> DEFINE d == Last(h)
           e == InsertSlot(d, li, si, slot)
           f == InsertSlot(e, li, si + 1, Loose(tail))
<1>1. d \in Good /\ d \in Documents
  BY HistoryGrows
<1> HIDE DEF d
<1>2. li \in DOMAIN d.ordering /\ si \in 1 .. Len(d.ordering[li].slots) + 1
      /\ Len(d.ordering[li].slots) \in Nat
  BY <1>1, DocumentShape DEF d
<1>3. e \in Good /\ Placed(e) = Placed(d) \cup ToSet(slot.tracks)
  BY <1>1, <1>2, InsertSlotGood DEF d
<1>4. /\ Rearranged(d, e) /\ e.groups = d.groups
      /\ Len(e.ordering[li].slots) = Len(d.ordering[li].slots) + 1
  BY <1>1, <1>2, InsertSlotShape
<1> HIDE DEF e
<1>5. CASE tail = <<>>
  <2>1. InsertWithTail(h, li, si, slot, tail) = Append(h, e)
    BY <1>5 DEF InsertWithTail, e, d
  <2>2. ToSet(tail) = {}
    BY <1>5 DEF ToSet
  <2>3. Append(h, e) \in Histories /\ Last(Append(h, e)) = e
    BY <1>3, HistoryGrows
  <2>4. QED BY <1>3, <1>4, <2>1, <2>2, <2>3 DEF d
<1>6. CASE tail # <<>>
  <2>1. InsertWithTail(h, li, si, slot, tail) = h \o <<e, f>>
    BY <1>6 DEF InsertWithTail, e, d
  <2>2. li \in DOMAIN e.ordering /\ si + 1 \in 1 .. Len(e.ordering[li].slots) + 1
    BY <1>2, <1>4 DEF Rearranged
  <2>3. Loose(tail) \in Slot /\ Loose(tail).group = Null /\ Loose(tail).tracks = tail
    BY SlotsOfTracks
  <2>4. Free(e, Loose(tail).group)
    BY <2>3 DEF Free
  <2>5. Fits(e, Loose(tail).tracks)
    <3>1. Scope(e) = Scope(d) /\ e.tracks = d.tracks
      BY <1>4, RearrangedSame DEF Rearranged
    <3>2. ASSUME NEW k \in DOMAIN tail, tail[k] \in Scope(e)
          PROVE  /\ tail[k] \in DOMAIN e.tracks /\ tail[k] \notin Placed(e)
                 /\ \A k2 \in DOMAIN tail : tail[k2] = tail[k] => k2 = k
      <4>1. tail[k] \in ToSet(tail)
        BY DEF ToSet
      <4>2. QED BY <1>3, <3>1, <3>2, <4>1 DEF Fits, d
    <3>3. QED BY <2>3, <3>2 DEF Fits
  <2>6. f \in Good /\ Placed(f) = Placed(e) \cup ToSet(tail)
    BY <1>3, <2>2, <2>3, <2>4, <2>5, InsertSlotGood
  <2>7. Rearranged(e, f) /\ f.groups = e.groups
    BY <1>3, <2>2, <2>3, InsertSlotShape DEF Good
  <2> HIDE DEF f
  <2>8. Rearranged(d, f)
    BY <1>4, <2>7, RearrangedTwice
  <2> DEFINE g == InsertWithTail(h, li, si, slot, tail)
  <2>9. g \in Histories /\ Last(g) = f
    BY <1>3, <2>1, <2>6, HistoryGrows
  <2> HIDE DEF g
  <2>10. QED BY <1>3, <1>4, <2>6, <2>7, <2>8, <2>9 DEF d, g
<1>7. QED BY <1>5, <1>6

\* e is d with the run ts at (li, si) cut off before ti: what the run loses
\* may be placed again, and nothing else lost its row.
Split(d, li, si, ti, ts, e) ==
    /\ e \in Good /\ Rearranged(d, e) /\ e.groups = d.groups
    /\ \A i, j, g : InSlot(e, i, j, g) <=> InSlot(d, i, j, g)
    /\ \A i \in DOMAIN d.ordering : DOMAIN e.ordering[i].slots = DOMAIN d.ordering[i].slots
    /\ \A k : \A x : InRow(e, li, si, k, x) => k < ti
    /\ \A x \in Placed(e) : x \in Placed(d)
    /\ \A x \in Placed(d) : x \in Placed(e) \/ \E k \in ti .. Len(ts) : x = ts[k]
    /\ \A k \in ti .. Len(ts) :
          /\ ts[k] \in TrackId /\ ts[k] \in Placed(d)
          /\ ts[k] \in Scope(d) =>
                /\ ts[k] \in DOMAIN d.tracks /\ ts[k] \notin Placed(e)
                /\ \A k2 \in 1 .. Len(ts) : ts[k2] = ts[k] => k2 = k
    /\ \A a \in ti .. Len(ts) + 1 :
          LET tail == SubSeq(ts, a, Len(ts))
          IN /\ tail \in Seq(TrackId) /\ Fits(e, tail)
             /\ ToSet(tail) = {ts[k] : k \in a .. Len(ts)}

\* A run of a document can be so cut off.
LEMMA SplitRun ==
    ASSUME NEW d \in Good, NEW li \in DOMAIN d.ordering, NEW si \in DOMAIN d.ordering[li].slots,
           NEW ti \in DOMAIN d.ordering[li].slots[si].tracks
    PROVE  Split(d, li, si, ti, d.ordering[li].slots[si].tracks,
                 WithTracks(d, li, si, SubSeq(d.ordering[li].slots[si].tracks, 1, ti - 1)))
<1> DEFINE ts == d.ordering[li].slots[si].tracks
           e == WithTracks(d, li, si, SubSeq(ts, 1, ti - 1))
<1>1. /\ d \in Documents /\ ts \in Seq(TrackId) /\ Len(ts) \in Nat /\ ti \in 1 .. Len(ts)
      /\ ti - 1 \in 0 .. Len(ts)
  <2>1. d \in Documents
    BY DEF Good
  <2>2. ts \in Seq(TrackId) /\ Len(ts) \in Nat /\ DOMAIN ts = 1 .. Len(ts)
    BY <2>1, DocumentShape
  <2> HIDE DEF ts
  <2>3. ti \in DOMAIN ts
    BY DEF ts
  <2>4. QED BY <2>1, <2>2, <2>3
<1>2. /\ e \in Good /\ Rearranged(d, e) /\ e.groups = d.groups
      /\ \A x \in Placed(e) : x \in Placed(d)
      /\ \A k : \A x \in Scope(d) : InRow(d, li, si, k, x) /\ k > ti - 1 => x \notin Placed(e)
  BY <1>1, PrefixGood
<1>3. /\ \A i \in DOMAIN d.ordering : DOMAIN e.ordering[i].slots = DOMAIN d.ordering[i].slots
      /\ \A i, j, g : InSlot(e, i, j, g) <=> InSlot(d, i, j, g)
      /\ \A i, j, k, x : i # li \/ j # si => (InRow(e, i, j, k, x) <=> InRow(d, i, j, k, x))
      /\ \A k \in Nat : \A x : InRow(e, li, si, k, x) <=> k <= ti - 1 /\ InRow(d, li, si, k, x)
  BY ONLY <1>1, li \in DOMAIN d.ordering, si \in DOMAIN d.ordering[li].slots, PrefixShape, ZenonT(60)
<1>4. \A k, x : InRow(d, li, si, k, x) <=> k \in 1 .. Len(ts) /\ x = ts[k]
  <2>1. DOMAIN ts = 1 .. Len(ts)
    BY <1>1, DocumentShape
  <2>2. QED BY <2>1 DEF InRow
<1> HIDE DEF ts, e
<1>5. ASSUME NEW k, NEW x, InRow(e, li, si, k, x) PROVE k < ti
  <2>1. k \in Nat
    BY <1>2, <1>5, InRowNat DEF Good
  <2>2. QED BY <1>1, <1>3, <1>5, <2>1
<1>6. ASSUME NEW x \in Placed(d), x \notin Placed(e) PROVE \E k \in ti .. Len(ts) : x = ts[k]
  <2>1. PICK i, j, k : InRow(d, i, j, k, x)
    BY PlacedByPosition
  <2>2. ~InRow(e, i, j, k, x)
    BY <1>6, PlacedByPosition
  <2>3. i = li /\ j = si
    BY <1>3, <2>1, <2>2
  <2>4. k \in 1 .. Len(ts) /\ x = ts[k] /\ ~(k <= ti - 1)
    BY <1>1, <1>3, <1>4, <2>1, <2>2, <2>3
  <2>5. QED BY <1>1, <2>4
<1>7. ASSUME NEW k \in ti .. Len(ts)
      PROVE  /\ ts[k] \in TrackId /\ ts[k] \in Placed(d)
             /\ ts[k] \in Scope(d) =>
                   /\ ts[k] \in DOMAIN d.tracks /\ ts[k] \notin Placed(e)
                   /\ \A k2 \in 1 .. Len(ts) : ts[k2] = ts[k] => k2 = k
  <2>1. k \in 1 .. Len(ts) /\ k > ti - 1
    BY <1>1
  <2>2. InRow(d, li, si, k, ts[k]) /\ \A k2 \in 1 .. Len(ts) : InRow(d, li, si, k2, ts[k2])
    BY <1>4, <2>1
  <2>3. ts[k] \in TrackId
    BY <1>1, <2>2, InRowNat
  <2>4. ts[k] \in Placed(d)
    BY <2>2, PlacedByPosition
  <2>5. ASSUME ts[k] \in Scope(d)
        PROVE  /\ ts[k] \in DOMAIN d.tracks /\ ts[k] \notin Placed(e)
               /\ \A k2 \in 1 .. Len(ts) : ts[k2] = ts[k] => k2 = k
    <3>1. /\ ts[k] \in DOMAIN d.tracks
          /\ \A i2, j2, k2 : InRow(d, i2, j2, k2, ts[k]) => li = i2 /\ si = j2 /\ k = k2
      BY <1>1, <2>2, <2>5, GoodByPosition
    <3>2. QED BY <1>2, <2>1, <2>2, <2>5, <3>1
  <2>6. QED BY <2>3, <2>4, <2>5
<1>8. ASSUME NEW a \in ti .. Len(ts) + 1
      PROVE  LET tail == SubSeq(ts, a, Len(ts))
             IN /\ tail \in Seq(TrackId) /\ Fits(e, tail)
                /\ ToSet(tail) = {ts[k] : k \in a .. Len(ts)}
  <2> DEFINE tail == SubSeq(ts, a, Len(ts))
  <2>1. /\ tail \in Seq(TrackId) /\ Len(tail) = Len(ts) - a + 1
        /\ \A k \in 1 .. Len(ts) - a + 1 : tail[k] = ts[a + k - 1]
    BY <1>1, SubSeqProperties
  <2>2. DOMAIN tail = 1 .. Len(ts) - a + 1
    BY <2>1, LenProperties
  <2> HIDE DEF tail
  <2>3. \A k \in DOMAIN tail : a + k - 1 \in ti .. Len(ts) /\ tail[k] = ts[a + k - 1]
    BY <1>1, <2>1, <2>2
  <2>4. ToSet(tail) = {ts[k] : k \in a .. Len(ts)}
    <3>1. ASSUME NEW k \in a .. Len(ts) PROVE \E m \in DOMAIN tail : tail[m] = ts[k]
      <4>1. k - a + 1 \in 1 .. Len(ts) - a + 1 /\ a + (k - a + 1) - 1 = k
        BY <1>1
      <4>2. QED BY <2>1, <2>2, <4>1
    <3>2. ASSUME NEW m \in DOMAIN tail PROVE \E k \in a .. Len(ts) : tail[m] = ts[k]
      <4>1. a + m - 1 \in a .. Len(ts)
        BY <1>1, <2>2
      <4>2. QED BY <2>3, <4>1
    <3>3. QED BY <3>1, <3>2 DEF ToSet
  <2>5. Scope(e) = Scope(d) /\ e.tracks = d.tracks
    BY <1>2, RearrangedSame DEF Rearranged
  <2>6. ASSUME NEW k \in DOMAIN tail, tail[k] \in Scope(e)
        PROVE  /\ tail[k] \in DOMAIN e.tracks /\ tail[k] \notin Placed(e)
               /\ \A k2 \in DOMAIN tail : tail[k2] = tail[k] => k2 = k
    <3>1. tail[k] \in DOMAIN e.tracks /\ tail[k] \notin Placed(e)
      BY <1>7, <2>3, <2>5, <2>6
    <3>2. ASSUME NEW k2 \in DOMAIN tail, tail[k2] = tail[k] PROVE k2 = k
      <4>1. a + k2 - 1 \in 1 .. Len(ts) /\ ts[a + k2 - 1] = ts[a + k - 1]
        BY <1>1, <2>3, <3>2
      <4>2. a + k2 - 1 = a + k - 1
        BY <1>7, <2>3, <2>5, <2>6, <4>1
      <4>3. QED BY <1>1, <2>2, <4>2
    <3>3. QED BY <3>1, <3>2
  <2>7. Fits(e, tail)
    BY <2>6 DEF Fits
  <2>8. QED BY <2>1, <2>4, <2>7 DEF tail
<1>9. Split(d, li, si, ti, ts, e)
  BY <1>2, <1>3, <1>5, <1>6, <1>7, <1>8 DEF Split
<1>10. QED BY <1>9 DEF ts, e

\* createGroup keeps the invariant at each of its commits, and every row.
LEMMA CreateGroupGood ==
    ASSUME NEW h \in Histories, NEW t
    PROVE  LET g == CreateGroup(h, t)
           IN /\ g \in Histories /\ Rearranged(Last(h), Last(g))
              /\ Placed(Last(g)) = Placed(Last(h))
<1> DEFINE d == Last(h)
           row == Locate(d, t)
           li == row.li
           si == row.si
           ti == row.ti
           ts == d.ordering[li].slots[si].tracks
           gid == FreshGroup(d)
           tail == SubSeq(ts, ti + 1, Len(ts))
           e0 == [d EXCEPT !.groups = d.groups \cup {gid}]
           named == Append(h, e0)
           head == Cut(named, li, si, ti)
           e1 == WithTracks(e0, li, si, SubSeq(ts, 1, ti - 1))
           slot == Group(gid, <<t>>)
           atTop == InsertSlot(Last(head), li, si, slot)
           alone == DropSlot(atTop, li, si + 1)
           loose == InsertSlot(alone, li, si + 1, Loose(tail))
           g == CreateGroup(h, t)
<1>1. d \in Good /\ d \in Documents
  BY HistoryGrows
<1>2. g = IF t \notin Placed(d) \/ SlotOf(d, row).group # Null THEN h
          ELSE IF ti > 1 THEN InsertWithTail(head, li, si + 1, slot, tail)
          ELSE IF tail = <<>> THEN head \o <<atTop, alone>>
          ELSE head \o <<atTop, alone, loose>>
  BY DEF CreateGroup, SlotOf
<1> HIDE DEF g
<1>3. CASE t \notin Placed(d) \/ SlotOf(d, row).group # Null
  BY <1>1, <1>2, <1>3, RearrangedNot DEF g
<1>4. CASE ~(t \notin Placed(d) \/ SlotOf(d, row).group # Null)
  <2>1. InRow(d, li, si, ti, t)
    <3> HIDE DEF d
    <3> QED BY <1>1, <1>4, LocateFinds
  <2> HIDE DEF d, row
  <2>2. /\ li \in DOMAIN d.ordering /\ si \in DOMAIN d.ordering[li].slots
        /\ ti \in DOMAIN ts /\ ts[ti] = t
    BY <2>1 DEF InRow
  <2>3. /\ li \in Nat \ {0} /\ si \in Nat \ {0} /\ ti \in 1 .. Len(ts) /\ Len(ts) \in Nat
        /\ t \in TrackId
    BY <1>1, <2>1, <2>2, InRowNat, DocumentShape
  <2>4. /\ gid \in Nat /\ gid \notin d.groups /\ d.groups \cup {gid} \in FiniteSubsetsOf(Nat)
    BY <1>1, FreshGroupIsNew
  <2> HIDE DEF li, si, ti, gid
  <2>5. e0 \in Good /\ Rearranged(d, e0) /\ e0.groups = d.groups \cup {gid}
        /\ e0.ordering = d.ordering
    <3>1. \A i, j, x : InSlot(d, i, j, x) /\ x # Null => x \in d.groups \cup {gid}
      BY <1>1, GoodByPosition
    <3>2. QED BY <1>1, <2>4, <3>1, RegroupGood
  <2> HIDE DEF e0
  <2>6. named \in Histories /\ Last(named) = e0
    BY <2>5, HistoryGrows DEF d
  <2> HIDE DEF named
  <2>7. /\ li \in DOMAIN e0.ordering /\ si \in DOMAIN e0.ordering[li].slots
        /\ ti \in DOMAIN e0.ordering[li].slots[si].tracks
        /\ ts = e0.ordering[li].slots[si].tracks
    BY <2>2, <2>5
  <2> HIDE DEF ts
  <2>8. head \in Histories /\ Last(head) = e1
    BY <2>6, <2>7, CutGood
  <2> HIDE DEF head
  <2>9. /\ e1 \in Good /\ Rearranged(e0, e1) /\ e1.groups = e0.groups
        /\ \A i, j, x : InSlot(e1, i, j, x) <=> InSlot(e0, i, j, x)
        /\ DOMAIN e1.ordering[li].slots = DOMAIN e0.ordering[li].slots
        /\ \A k : \A x : InRow(e1, li, si, k, x) => k < ti
        /\ \A x \in Placed(e1) : x \in Placed(e0)
        /\ \A x \in Placed(e0) : x \in Placed(e1) \/ \E k \in ti .. Len(ts) : x = ts[k]
        /\ \A k \in ti .. Len(ts) :
              /\ ts[k] \in TrackId /\ ts[k] \in Placed(e0)
              /\ ts[k] \in Scope(e0) =>
                    /\ ts[k] \in DOMAIN e0.tracks /\ ts[k] \notin Placed(e1)
                    /\ \A k2 \in 1 .. Len(ts) : ts[k2] = ts[k] => k2 = k
        /\ \A a \in ti .. Len(ts) + 1 :
              LET tl == SubSeq(ts, a, Len(ts))
              IN tl \in Seq(TrackId) /\ Fits(e1, tl) /\ ToSet(tl) = {ts[k] : k \in a .. Len(ts)}
    <3>1. Split(e0, li, si, ti, ts, e1)
      <4>1. Split(e0, li, si, ti, e0.ordering[li].slots[si].tracks,
                  WithTracks(e0, li, si, SubSeq(e0.ordering[li].slots[si].tracks, 1, ti - 1)))
        BY <2>5, <2>7, SplitRun
      <4>2. QED BY <2>7, <4>1
    <3> HIDE DEF e1
    <3>2. QED BY <2>7, <3>1 DEF Split
  <2>10. tail \in Seq(TrackId) /\ Fits(e1, tail) /\ ToSet(tail) = {ts[k] : k \in ti + 1 .. Len(ts)}
    <3>1. ti + 1 \in ti .. Len(ts) + 1
      BY <2>3
    <3>2. QED BY <2>9, <3>1
  <2> HIDE DEF tail, e1
  <2>11. Scope(e1) = Scope(d) /\ Scope(e0) = Scope(d) /\ e1.tracks = d.tracks /\ e0.tracks = d.tracks
    BY <2>5, <2>9, RearrangedSame DEF Rearranged
  <2>12. Placed(e0) = Placed(d)
    BY <2>5, SameOrdering
  <2>13. t \in Scope(e1) => /\ t \in DOMAIN e1.tracks /\ t \notin Placed(e1)
                            /\ t \notin ToSet(tail)
    <3>1. ti \in ti .. Len(ts)
      BY <2>3
    <3>2. \A k \in ti + 1 .. Len(ts) : t \in Scope(e1) => ts[k] # t
      BY <2>2, <2>3, <2>9, <2>11, <3>1
    <3>3. QED BY <2>2, <2>9, <2>10, <2>11, <3>1, <3>2
  <2>14. slot \in Slot /\ slot.group = gid /\ slot.tracks = <<t>> /\ ToSet(slot.tracks) = {t}
    <3>1. <<t>> \in Seq(TrackId) /\ ToSet(<<t>>) = {t}
      BY <2>3, OneTrack
    <3>2. slot \in Slot /\ slot.group = gid /\ slot.tracks = <<t>>
      BY <2>4, <3>1, SlotsOfTracks
    <3>3. QED BY <3>1, <3>2
  <2> HIDE DEF slot
  <2>15. Free(e1, slot.group) /\ Fits(e1, slot.tracks)
    <3>1. \A i, j : ~InSlot(e1, i, j, gid)
      <4>1. \A i, j : ~InSlot(d, i, j, gid)
        <5>1. gid # Null
          BY <2>4, ScoreAssumption
        <5>2. QED BY <1>1, <2>4, <5>1, GoodByPosition
      <4>2. \A i, j : InSlot(e0, i, j, gid) <=> InSlot(d, i, j, gid)
        BY <2>5, SameOrdering
      <4>3. QED BY <2>9, <4>1, <4>2
    <3>2. Free(e1, slot.group)
      BY <2>5, <2>9, <2>14, <3>1 DEF Free
    <3>3. Fits(e1, slot.tracks)
      BY <2>3, <2>13, <2>14, OneTrack DEF Fits
    <3>4. QED BY <3>2, <3>3
  <2>16. /\ li \in DOMAIN e1.ordering /\ si \in DOMAIN e1.ordering[li].slots
         /\ si \in 1 .. Len(e1.ordering[li].slots)
         /\ Len(e1.ordering[li].slots) \in Nat
    <3>1. li \in DOMAIN e1.ordering /\ si \in DOMAIN e1.ordering[li].slots /\ e1 \in Documents
      BY <2>7, <2>9 DEF Rearranged
    <3>2. QED BY <3>1, DocumentShape
  <2>17. Placed(d) = Placed(e1) \cup {t} \cup ToSet(tail)
    <3>1. \A k \in ti .. Len(ts) : k = ti \/ k \in ti + 1 .. Len(ts)
      BY <2>3
    <3>2. \A k \in ti + 1 .. Len(ts) : k \in ti .. Len(ts)
      BY <2>3
    <3>3. ti \in ti .. Len(ts)
      BY <2>3
    <3>4. QED BY <2>2, <2>9, <2>10, <2>12, <3>1, <3>2, <3>3
  <2>18. Rearranged(d, e1)
    BY <2>5, <2>9, RearrangedTwice
  <2>19. CASE ti > 1
    <3>1. g = InsertWithTail(head, li, si + 1, slot, tail)
      BY <1>2, <1>4, <2>19
    <3>2. /\ g \in Histories /\ Rearranged(e1, Last(g))
          /\ Placed(Last(g)) = Placed(e1) \cup ToSet(slot.tracks) \cup ToSet(tail)
      <4>1. si + 1 \in 1 .. Len(e1.ordering[li].slots) + 1
        BY <2>16
      <4>2. \A x \in ToSet(tail) : x \in Scope(e1) => x \notin ToSet(slot.tracks)
        BY <2>13, <2>14
      <4>3. QED BY <2>8, <2>10, <2>14, <2>15, <2>16, <3>1, <4>1, <4>2, InsertWithTailGood, SMTT(40)
    <3>3. Rearranged(d, Last(g))
      BY <2>18, <3>2, RearrangedTwice
    <3>4. QED BY <2>14, <2>17, <3>2, <3>3 DEF g, d
  <2>20. CASE ~(ti > 1)
    <3>1. ti = 1
      BY <2>3, <2>20
    <3> DEFINE a == InsertSlot(e1, li, si, slot)
               b == DropSlot(a, li, si + 1)
    <3>2. atTop = a
      BY <2>8
    <3>3. a \in Good /\ Placed(a) = Placed(e1) \cup ToSet(slot.tracks)
      BY <2>9, <2>14, <2>15, <2>16, InsertSlotGood
    <3>4. /\ Rearranged(e1, a) /\ Len(a.ordering[li].slots) = Len(e1.ordering[li].slots) + 1
          /\ \A i, j, k \in Nat : \A x : InRow(a, i, j, k, x) <=>
                    IF i # li \/ j < si THEN InRow(e1, i, j, k, x)
                    ELSE IF j = si THEN k \in DOMAIN slot.tracks /\ x = slot.tracks[k]
                    ELSE InRow(e1, i, j - 1, k, x)
      <4>1. e1 \in Documents /\ li \in DOMAIN e1.ordering /\ slot \in Slot
            /\ si \in 1 .. Len(e1.ordering[li].slots) + 1
        BY <2>9, <2>14, <2>16 DEF Good
      <4>2. /\ Rearranged(e1, a) /\ Len(a.ordering[li].slots) = Len(e1.ordering[li].slots) + 1
            /\ SlotPut(e1, a, li, si, slot)
        BY ONLY <4>1, InsertSlotShape
      <4> HIDE DEF a
      <4>3. QED BY <4>2 DEF SlotPut
    <3> HIDE DEF a
    <3>5. \A k, x : ~InRow(a, li, si + 1, k, x)
      <4> SUFFICES ASSUME NEW k, NEW x, InRow(a, li, si + 1, k, x) PROVE FALSE
        OBVIOUS
      <4>1. k \in Nat \ {0}
        BY <3>3, InRowNat DEF Good
      <4>2. InRow(e1, li, si, k, x)
        <5>1. si + 1 \in Nat /\ ~(si + 1 < si) /\ si + 1 # si /\ (si + 1) - 1 = si /\ li \in Nat
          BY <2>3
        <5>2. QED BY <3>4, <4>1, <5>1
      <4>3. k < 1
        BY <2>9, <3>1, <4>2
      <4>4. QED BY <4>1, <4>3
    <3>6. li \in DOMAIN a.ordering /\ si + 1 \in DOMAIN a.ordering[li].slots /\ a \in Documents
      <4>1. li \in DOMAIN a.ordering /\ si + 1 \in 1 .. Len(a.ordering[li].slots) /\ a \in Documents
        BY <2>16, <3>4 DEF Rearranged
      <4>2. QED BY <4>1, DocumentShape
    <3>7. /\ b \in Good
          /\ \A x \in Placed(b) : x \in Placed(a)
          /\ \A x \in Placed(a) : x \in Placed(b) \/ \E k : InRow(a, li, si + 1, k, x)
      BY <3>3, <3>6, DropSlotGood
    <3>8. Rearranged(a, b) /\ Len(b.ordering[li].slots) = Len(a.ordering[li].slots) - 1
      BY <3>6, DropSlotShape
    <3>9. alone = b
      BY <3>2
    <3> HIDE DEF b, atTop, alone
    <3>10. Placed(b) = Placed(e1) \cup {t}
      BY <2>14, <3>3, <3>5, <3>7
    <3>11. Rearranged(d, b)
      BY <2>18, <3>4, <3>8, RearrangedTwice
    <3>12. CASE tail = <<>>
      <4>1. g = head \o <<a, b>>
        BY <1>2, <1>4, <2>20, <3>2, <3>9, <3>12
      <4>2. g \in Histories /\ Last(g) = b
        BY <2>8, <3>3, <3>7, <4>1, HistoryGrows
      <4>3. ToSet(tail) = {}
        BY <3>12 DEF ToSet
      <4>4. QED BY <2>17, <3>10, <3>11, <4>2, <4>3 DEF g, d
    <3>13. CASE tail # <<>>
      <4> DEFINE c == InsertSlot(b, li, si + 1, Loose(tail))
      <4>1. g = head \o <<a, b, c>>
        BY <1>2, <1>4, <2>20, <3>2, <3>9, <3>13
      <4>2. Loose(tail) \in Slot /\ Loose(tail).group = Null /\ Loose(tail).tracks = tail
        BY <2>10, SlotsOfTracks
      <4>3. Free(b, Loose(tail).group)
        BY <4>2 DEF Free
      <4>4. Fits(b, Loose(tail).tracks)
        <5>1. Scope(b) = Scope(e1) /\ b.tracks = e1.tracks
          BY <2>11, <3>11, RearrangedSame DEF Rearranged
        <5>2. \A k \in DOMAIN tail : tail[k] \in ToSet(tail)
          BY DEF ToSet
        <5>3. QED BY <2>10, <2>13, <3>10, <4>2, <5>1, <5>2 DEF Fits
      <4>5. li \in DOMAIN b.ordering /\ si + 1 \in 1 .. Len(b.ordering[li].slots) + 1
        <5>1. Len(b.ordering[li].slots) = Len(e1.ordering[li].slots)
          BY <2>16, <3>4, <3>8
        <5>2. QED BY <2>16, <3>6, <3>8, <5>1 DEF Rearranged
      <4>6. c \in Good /\ Placed(c) = Placed(b) \cup ToSet(tail)
        BY <3>7, <4>2, <4>3, <4>4, <4>5, InsertSlotGood
      <4>7. Rearranged(b, c)
        BY <3>7, <4>2, <4>5, InsertSlotShape DEF Good
      <4> HIDE DEF c
      <4>8. g \in Histories /\ Last(g) = c
        <5>1. head \o <<a, b, c>> \in Histories /\ Last(head \o <<a, b, c>>) = c
          BY <2>8, <3>3, <3>7, <4>6, HistoryGrows
        <5>2. QED BY <4>1, <5>1
      <4>9. Rearranged(d, c)
        BY <3>11, <4>7, RearrangedTwice
      <4>10. QED BY <2>17, <3>10, <4>6, <4>8, <4>9 DEF g, d
    <3>14. QED BY <3>12, <3>13
  <2>21. QED BY <2>19, <2>20
<1>5. QED BY <1>3, <1>4

\* h and g end in the same document but for where its rows are.
Moves(h, g) ==
    /\ g \in Histories /\ Rearranged(Last(h), Last(g))
    /\ Placed(Last(g)) = Placed(Last(h))

\* Going on with such a gesture, or not at all, is one.
LEMMA MovesCompose ==
    ASSUME NEW h \in Histories
    PROVE  /\ Moves(h, h)
           /\ \A g, f : Moves(h, g) /\ Moves(g, f) => Moves(h, f)
<1>1. QED BY HistoryGrows, RearrangedNot, RearrangedTwice DEF Moves

\* A placed track taken out of the rows, and what it may still be put at.
LEMMA UprootPlaced ==
    ASSUME NEW h \in Histories, NEW t \in Placed(Last(h))
    PROVE  LET d == Last(h)
               u == Uproot(h, Locate(d, t))
               e == Last(u)
           IN /\ u \in Histories /\ e \in Good /\ Rearranged(d, e) /\ e.groups = d.groups
              /\ t \in TrackId /\ Placed(d) = Placed(e) \cup {t}
              /\ t \in Scope(e) => t \in DOMAIN e.tracks /\ t \notin Placed(e)
              /\ \A i, x : x # t /\ InLayer(d, i, x) => InLayer(e, i, x)
<1> DEFINE d == Last(h)
           row == Locate(d, t)
           u == Uproot(h, row)
           e == Last(u)
<1>1. d \in Good /\ d \in Documents
  BY HistoryGrows
<1>2. InRow(d, row.li, row.si, row.ti, t)
  <2> HIDE DEF d
  <2> QED BY <1>1, LocateFinds DEF d
<1>3. /\ u \in Histories /\ Rearranged(d, e) /\ e.groups = d.groups
      /\ \A x \in Placed(e) : x \in Placed(d)
      /\ t \in Scope(d) => t \notin Placed(e)
      /\ \A i, x : x # t /\ InLayer(d, i, x) => InLayer(e, i, x)
  <2> HIDE DEF row
  <2> QED BY <1>2, UprootGood
<1> HIDE DEF row, u
<1>4. e \in Good
  BY <1>3, HistoryGrows
<1> HIDE DEF d, e
<1>5. t \in TrackId /\ (t \in Scope(d) => t \in DOMAIN d.tracks)
  BY <1>1, <1>2, InRowNat, GoodByPosition
<1>6. Scope(e) = Scope(d) /\ e.tracks = d.tracks
  BY <1>3, RearrangedSame DEF Rearranged
<1>7. ASSUME NEW x \in Placed(d), x # t PROVE x \in Placed(e)
  <2>1. PICK i, j, k : InRow(d, i, j, k, x)
    BY PlacedByPosition
  <2>2. InLayer(e, i, x)
    BY <1>3, <1>7, <2>1, InLayerByPosition
  <2>3. QED BY <2>2, InLayerByPosition, PlacedByPosition
<1>8. t \in Placed(d)
  BY DEF d
<1>9. Placed(d) = Placed(e) \cup {t}
  BY <1>3, <1>7, <1>8
<1>10. QED BY <1>3, <1>4, <1>5, <1>6, <1>9 DEF d, e, u, row

\* Putting it back at a position of a run completes a move.
LEMMA LandTrack ==
    ASSUME NEW h \in Histories, NEW t \in Placed(Last(h)),
           NEW li \in DOMAIN Last(h).ordering,
           NEW si \in DOMAIN Last(Uproot(h, Locate(Last(h), t))).ordering[li].slots,
           NEW ti \in 1 .. Len(Last(Uproot(h, Locate(Last(h), t))).ordering[li].slots[si].tracks) + 1
    PROVE  LET u == Uproot(h, Locate(Last(h), t))
           IN Moves(h, Append(u, InsertTrack(Last(u), li, si, ti, t)))
<1> DEFINE d == Last(h)
           u == Uproot(h, Locate(d, t))
           e == Last(u)
           f == InsertTrack(e, li, si, ti, t)
<1>1. /\ u \in Histories /\ e \in Good /\ Rearranged(d, e)
      /\ t \in TrackId /\ Placed(d) = Placed(e) \cup {t}
      /\ t \in Scope(e) => t \in DOMAIN e.tracks /\ t \notin Placed(e)
  BY UprootPlaced
<1>2. li \in DOMAIN e.ordering
  BY <1>1 DEF Rearranged
<1> HIDE DEF u
<1>3. f \in Good /\ Rearranged(e, f) /\ Placed(f) = Placed(e) \cup {t}
  <2>1. si \in DOMAIN e.ordering[li].slots /\ ti \in 1 .. Len(e.ordering[li].slots[si].tracks) + 1
    BY DEF u
  <2> HIDE DEF d, e
  <2>2. QED BY <1>1, <1>2, <2>1, InsertTrackGood
<1> HIDE DEF f
<1>4. Append(u, f) \in Histories /\ Last(Append(u, f)) = f
  BY <1>1, <1>3, HistoryGrows
<1>5. Rearranged(d, f)
  BY <1>1, <1>3, RearrangedTwice
<1>6. Moves(h, Append(u, f))
  BY <1>1, <1>3, <1>4, <1>5 DEF Moves
<1>7. QED BY <1>6 DEF u, f

\* moveTrack keeps the invariant at each of its commits, and every row: its
\* one early return comes before the row is taken out.
LEMMA MoveTrackGood ==
    ASSUME NEW h \in Histories, NEW t, NEW l, NEW anchor
    PROVE  Moves(h, MoveTrack(h, t, l, anchor))
<1> DEFINE d == Last(h)
           li == LayerAt(d, l)
           u == Uproot(h, Locate(d, t))
           e == Last(u)
           to == RowIn(e, li, anchor)
           g == MoveTrack(h, t, l, anchor)
<1>1. d \in Good /\ d \in Documents
  BY HistoryGrows
<1>2. g = IF t \notin Placed(d) \/ li = 0 THEN h
          ELSE IF InLayer(e, li, anchor) THEN Append(u, InsertTrack(e, li, to.si, to.ti, t))
          ELSE Append(u, AppendLoose(e, li, t))
  BY DEF MoveTrack
<1> HIDE DEF g
<1>3. CASE t \notin Placed(d) \/ li = 0
  BY <1>2, <1>3, MovesCompose DEF g
<1>4. CASE t \in Placed(d) /\ li # 0
  <2>1. li \in DOMAIN d.ordering
    <3> HIDE DEF d
    <3> QED BY <1>1, <1>4, LayerAtFinds
  <2>2. /\ u \in Histories /\ e \in Good /\ Rearranged(d, e)
        /\ t \in TrackId /\ Placed(d) = Placed(e) \cup {t}
        /\ t \in Scope(e) => t \in DOMAIN e.tracks /\ t \notin Placed(e)
    BY <1>4, UprootPlaced
  <2> HIDE DEF li
  <2>3. CASE InLayer(e, li, anchor)
    <3>1. InRow(e, li, to.si, to.ti, anchor) /\ e \in Documents
      <4> HIDE DEF e
      <4> QED BY <2>2, <2>3, RowInFinds DEF Good
    <3>2. /\ to.si \in DOMAIN e.ordering[li].slots
          /\ to.ti \in 1 .. Len(e.ordering[li].slots[to.si].tracks) + 1
      <4> HIDE DEF e, to
      <4>1. to.ti \in 1 .. Len(e.ordering[li].slots[to.si].tracks)
            /\ to.si \in DOMAIN e.ordering[li].slots
        BY <3>1, DocumentShape DEF InRow
      <4>2. QED BY <4>1, SMTT(40)
    <3>3. g = Append(u, InsertTrack(Last(u), li, to.si, to.ti, t))
      BY <1>2, <1>4, <2>3
    <3> HIDE DEF to
    <3>4. Moves(h, g)
      BY <1>4, <2>1, <3>2, <3>3, LandTrack
    <3>5. QED BY <3>4 DEF g
  <2>4. CASE ~InLayer(e, li, anchor)
    <3> DEFINE f == AppendLoose(e, li, t)
    <3>1. f \in Good /\ Rearranged(e, f) /\ Placed(f) = Placed(e) \cup {t}
      <4>1. li \in DOMAIN e.ordering
        BY <2>1, <2>2 DEF Rearranged
      <4> HIDE DEF e, d
      <4>2. QED BY <2>2, <4>1, AppendLooseGood
    <3>2. g = Append(u, f)
      BY <1>2, <1>4, <2>4
    <3> HIDE DEF f, e, d, u
    <3>3. g \in Histories /\ Last(g) = f
      BY <2>2, <3>1, <3>2, HistoryGrows
    <3>4. Rearranged(d, f)
      BY <2>2, <3>1, RearrangedTwice
    <3>5. Moves(h, g)
      BY <2>2, <3>1, <3>3, <3>4 DEF Moves, d
    <3>6. QED BY <3>5 DEF g
  <2>5. QED BY <2>3, <2>4
<1>5. QED BY <1>3, <1>4

\* So does moveTrackAfter, whose anchor stays where it is when the track it
\* is not has been taken out.
LEMMA MoveTrackAfterGood ==
    ASSUME NEW h \in Histories, NEW t, NEW l, NEW anchor
    PROVE  Moves(h, MoveTrackAfter(h, t, l, anchor))
<1> DEFINE d == Last(h)
           li == LayerAt(d, l)
           u == Uproot(h, Locate(d, t))
           e == Last(u)
           to == RowIn(e, li, anchor)
           g == MoveTrackAfter(h, t, l, anchor)
<1>1. d \in Good /\ d \in Documents
  BY HistoryGrows
<1>2. g = IF t = anchor \/ t \notin Placed(d) \/ ~InLayer(d, li, anchor) THEN h
          ELSE Append(u, InsertTrack(e, li, to.si, to.ti + 1, t))
  BY DEF MoveTrackAfter
<1> HIDE DEF g
<1>3. CASE t = anchor \/ t \notin Placed(d) \/ ~InLayer(d, li, anchor)
  BY <1>2, <1>3, MovesCompose DEF g
<1>4. CASE t # anchor /\ t \in Placed(d) /\ InLayer(d, li, anchor)
  <2> HIDE DEF li
  <2>1. li \in DOMAIN d.ordering
    BY <1>4, InLayerByPosition DEF InRow
  <2>2. e \in Good /\ InLayer(e, li, anchor)
    BY <1>4, UprootPlaced
  <2>3. InRow(e, li, to.si, to.ti, anchor) /\ e \in Documents
    <3> HIDE DEF e
    <3> QED BY <2>2, RowInFinds DEF Good
  <2>4. /\ to.si \in DOMAIN e.ordering[li].slots
        /\ to.ti + 1 \in 1 .. Len(e.ordering[li].slots[to.si].tracks) + 1
    <3> HIDE DEF e, to
    <3>1. /\ to.ti \in 1 .. Len(e.ordering[li].slots[to.si].tracks)
          /\ Len(e.ordering[li].slots[to.si].tracks) \in Nat
          /\ to.si \in DOMAIN e.ordering[li].slots
      BY <2>3, DocumentShape DEF InRow
    <3>2. QED BY <3>1
  <2>5. g = Append(u, InsertTrack(Last(u), li, to.si, to.ti + 1, t))
    BY <1>2, <1>4
  <2> HIDE DEF to
  <2>6. Moves(h, g)
    BY <1>4, <2>1, <2>4, <2>5, LandTrack
  <2>7. QED BY <2>6 DEF g
<1>5. QED BY <1>3, <1>4

\* And groupTracks, which is the two one after the other.
LEMMA GroupTracksGood ==
    ASSUME NEW h \in Histories, NEW t, NEW anchor
    PROVE  Moves(h, GroupTracks(h, t, anchor))
<1> DEFINE l == Last(h).ordering[Locate(Last(h), anchor).li].id
           c == CreateGroup(h, anchor)
<1>1. Moves(h, c)
  BY CreateGroupGood DEF Moves
<1> HIDE DEF c, l
<1>2. Moves(c, MoveTrackAfter(c, t, l, anchor))
  BY <1>1, MoveTrackAfterGood DEF Moves
<1>3. Moves(h, h) /\ Moves(h, MoveTrackAfter(c, t, l, anchor))
  BY <1>1, <1>2, MovesCompose
<1>4. GroupTracks(h, t, anchor) = h \/ GroupTracks(h, t, anchor) = MoveTrackAfter(c, t, l, anchor)
  BY DEF GroupTracks, c, l
<1>5. QED BY <1>3, <1>4

-----------------------------------------------------------------------------
(* Groups.                                                                  *)

\* A slot lands at the end of a layer, before a run's or a group's first
\* track, or inside a loose run, which it splits.
LEMMA LandSlotGood ==
    ASSUME NEW h \in Histories, NEW li \in DOMAIN Last(h).ordering, NEW slot \in Slot, NEW anchor,
           Free(Last(h), slot.group), Fits(Last(h), slot.tracks), CanLand(Last(h), li, anchor)
    PROVE  LET g == LandSlot(h, li, anchor, slot)
           IN /\ g \in Histories /\ Rearranged(Last(h), Last(g))
              /\ Placed(Last(g)) = Placed(Last(h)) \cup ToSet(slot.tracks)
<1> DEFINE d == Last(h)
           row == RowIn(d, li, anchor)
           si == row.si
           ti == row.ti
           ts == d.ordering[li].slots[si].tracks
           n == Len(d.ordering[li].slots) + 1
           cut == Cut(h, li, si, ti)
           tail == SubSeq(ts, ti, Len(ts))
           g == LandSlot(h, li, anchor, slot)
<1>1. d \in Good /\ d \in Documents /\ li \in DOMAIN d.ordering
  BY HistoryGrows
<1>2. li \in Nat \ {0}
  BY <1>1, DocumentShape
<1>3. g = IF anchor = Null THEN Append(h, InsertSlot(d, li, n, slot))
          ELSE IF ~CanLand(d, li, anchor) THEN h
          ELSE IF ti = 1 THEN Append(h, InsertSlot(d, li, si, slot))
          ELSE InsertWithTail(cut, li, si + 1, slot,
                              SubSeq(SlotOf(d, row).tracks, ti, Len(SlotOf(d, row).tracks)))
  BY DEF LandSlot
<1> HIDE DEF g
<1>4. ASSUME NEW at \in 1 .. Len(d.ordering[li].slots) + 1, g = Append(h, InsertSlot(d, li, at, slot))
      PROVE  /\ g \in Histories /\ Rearranged(d, Last(g))
             /\ Placed(Last(g)) = Placed(d) \cup ToSet(slot.tracks)
  <2> DEFINE e == InsertSlot(d, li, at, slot)
  <2>1. Free(d, slot.group) /\ Fits(d, slot.tracks)
    OBVIOUS
  <2> HIDE DEF d
  <2>2. e \in Good /\ Placed(e) = Placed(d) \cup ToSet(slot.tracks)
    BY <1>1, <2>1, InsertSlotGood
  <2>3. Rearranged(d, e)
    BY <1>1, InsertSlotShape
  <2> HIDE DEF e
  <2>4. g \in Histories /\ Last(g) = e
    BY <1>4, <2>2, HistoryGrows DEF e
  <2>5. QED BY <2>2, <2>3, <2>4
<1>5. CASE anchor = Null
  <2>1. n \in 1 .. Len(d.ordering[li].slots) + 1
    BY <1>1, DocumentShape
  <2>2. g = Append(h, InsertSlot(d, li, n, slot))
    BY <1>3, <1>5
  <2> HIDE DEF n
  <2>3. QED BY <1>4, <2>1, <2>2 DEF g, d
<1>6. CASE anchor # Null
  <2>1. InLayer(d, li, anchor) /\ CanLand(d, li, anchor)
    BY <1>6 DEF CanLand
  <2>2. row.li = li /\ InRow(d, li, si, ti, anchor)
    <3> HIDE DEF d
    <3> QED BY <1>1, <2>1, RowInFinds
  <2>3. SlotOf(d, row).tracks = ts
    BY <2>2 DEF SlotOf
  <2> HIDE DEF row
  <2>4. /\ si \in DOMAIN d.ordering[li].slots /\ ti \in DOMAIN ts
        /\ si \in Nat \ {0} /\ ti \in 1 .. Len(ts) /\ Len(ts) \in Nat
        /\ si \in 1 .. Len(d.ordering[li].slots)
    <3>1. si \in DOMAIN d.ordering[li].slots /\ ti \in DOMAIN ts
      BY <2>2 DEF InRow
    <3> HIDE DEF d, si, ti
    <3>2. li \in DOMAIN d.ordering
      BY <2>2 DEF InRow
    <3>3. /\ DOMAIN d.ordering[li].slots = 1 .. Len(d.ordering[li].slots)
          /\ Len(d.ordering[li].slots) \in Nat /\ DOMAIN ts = 1 .. Len(ts) /\ Len(ts) \in Nat
      BY <1>1, <3>1, <3>2, DocumentShape
    <3> HIDE DEF ts
    <3>4. QED BY ONLY <3>1, <3>3
  <2> HIDE DEF si, ti
  <2>5. CASE ti = 1
    <3>1. g = Append(h, InsertSlot(d, li, si, slot))
      BY <1>3, <1>6, <2>1, <2>5
    <3>2. si \in 1 .. Len(d.ordering[li].slots) + 1
      BY <2>4
    <3>3. QED BY <1>4, <3>1, <3>2 DEF g, d
  <2>6. CASE ti # 1
    <3> DEFINE e == WithTracks(d, li, si, SubSeq(ts, 1, ti - 1))
    <3>1. g = InsertWithTail(cut, li, si + 1, slot, tail)
      BY <1>3, <1>6, <2>1, <2>3, <2>6
    <3>2. cut \in Histories /\ Last(cut) = e
      BY <2>4, CutGood
    <3>3. Split(d, li, si, ti, ts, e)
      <4> HIDE DEF d
      <4> QED BY <1>1, <2>4, SplitRun
    <3>4. Free(d, slot.group) /\ Fits(d, slot.tracks)
      OBVIOUS
    <3> HIDE DEF cut, e, d
    <3>5. /\ e \in Good /\ Rearranged(d, e) /\ e.groups = d.groups
          /\ \A i, j, x : InSlot(e, i, j, x) <=> InSlot(d, i, j, x)
          /\ DOMAIN e.ordering[li].slots = DOMAIN d.ordering[li].slots
          /\ \A x \in Placed(e) : x \in Placed(d)
          /\ \A x \in Placed(d) : x \in Placed(e) \/ \E k \in ti .. Len(ts) : x = ts[k]
          /\ \A k \in ti .. Len(ts) : ts[k] \in Placed(d)
      BY <1>1, <3>3 DEF Split
    <3>6. tail \in Seq(TrackId) /\ Fits(e, tail) /\ ToSet(tail) = {ts[k] : k \in ti .. Len(ts)}
      <4>1. ti \in ti .. Len(ts) + 1
        BY <2>4
      <4>2. QED BY <3>3, <4>1 DEF Split
    <3> HIDE DEF tail, ts
    <3>7. Scope(e) = Scope(d) /\ e.tracks = d.tracks
      BY <3>5, RearrangedSame DEF Rearranged
    <3>8. Free(e, slot.group) /\ Fits(e, slot.tracks)
      BY <3>4, <3>5, <3>7 DEF Free, Fits
    <3>9. \A x \in ToSet(tail) : x \in Scope(e) => x \notin ToSet(slot.tracks)
      <4>1. \A x \in ToSet(tail) : x \in Placed(d)
        BY <3>5, <3>6
      <4>2. \A x \in ToSet(slot.tracks) : x \in Scope(d) => x \notin Placed(d)
        BY <3>4 DEF Fits, ToSet
      <4>3. QED BY <3>7, <4>1, <4>2
    <3>10. li \in DOMAIN e.ordering /\ si + 1 \in 1 .. Len(e.ordering[li].slots) + 1
      <4>1. li \in DOMAIN e.ordering /\ e \in Documents
        BY <1>1, <3>5 DEF Rearranged
      <4>2. DOMAIN e.ordering[li].slots = 1 .. Len(e.ordering[li].slots)
            /\ Len(e.ordering[li].slots) \in Nat
        BY <4>1, DocumentShape
      <4>3. si \in 1 .. Len(e.ordering[li].slots)
        BY <2>4, <3>5, <4>2
      <4>4. QED BY <4>1, <4>2, <4>3
    <3>11. /\ g \in Histories /\ Rearranged(e, Last(g))
           /\ Placed(Last(g)) = Placed(e) \cup ToSet(slot.tracks) \cup ToSet(tail)
      BY <3>1, <3>2, <3>6, <3>8, <3>9, <3>10, InsertWithTailGood
    <3>12. Rearranged(d, Last(g))
      BY <3>5, <3>11, RearrangedTwice
    <3>13. Placed(d) = Placed(e) \cup ToSet(tail)
      BY <3>5, <3>6
    <3>14. QED BY <3>11, <3>12, <3>13 DEF g, d
  <2>7. QED BY <2>5, <2>6
<1>7. QED BY <1>5, <1>6

\* Where a group may land it still may once another slot is out: the row
\* that is looked up, the layer's first of the anchor, is the same row.
LEMMA CanLandStill ==
    ASSUME NEW d \in Documents, NEW a \in DOMAIN d.ordering,
           NEW b \in DOMAIN d.ordering[a].slots, NEW li \in DOMAIN d.ordering, NEW anchor,
           CanLand(d, li, anchor), \A k : ~InRow(d, a, b, k, anchor)
    PROVE  CanLand(DropSlot(d, a, b), li, anchor)
<1> DEFINE e == DropSlot(d, a, b)
           r == RowIn(d, li, anchor)
           q == RowIn(e, li, anchor)
           j == IF li # a \/ r.si < b THEN r.si ELSE r.si - 1
           m == IF li # a \/ q.si < b THEN q.si ELSE q.si + 1
<1> SUFFICES ASSUME anchor # Null PROVE CanLand(e, li, anchor)
  BY DEF CanLand
<1>1. /\ e \in Documents
      /\ \A i, s \in Nat : \A g : InSlot(e, i, s, g) <=>
            IF i # a \/ s < b THEN InSlot(d, i, s, g) ELSE InSlot(d, i, s + 1, g)
      /\ \A i, s, k \in Nat : \A x : InRow(e, i, s, k, x) <=>
            IF i # a \/ s < b THEN InRow(d, i, s, k, x) ELSE InRow(d, i, s + 1, k, x)
  BY DropSlotShape DEF Rearranged
<1> HIDE DEF e
<1>2. /\ InLayer(d, li, anchor)
      /\ SlotOf(d, r).group = Null \/ r.ti = 1
  BY DEF CanLand
<1>3. /\ r.li = li /\ InRow(d, li, r.si, r.ti, anchor)
      /\ \A s, k : InRow(d, li, s, k, anchor) => ~(s < r.si) /\ ~(s = r.si /\ k < r.ti)
  BY <1>2, RowInFinds
<1> HIDE DEF r
<1>4. li \in Nat /\ a \in Nat /\ b \in Nat /\ r.si \in Nat \ {0} /\ r.ti \in Nat \ {0}
  BY <1>3, InRowNat, DocumentShape
<1>5. ~(li = a /\ r.si = b)
  BY <1>3
<1>6. InRow(e, li, j, r.ti, anchor)
  <2>1. CASE li # a \/ r.si < b
    BY <1>1, <1>3, <1>4, <2>1
  <2>2. CASE ~(li # a \/ r.si < b)
    <3>1. r.si > b /\ j = r.si - 1 /\ j \in Nat /\ ~(j < b) /\ j + 1 = r.si /\ li = a
      BY <1>4, <1>5, <2>2
    <3>2. QED BY <1>1, <1>3, <1>4, <3>1
  <2>3. QED BY <2>1, <2>2
<1>7. InLayer(e, li, anchor)
  BY <1>6, InLayerByPosition
<1>8. /\ q.li = li /\ InRow(e, li, q.si, q.ti, anchor)
      /\ \A s, k : InRow(e, li, s, k, anchor) => ~(s < q.si) /\ ~(s = q.si /\ k < q.ti)
  BY <1>1, <1>7, RowInFinds
<1> HIDE DEF q
<1>9. q.si \in Nat \ {0} /\ q.ti \in Nat \ {0}
  BY <1>1, <1>8, InRowNat
<1>10. InRow(d, li, m, q.ti, anchor)
  BY <1>1, <1>4, <1>8, <1>9
<1>11. ~(m < r.si) /\ ~(m = r.si /\ q.ti < r.ti)
  <2> HIDE DEF m
  <2> QED BY <1>3, <1>10
<1>12. ~(j < q.si) /\ ~(j = q.si /\ r.ti < q.ti)
  <2> HIDE DEF j
  <2> QED BY <1>6, <1>8
<1>13. j = q.si /\ m = r.si /\ r.ti = q.ti
  BY <1>4, <1>5, <1>9, <1>11, <1>12
<1>14. SlotOf(e, q).group = SlotOf(d, r).group
  <2>1. InSlot(d, li, m, d.ordering[li].slots[m].group)
    BY <1>10 DEF InRow, InSlot
  <2>2. InSlot(e, li, q.si, d.ordering[li].slots[m].group)
    BY <1>1, <1>4, <1>9, <2>1
  <2> HIDE DEF m
  <2>3. e.ordering[li].slots[q.si].group = d.ordering[li].slots[m].group
    BY <2>2 DEF InSlot
  <2>4. QED BY <1>3, <1>8, <1>13, <2>3 DEF SlotOf
<1>15. QED BY <1>2, <1>7, <1>13, <1>14 DEF CanLand, q, r

\* moveGroup keeps the invariant at each of its commits, and every row: the
\* drop is checked before the group is taken out, and holds after.
LEMMA MoveGroupGood ==
    ASSUME NEW h \in Histories, NEW g \in Nat, NEW l, NEW anchor
    PROVE  Moves(h, MoveGroup(h, g, l, anchor))
<1> DEFINE d == Last(h)
           li == LayerAt(d, l)
           src == CHOOSE p \in GroupSlots(d, g) : TRUE
           a == src[1]
           b == src[2]
           ts == d.ordering[a].slots[b].tracks
           e == DropSlot(d, a, b)
           slot == Group(g, ts)
           m == MoveGroup(h, g, l, anchor)
<1>1. d \in Good /\ d \in Documents
  BY HistoryGrows
<1>2. m = IF \/ GroupSlots(d, g) = {} \/ Contains(ts, anchor)
             \/ li = 0 \/ ~CanLand(d, li, anchor) THEN h
          ELSE LandSlot(Append(h, e), li, anchor, slot)
  BY DEF MoveGroup
<1> HIDE DEF m
<1>3. CASE GroupSlots(d, g) = {} \/ Contains(ts, anchor) \/ li = 0 \/ ~CanLand(d, li, anchor)
  BY <1>2, <1>3, MovesCompose DEF m
<1>4. CASE ~(GroupSlots(d, g) = {} \/ Contains(ts, anchor) \/ li = 0 \/ ~CanLand(d, li, anchor))
  <2>1. src \in Slots(d) /\ GroupAt(d, src) = g
    BY <1>4 DEF GroupSlots, GroupAt
  <2> HIDE DEF src, d
  <2>2. InSlot(d, a, b, g)
    BY <2>1, RowsAreInRow
  <2>3. /\ a \in DOMAIN d.ordering /\ b \in DOMAIN d.ordering[a].slots
        /\ d.ordering[a].slots[b].group = g
    BY <2>2 DEF InSlot
  <2> HIDE DEF a, b
  <2>4. ts \in Seq(TrackId) /\ Len(ts) \in Nat /\ DOMAIN ts = 1 .. Len(ts)
    BY <1>1, <2>3, DocumentShape
  <2>5. \A k, x : InRow(d, a, b, k, x) <=> k \in DOMAIN ts /\ x = ts[k]
    BY <2>3 DEF InRow
  <2>6. /\ e \in Good
        /\ \A x \in Placed(e) : x \in Placed(d)
        /\ \A x \in Placed(d) : x \in Placed(e) \/ \E k : InRow(d, a, b, k, x)
        /\ \A k : \A x \in Scope(d) : InRow(d, a, b, k, x) => x \notin Placed(e)
        /\ Free(e, g)
    BY <1>1, <2>3, DropSlotGood
  <2>7. Rearranged(d, e)
    BY <1>1, <2>3, DropSlotShape
  <2>8. li \in DOMAIN d.ordering
    BY <1>1, <1>4, LayerAtFinds
  <2> HIDE DEF li
  <2>9. CanLand(e, li, anchor)
    <3>1. \A k : ~InRow(d, a, b, k, anchor)
      BY <1>4, <2>4, <2>5 DEF Contains
    <3>2. QED BY <1>1, <1>4, <2>3, <2>8, <3>1, CanLandStill
  <2>10. slot \in Slot /\ slot.group = g /\ slot.tracks = ts
    BY <2>4, SlotsOfTracks
  <2>11. Scope(e) = Scope(d) /\ e.tracks = d.tracks
    BY <2>7, RearrangedSame DEF Rearranged
  <2> HIDE DEF e, slot, ts
  <2>12. Fits(e, ts)
    <3>1. ASSUME NEW k \in DOMAIN ts, ts[k] \in Scope(e)
          PROVE  /\ ts[k] \in DOMAIN e.tracks /\ ts[k] \notin Placed(e)
                 /\ \A k2 \in DOMAIN ts : ts[k2] = ts[k] => k2 = k
      <4>1. InRow(d, a, b, k, ts[k]) /\ ts[k] \in Scope(d)
        BY <2>5, <2>11, <3>1
      <4>2. /\ ts[k] \in DOMAIN d.tracks
            /\ \A i2, j2, k2 : InRow(d, i2, j2, k2, ts[k]) => a = i2 /\ b = j2 /\ k = k2
        BY <1>1, <4>1, GoodByPosition
      <4>3. \A k2 \in DOMAIN ts : ts[k2] = ts[k] => InRow(d, a, b, k2, ts[k])
        BY <2>5
      <4>4. QED BY <2>6, <2>11, <4>1, <4>2, <4>3
    <3>2. QED BY <3>1 DEF Fits
  <2> DEFINE u == Append(h, e)
  <2>13. u \in Histories /\ Last(u) = e
    BY <2>6, HistoryGrows
  <2>14. m = LandSlot(u, li, anchor, slot)
    BY <1>2, <1>4
  <2> HIDE DEF u
  <2>15. /\ m \in Histories /\ Rearranged(e, Last(m))
         /\ Placed(Last(m)) = Placed(e) \cup ToSet(slot.tracks)
    <3>1. li \in DOMAIN e.ordering
      BY <2>7, <2>8 DEF Rearranged
    <3>2. QED BY <2>6, <2>9, <2>10, <2>12, <2>13, <2>14, <3>1, LandSlotGood
  <2>16. Placed(d) = Placed(e) \cup ToSet(ts)
    <3>1. \A k \in DOMAIN ts : ts[k] \in Placed(d)
      BY <2>5, PlacedByPosition
    <3>2. QED BY <2>5, <2>6, <3>1 DEF ToSet
  <2>17. Rearranged(d, Last(m))
    BY <2>7, <2>15, RearrangedTwice
  <2>18. Moves(h, m)
    BY <2>10, <2>15, <2>16, <2>17 DEF Moves, d
  <2>19. QED BY <2>18 DEF m
<1>5. QED BY <1>3, <1>4

\* e is d with the groups of ps[1 .. n] made loose runs.
Freed(d, e, ps, n) ==
    /\ Rearranged(d, e) /\ e.groups = d.groups /\ Placed(e) = Placed(d)
    /\ \A i, j, g : InSlot(e, i, j, g) <=>
          IF \E m \in 1 .. n : ps[m] = <<i, j>> THEN g = Null ELSE InSlot(d, i, j, g)

\* One more made loose.
LEMMA FreedOneMore ==
    ASSUME NEW d \in Good, NEW e \in Good, NEW ps \in Seq(Slots(d)), NEW k \in 1 .. Len(ps),
           Freed(d, e, ps, k - 1)
    PROVE  Loosen(e, ps[k]) \in Good /\ Freed(d, Loosen(e, ps[k]), ps, k)
<1> DEFINE a == ps[k][1]
           b == ps[k][2]
           f == Loosen(e, <<a, b>>)
<1>1. ps[k] \in Slots(d) /\ Len(ps) \in Nat
  BY ElementOfSeq, LenProperties
<1>2. InSlot(d, a, b, GroupAt(d, ps[k])) /\ ps[k] = <<a, b>>
  BY <1>1, RowsAreInRow
<1> HIDE DEF a, b
<1>3. /\ Rearranged(d, e) /\ e.groups = d.groups /\ Placed(e) = Placed(d)
      /\ \A i, j, g : InSlot(e, i, j, g) <=>
            IF \E m \in 1 .. k - 1 : ps[m] = <<i, j>> THEN g = Null ELSE InSlot(d, i, j, g)
  BY DEF Freed
<1>4. \E g : InSlot(e, a, b, g)
  BY <1>2, <1>3
<1>5. a \in DOMAIN e.ordering /\ b \in DOMAIN e.ordering[a].slots
  BY <1>4 DEF InSlot
<1>6. /\ f \in Good /\ Rearranged(e, f) /\ f.groups = e.groups /\ Placed(f) = Placed(e)
      /\ \A i, j, g : InSlot(f, i, j, g) <=>
            IF i = a /\ j = b THEN g = Null ELSE InSlot(e, i, j, g)
  BY <1>5, LoosenGood
<1> HIDE DEF f
<1>7. Rearranged(d, f)
  BY <1>3, <1>6, RearrangedTwice
<1>8. ASSUME NEW i, NEW j, NEW g
      PROVE  InSlot(f, i, j, g) <=>
                IF \E m \in 1 .. k : ps[m] = <<i, j>> THEN g = Null ELSE InSlot(d, i, j, g)
  <2>1. 1 .. k = (1 .. k - 1) \cup {k}
    OBVIOUS
  <2>2. ps[k] = <<i, j>> <=> i = a /\ j = b
    BY <1>2
  <2>3. (\E m \in 1 .. k : ps[m] = <<i, j>>) <=>
            (\E m \in 1 .. k - 1 : ps[m] = <<i, j>>) \/ (i = a /\ j = b)
    BY <2>1, <2>2
  <2> DEFINE P == \E m \in 1 .. k - 1 : ps[m] = <<i, j>>
             Q == \E m \in 1 .. k : ps[m] = <<i, j>>
  <2>4. InSlot(e, i, j, g) <=> IF P THEN g = Null ELSE InSlot(d, i, j, g)
    BY <1>3
  <2>5. InSlot(f, i, j, g) <=> IF i = a /\ j = b THEN g = Null ELSE InSlot(e, i, j, g)
    BY <1>6
  <2> HIDE DEF P, Q
  <2>6. Q <=> P \/ (i = a /\ j = b)
    BY <2>3 DEF P, Q
  <2>7. InSlot(f, i, j, g) <=> IF Q THEN g = Null ELSE InSlot(d, i, j, g)
    BY ONLY <2>4, <2>5, <2>6
  <2>8. QED BY <2>7 DEF Q
<1>9. QED BY <1>2, <1>3, <1>6, <1>7, <1>8 DEF Freed, f

\* The runs of ps are made loose one by one.
LEMMA LoosenedGood ==
    ASSUME NEW h \in Histories, NEW ps \in Seq(Slots(Last(h)))
    PROVE  /\ Loosened(h, ps) \in Histories
           /\ Freed(Last(h), Last(Loosened(h, ps)), ps, Len(ps))
<1> DEFINE d == Last(h)
           n == Len(ps)
           T == [k \in 0 .. n |-> {x \in Histories : Freed(d, Last(x), ps, k)}]
           Step(x, i) == Append(x, Loosen(Last(x), ps[i]))
           F == [p \in (1 .. n) \X Histories |-> Step(p[2], p[1])]
           f == CHOOSE f : f = [i \in 0 .. n |-> IF i = 0 THEN h ELSE Step(f[i - 1], i)]
<1>1. n \in Nat /\ d \in Good /\ d \in Documents
  BY HistoryGrows, LenProperties
<1>2. h \in T[0]
  <2>1. Freed(d, d, ps, 0)
    <3> HIDE DEF d
    <3> QED BY <1>1, RearrangedNot DEF Freed
  <2>2. QED BY <1>1, <2>1
<1>3. \A k \in 1 .. n : \A x \in T[k - 1] : Step(x, k) \in T[k]
  <2> SUFFICES ASSUME NEW k \in 1 .. n, NEW x \in Histories, Freed(d, Last(x), ps, k - 1)
               PROVE  Step(x, k) \in Histories /\ Freed(d, Last(Step(x, k)), ps, k)
    BY <1>1
  <2>1. Last(x) \in Good
    BY HistoryGrows
  <2>2. Loosen(Last(x), ps[k]) \in Good /\ Freed(d, Loosen(Last(x), ps[k]), ps, k)
    BY <1>1, <2>1, FreedOneMore
  <2>3. QED BY <2>2, HistoryGrows
<1>4. \A k \in 0 .. n : T[k] \subseteq Histories
  OBVIOUS
<1>5. T[n] = {x \in Histories : Freed(d, Last(x), ps, n)}
  BY <1>1
<1>6. Loosened(h, ps) = f[n]
  BY DEF Loosened
<1>7. \A k \in 1 .. n : \A x \in Histories : F[<<k, x>>] = Step(x, k)
  OBVIOUS
<1> HIDE DEF n, T, Step, F
<1>8. PICK g : Leading(g, n, Histories, T, F, h)
  <2>1. \A k \in 1 .. n : k - 1 \in 0 .. n
    BY <1>1
  <2>2. Leads(n, Histories, T, F)
    BY <1>3, <1>4, <1>7, <2>1 DEF Leads
  <2>3. n \in Nat
    BY <1>1
  <2>4. QED BY ONLY <1>2, <2>2, <2>3, Stages
<1>9. g = [i \in 0 .. n |-> IF i = 0 THEN h ELSE Step(g[i - 1], i)]
  <2>1. g \in [0 .. n -> Histories] /\ g[0] = h /\ \A k \in 1 .. n : g[k] = F[<<k, g[k - 1]>>]
    BY <1>8 DEF Leading
  <2>2. \A i \in 1 .. n : i - 1 \in 0 .. n /\ g[i - 1] \in Histories
    BY <1>1, <2>1
  <2>3. \A i \in 1 .. n : g[i] = Step(g[i - 1], i)
    BY <1>7, <2>1, <2>2
  <2>4. QED BY <1>1, <2>1, <2>3
<1>10. f = [i \in 0 .. n |-> IF i = 0 THEN h ELSE Step(f[i - 1], i)]
  BY <1>9
<1> HIDE DEF f
<1>11. f[0] = h /\ \A k \in 1 .. n : f[k] = Step(f[k - 1], k)
  BY <1>1, <1>10
<1>12. \A k \in 0 .. n : f[k] \in T[k]
  <2>1. f[0] \in T[0] /\ \A k \in 1 .. n : f[k - 1] \in T[k - 1] => f[k] \in T[k]
    BY <1>2, <1>3, <1>11
  <2>2. QED BY ONLY <1>1, <2>1, StagesHold
<1>13. f[n] \in T[n]
  BY <1>1, <1>12
<1>14. QED BY <1>5, <1>6, <1>13 DEF n

\* ungroup keeps the invariant at each of its commits, and every row: the
\* group is a loose run before it loses its name.
LEMMA UngroupGood ==
    ASSUME NEW h \in Histories, NEW g \in Nat
    PROVE  Moves(h, Ungroup(h, g))
<1> DEFINE d == Last(h)
           S == GroupSlots(d, g)
           ps == SetToSeq(S)
           u == Loosened(h, ps)
           e == Last(u)
           f == [e EXCEPT !.groups = e.groups \ {g}]
<1>1. d \in Good /\ d \in Documents /\ g # Null
  BY HistoryGrows, ScoreAssumption
<1>2. S \in SUBSET Slots(d) /\ \A p \in S : GroupAt(d, p) = g
  BY DEF GroupSlots, GroupAt
<1>3. IsFiniteSet(S)
  <2>1. CASE S = {}
    BY <2>1, FS_EmptySet
  <2>2. CASE S # {}
    <3>1. PICK p : p \in S
      BY <2>2
    <3>2. \A q \in S : q = p
      BY <1>1, <1>2, <3>1 DEF Good, Grouped
    <3>3. S = {p}
      BY <3>1, <3>2
    <3>4. QED BY <3>3, FS_Singleton
  <2>3. QED BY <2>1, <2>2
<1> HIDE DEF S
<1>4. ps \in Seq(S) /\ ToSet(ps) = S
  BY <1>3, SetToSeqProperties
<1>5. ps \in Seq(Slots(d)) /\ Len(ps) \in Nat /\ DOMAIN ps = 1 .. Len(ps)
  <2> HIDE DEF ps, d
  <2>1. Seq(S) \subseteq Seq(Slots(d))
    BY <1>2
  <2>2. QED BY <1>4, <2>1, LenProperties
<1> HIDE DEF ps
<1>6. u \in Histories /\ Freed(d, e, ps, Len(ps))
  BY <1>5, LoosenedGood
<1> HIDE DEF u
<1>7. e \in Good
  BY <1>6, HistoryGrows
<1>8. Ungroup(h, g) = Append(u, f)
  BY DEF Ungroup, u, ps, S
<1> HIDE DEF d, e
<1>9. /\ Rearranged(d, e) /\ e.groups = d.groups /\ Placed(e) = Placed(d)
      /\ \A i, j, x : InSlot(e, i, j, x) <=>
            IF \E m \in 1 .. Len(ps) : ps[m] = <<i, j>> THEN x = Null ELSE InSlot(d, i, j, x)
  BY <1>6 DEF Freed
<1>10. \A i, j, x : InSlot(e, i, j, x) /\ x # Null => x \in e.groups \ {g}
  <2> SUFFICES ASSUME NEW i, NEW j, NEW x, InSlot(e, i, j, x), x # Null
               PROVE  x \in e.groups \ {g}
    OBVIOUS
  <2>1. InSlot(d, i, j, x) /\ ~\E m \in 1 .. Len(ps) : ps[m] = <<i, j>>
    BY <1>9
  <2>2. x \in e.groups
    BY <1>1, <1>9, <2>1, GoodByPosition
  <2>3. <<i, j>> \notin S
    BY <1>4, <1>5, <2>1 DEF ToSet
  <2>4. x # g
    BY <2>1, <2>3, RowsAreInRow DEF S, GroupSlots, GroupAt
  <2>5. QED BY <2>2, <2>4
<1>11. f \in Good /\ Rearranged(e, f) /\ f.ordering = e.ordering
  <2>1. e.groups \ {g} \in FiniteSubsetsOf(Nat)
    <3>1. e.groups \in SUBSET Nat /\ IsFiniteSet(e.groups)
      BY <1>7 DEF Good, Documents, FiniteSubsetsOf
    <3>2. IsFiniteSet(e.groups \ {g})
      BY <3>1, FS_RemoveElement
    <3>3. QED BY <3>1, <3>2 DEF FiniteSubsetsOf
  <2>2. QED BY <1>7, <1>10, <2>1, RegroupGood
<1> HIDE DEF f
<1>12. Placed(f) = Placed(e)
  BY <1>11, SameOrdering
<1>13. Append(u, f) \in Histories /\ Last(Append(u, f)) = f
  BY <1>6, <1>11, HistoryGrows
<1>14. Rearranged(d, f)
  BY <1>9, <1>11, RearrangedTwice
<1>15. QED BY <1>8, <1>9, <1>12, <1>13, <1>14 DEF Moves, d

\* A group's name goes when no slot has it.
LEMMA Unname ==
    ASSUME NEW h \in Histories, NEW g, \A i, j : ~InSlot(Last(h), i, j, g)
    PROVE  Moves(h, Append(h, [Last(h) EXCEPT !.groups = Last(h).groups \ {g}]))
<1> DEFINE d == Last(h)
           f == [d EXCEPT !.groups = d.groups \ {g}]
<1>1. d \in Good
  BY HistoryGrows
<1>2. \A i, j, x : InSlot(d, i, j, x) /\ x # Null => x \in d.groups \ {g}
  <2>1. d \in Documents
    BY HistoryGrows
  <2>2. \A i, j : ~InSlot(d, i, j, g)
    OBVIOUS
  <2> HIDE DEF d
  <2>3. QED BY <1>1, <2>1, <2>2, GoodByPosition
<1> HIDE DEF d
<1>3. f \in Good /\ Rearranged(d, f) /\ f.ordering = d.ordering
  <2>1. d.groups \ {g} \in FiniteSubsetsOf(Nat)
    <3>1. d.groups \in SUBSET Nat /\ IsFiniteSet(d.groups)
      BY <1>1 DEF Good, Documents, FiniteSubsetsOf
    <3>2. IsFiniteSet(d.groups \ {g})
      BY <3>1, FS_RemoveElement
    <3>3. QED BY <3>1, <3>2 DEF FiniteSubsetsOf
  <2>2. QED BY <1>1, <1>2, <2>1, RegroupGood
<1> HIDE DEF f
<1>4. Placed(f) = Placed(d)
  BY <1>3, SameOrdering
<1>5. Append(h, f) \in Histories /\ Last(Append(h, f)) = f
  BY <1>3, HistoryGrows
<1>6. Moves(h, Append(h, f))
  BY <1>3, <1>4, <1>5 DEF Moves, d
<1>7. QED BY <1>6 DEF f, d

\* deleteGroup takes an empty slot out before the name goes.
LEMMA DeleteGroupGood ==
    ASSUME NEW h \in Histories, NEW g \in Nat
    PROVE  Moves(h, DeleteGroup(h, g))
<1> DEFINE d == Last(h)
           S == GroupSlots(d, g)
           src == CHOOSE p \in S : TRUE
           a == src[1]
           b == src[2]
           empty == S # {} /\ d.ordering[a].slots[b].tracks = <<>>
           e == DropSlot(d, a, b)
           u == Append(h, e)
<1>1. d \in Good /\ d \in Documents
  BY HistoryGrows
<1>2. DeleteGroup(h, g) =
        IF S # {} /\ ~empty THEN h
        ELSE LET bare == IF empty THEN u ELSE h
             IN Append(bare, [Last(bare) EXCEPT !.groups = Last(bare).groups \ {g}])
  BY DEF DeleteGroup
<1>3. CASE S # {} /\ ~empty
  <2> HIDE DEF S, empty
  <2> QED BY <1>2, <1>3, MovesCompose
<1>4. CASE S = {}
  <2>1. DeleteGroup(h, g) = Append(h, [Last(h) EXCEPT !.groups = Last(h).groups \ {g}])
    BY <1>2, <1>4
  <2>2. \A i, j : ~InSlot(d, i, j, g)
    BY <1>4, RowsAreInRow DEF GroupSlots, GroupAt
  <2>3. QED BY <2>1, <2>2, Unname
<1>5. CASE empty
  <2>1. src \in Slots(d) /\ GroupAt(d, src) = g
    BY <1>5 DEF GroupSlots, GroupAt
  <2>2. d.ordering[a].slots[b].tracks = <<>>
    BY <1>5
  <2>3. DeleteGroup(h, g) = Append(u, [Last(u) EXCEPT !.groups = Last(u).groups \ {g}])
    <3> HIDE DEF u
    <3> QED BY <1>2, <1>5
  <2> HIDE DEF src, d, empty
  <2>4. InSlot(d, a, b, g)
    BY <2>1, RowsAreInRow
  <2>5. /\ a \in DOMAIN d.ordering /\ b \in DOMAIN d.ordering[a].slots
        /\ d.ordering[a].slots[b].group = g
    BY <2>4 DEF InSlot
  <2> HIDE DEF a, b
  <2>6. /\ e \in Good
        /\ \A x \in Placed(e) : x \in Placed(d)
        /\ \A x \in Placed(d) : x \in Placed(e) \/ \E k : InRow(d, a, b, k, x)
        /\ Free(e, g)
    BY <1>1, <2>5, DropSlotGood
  <2>7. Rearranged(d, e)
    BY <1>1, <2>5, DropSlotShape
  <2>8. \A k, x : ~InRow(d, a, b, k, x)
    BY <2>2 DEF InRow
  <2> HIDE DEF e
  <2>9. u \in Histories /\ Last(u) = e
    BY <2>6, HistoryGrows
  <2> HIDE DEF u
  <2>10. Moves(h, u)
    BY <2>6, <2>7, <2>8, <2>9 DEF Moves, d
  <2>11. \A i, j : ~InSlot(e, i, j, g)
    <3>1. g # Null
      BY ScoreAssumption
    <3>2. QED BY <2>6, <3>1 DEF Free
  <2>12. Moves(u, DeleteGroup(h, g))
    BY <2>3, <2>9, <2>11, Unname
  <2>13. QED BY <2>10, <2>12, MovesCompose
<1>6. QED BY <1>3, <1>4, <1>5

\* Dragging a layer permutes the layers and so keeps every row and slot.
LEMMA ReorderLayerGood ==
    ASSUME NEW h \in Histories, NEW from \in DOMAIN Last(h).ordering,
           NEW to \in DOMAIN Last(h).ordering
    PROVE  LET g == ReorderLayer(h, from, to)
           IN /\ g \in Histories /\ Placed(Last(g)) = Placed(Last(h))
              /\ Last(g).tracks = Last(h).tracks
<1> DEFINE d == Last(h)
           o == d.ordering
           r == InsertAt(RemoveAt(o, from), to, o[from])
           e == [d EXCEPT !.ordering = r]
           n == Len(o)
<1>1. d \in Good /\ d \in Documents
  BY HistoryGrows
<1>2. o \in Seq(Layer) /\ n \in Nat \ {0} /\ DOMAIN o = 1 .. n /\ from \in 1 .. n /\ to \in 1 .. n
  BY <1>1, DocumentShape
<1>3. ReorderLayer(h, from, to) = h \/ ReorderLayer(h, from, to) = Append(h, e)
  BY DEF ReorderLayer
<1> HIDE DEF d, o
<1>4. r \in Seq(Layer) /\ Permuted(o, r)
  <2>1. o \in Seq(Layer) /\ from \in 1 .. Len(o) /\ to \in 1 .. Len(o)
    BY <1>2
  <2>2. QED BY ONLY <2>1, MoveElement
<1> HIDE DEF r
<1>5. PICK was \in [1 .. n -> 1 .. n], now \in [1 .. n -> 1 .. n] :
         /\ \A i \in 1 .. n : r[i] = o[was[i]]
         /\ \A i, j \in 1 .. n : was[i] = was[j] => i = j
         /\ \A m \in 1 .. n : was[now[m]] = m
  BY <1>4 DEF Permuted
<1>6. Len(r) = n
  BY <1>4 DEF Permuted
<1> HIDE DEF n
<1>7. DOMAIN r = 1 .. n /\ r # <<>>
  <2>1. r \in Seq(Layer) /\ Len(r) = n
    BY <1>4, <1>6
  <2>2. QED BY <1>2, <2>1, LenProperties, EmptySeq
<1>8. /\ e \in Documents /\ e.ordering = r /\ e.tracks = d.tracks /\ e.groups = d.groups
      /\ e.clash = d.clash
  BY <1>1, <1>4, <1>7 DEF Documents
<1> HIDE DEF e
<1>10. /\ \A i, j, x : InSlot(e, i, j, x) <=> i \in 1 .. n /\ InSlot(d, was[i], j, x)
       /\ \A i, j, k, x : InRow(e, i, j, k, x) <=> i \in 1 .. n /\ InRow(d, was[i], j, k, x)
  <2>1. /\ DOMAIN e.ordering = 1 .. n /\ DOMAIN d.ordering = 1 .. n
        /\ \A i \in 1 .. n : was[i] \in 1 .. n /\ e.ordering[i] = d.ordering[was[i]]
    <3>1. DOMAIN e.ordering = 1 .. n /\ DOMAIN d.ordering = 1 .. n
      BY <1>2, <1>7, <1>8 DEF o
    <3>2. \A i \in 1 .. n : was[i] \in 1 .. n
      BY <1>5
    <3>3. \A i \in 1 .. n : e.ordering[i] = d.ordering[was[i]]
      BY <1>5, <1>8 DEF o
    <3>4. QED BY <3>1, <3>2, <3>3
  <2>2. ASSUME NEW i, NEW j, NEW x
        PROVE  InSlot(e, i, j, x) <=> i \in 1 .. n /\ InSlot(d, was[i], j, x)
    BY ONLY <2>1 DEF InSlot
  <2>3. ASSUME NEW i, NEW j, NEW k, NEW x
        PROVE  InRow(e, i, j, k, x) <=> i \in 1 .. n /\ InRow(d, was[i], j, k, x)
    BY ONLY <2>1 DEF InRow
  <2>4. QED BY <2>2, <2>3
<1>11. Scope(e) = Scope(d)
  BY <1>8 DEF Scope
<1>12. e \in Good
  <2>1. ASSUME NEW i, NEW j, NEW x, InSlot(e, i, j, x), x # Null
        PROVE  x \in e.groups /\ \A i2, j2 : InSlot(e, i2, j2, x) => i = i2 /\ j = j2
    <3>1. /\ i \in 1 .. n /\ InSlot(d, was[i], j, x)
      BY <1>10, <2>1
    <3>2. x \in d.groups /\ \A i2, j2 : InSlot(d, i2, j2, x) => was[i] = i2 /\ j = j2
      BY <1>1, <2>1, <3>1, GoodByPosition
    <3>3. QED BY <1>5, <1>8, <1>10, <3>1, <3>2
  <2>2. ASSUME NEW i, NEW j, NEW k, NEW x, InRow(e, i, j, k, x), x \in Scope(e)
        PROVE  /\ x \in DOMAIN e.tracks
               /\ \A i2, j2, k2 : InRow(e, i2, j2, k2, x) => i = i2 /\ j = j2 /\ k = k2
    <3>1. i \in 1 .. n /\ InRow(d, was[i], j, k, x) /\ x \in Scope(d)
      BY <1>10, <1>11, <2>2
    <3>2. /\ x \in DOMAIN d.tracks
          /\ \A i2, j2, k2 : InRow(d, i2, j2, k2, x) => was[i] = i2 /\ j = j2 /\ k = k2
      BY <1>1, <3>1, GoodByPosition
    <3>3. QED BY <1>5, <1>8, <1>10, <3>1, <3>2
  <2>3. QED BY <1>8, <2>1, <2>2, GoodByPosition
<1>13. Placed(e) = Placed(d)
  <2>1. ASSUME NEW x \in Placed(e) PROVE x \in Placed(d)
    BY <1>10, <2>1, PlacedByPosition
  <2>2. ASSUME NEW x \in Placed(d) PROVE x \in Placed(e)
    <3>1. PICK m, j, k : InRow(d, m, j, k, x)
      BY PlacedByPosition
    <3>2. m \in 1 .. n
      BY <1>2, <3>1 DEF InRow, o
    <3>3. InRow(e, now[m], j, k, x)
      BY <1>5, <1>10, <3>1, <3>2
    <3>4. QED BY <3>3, PlacedByPosition
  <2>3. QED BY <2>1, <2>2
<1>14. Append(h, e) \in Histories /\ Last(Append(h, e)) = e
  BY <1>12, HistoryGrows
<1>15. QED BY <1>3, <1>8, <1>13, <1>14 DEF d

-----------------------------------------------------------------------------
(* The rows of the loaded audio and lyrics.                                 *)

\* x has what the first k elements of q have in S.
Picked(q, S, x, k) ==
    /\ ToSet(x) = {q[i] : i \in 1 .. k} \cap S
    /\ IsInjective(q) => IsInjective(x)

\* One more element looked at.
LEMMA PickedOneMore ==
    ASSUME NEW E, NEW q \in Seq(E), NEW S, NEW k \in 1 .. Len(q), NEW x \in Seq(E),
           Picked(q, S, x, k - 1)
    PROVE  LET y == IF q[k] \in S THEN Append(x, q[k]) ELSE x
           IN y \in Seq(E) /\ Picked(q, S, y, k)
<1> DEFINE A == {q[i] : i \in 1 .. k - 1}
           B == {q[i] : i \in 1 .. k}
           m == Len(x)
           z == Append(x, q[k])
<1>1. q[k] \in E /\ Len(q) \in Nat /\ DOMAIN q = 1 .. Len(q)
  BY ElementOfSeq, LenProperties
<1>2. B = A \cup {q[k]}
  <2>1. 1 .. k = (1 .. k - 1) \cup {k}
    BY <1>1
  <2>2. QED BY <2>1
<1>3. m \in Nat /\ DOMAIN x = 1 .. m
  BY LenProperties
<1>4. /\ z \in Seq(E) /\ DOMAIN z = 1 .. m + 1 /\ z[m + 1] = q[k]
      /\ \A i \in 1 .. m : z[i] = x[i]
  <2>1. z \in Seq(E) /\ Len(z) = m + 1 /\ z[m + 1] = q[k] /\ \A i \in 1 .. m : z[i] = x[i]
    BY <1>1, AppendProperties
  <2>2. QED BY <2>1, LenProperties
<1> HIDE DEF z, m
<1>5. ToSet(z) = ToSet(x) \cup {q[k]}
  <2>1. 1 .. m + 1 = (1 .. m) \cup {m + 1}
    BY <1>3
  <2>2. QED BY <1>3, <1>4, <2>1 DEF ToSet
<1>6. ASSUME IsInjective(q), q[k] \in S PROVE IsInjective(z)
  <2>1. q[k] \notin A
    BY <1>1, <1>6 DEF IsInjective
  <2>2. ToSet(x) \subseteq A /\ IsInjective(x)
    BY <1>6 DEF Picked
  <2>3. \A i \in 1 .. m : x[i] # q[k]
    BY <1>3, <2>1, <2>2 DEF ToSet
  <2>4. \A i, j \in 1 .. m : x[i] = x[j] => i = j
    BY <1>3, <2>2 DEF IsInjective
  <2>5. \A i \in 1 .. m + 1 : i \in 1 .. m \/ i = m + 1
    BY <1>3
  <2>6. \A i, j \in 1 .. m + 1 : z[i] = z[j] => i = j
    BY <1>4, <2>3, <2>4, <2>5
  <2>7. QED BY <1>4, <2>6 DEF IsInjective
<1> HIDE DEF A, B
<1>7. ToSet(x) = A \cap S /\ (IsInjective(q) => IsInjective(x))
  BY DEF Picked, A
<1>8. CASE q[k] \in S
  <2>1. ToSet(z) = B \cap S
    BY <1>2, <1>5, <1>7, <1>8
  <2>2. Picked(q, S, z, k)
    BY <1>6, <1>8, <2>1 DEF Picked, B
  <2>3. QED BY <1>4, <1>8, <2>2 DEF z
<1>9. CASE q[k] \notin S
  <2>1. ToSet(x) = B \cap S
    BY <1>2, <1>7, <1>9
  <2>2. Picked(q, S, x, k)
    BY <1>7, <2>1 DEF Picked, B
  <2>3. QED BY <1>9, <2>2
<1>10. QED BY <1>8, <1>9

\* Only keeps what is in S, in order and as often as it is there.
LEMMA OnlyProperties ==
    ASSUME NEW E, NEW q \in Seq(E), NEW S
    PROVE  /\ Only(q, S) \in Seq(E) /\ ToSet(Only(q, S)) = ToSet(q) \cap S
           /\ IsInjective(q) => IsInjective(Only(q, S))
<1> DEFINE n == Len(q)
           U == Seq(E)
           P(x, k) == Picked(q, S, x, k)
           T == [k \in 0 .. n |-> {x \in U : P(x, k)}]
           Step(x, i) == IF q[i] \in S THEN Append(x, q[i]) ELSE x
           F == [p \in (1 .. n) \X U |-> Step(p[2], p[1])]
           f == CHOOSE f : f = [i \in 0 .. n |-> IF i = 0 THEN <<>> ELSE Step(f[i - 1], i)]
<1>1. n \in Nat
  BY LenProperties
<1>2. <<>> \in U /\ P(<<>>, 0)
  <2>1. <<>> \in U /\ ToSet(<<>>) = {} /\ IsInjective(<<>>) /\ {q[i] : i \in 1 .. 0} = {}
    BY DEF ToSet, IsInjective
  <2>2. QED BY <2>1 DEF Picked
<1>3. \A k \in 1 .. n : \A x \in U : P(x, k - 1) => Step(x, k) \in U /\ P(Step(x, k), k)
  BY PickedOneMore
<1>4. Only(q, S) = f[n]
  BY DEF Only
<1> HIDE DEF n, U, P, Step
<1>5. /\ \A k \in 0 .. n : T[k] \subseteq U /\ \A x \in T[k] : P(x, k)
      /\ \A k \in 0 .. n : \A x \in U : P(x, k) => x \in T[k]
  OBVIOUS
<1>6. \A k \in 1 .. n : \A x \in U : F[<<k, x>>] = Step(x, k)
  OBVIOUS
<1> HIDE DEF T, F
<1>7. 0 \in 0 .. n /\ n \in 0 .. n /\ \A k \in 1 .. n : k \in 0 .. n /\ k - 1 \in 0 .. n
  BY ONLY <1>1
<1>8. \A k \in 1 .. n : \A x \in T[k - 1] : x \in U /\ Step(x, k) \in T[k]
  BY <1>3, <1>5, <1>7
<1>9. <<>> \in T[0]
  BY <1>2, <1>5, <1>7
<1>10. PICK g : Leading(g, n, U, T, F, <<>>)
  <2>1. Leads(n, U, T, F)
    BY <1>5, <1>6, <1>8 DEF Leads
  <2>2. QED BY ONLY <1>1, <1>9, <2>1, Stages
<1>11. g = [i \in 0 .. n |-> IF i = 0 THEN <<>> ELSE Step(g[i - 1], i)]
  <2>1. g \in [0 .. n -> U] /\ g[0] = <<>> /\ \A k \in 1 .. n : g[k] = F[<<k, g[k - 1]>>]
    BY <1>10 DEF Leading
  <2>2. \A i \in 1 .. n : g[i] = Step(g[i - 1], i)
    BY <1>6, <1>7, <2>1
  <2>3. QED BY <1>1, <2>1, <2>2
<1>12. f = [i \in 0 .. n |-> IF i = 0 THEN <<>> ELSE Step(f[i - 1], i)]
  BY <1>11
<1> HIDE DEF f
<1>13. f[0] = <<>> /\ \A k \in 1 .. n : f[k] = Step(f[k - 1], k)
  BY <1>1, <1>12
<1>14. \A k \in 0 .. n : f[k] \in T[k]
  <2>1. f[0] \in T[0] /\ \A k \in 1 .. n : f[k - 1] \in T[k - 1] => f[k] \in T[k]
    BY <1>8, <1>9, <1>13
  <2>2. QED BY ONLY <1>1, <2>1, StagesHold
<1>15. Only(q, S) \in U /\ P(Only(q, S), n)
  BY <1>4, <1>5, <1>7, <1>14
<1>16. ToSet(q) = {q[i] : i \in 1 .. n}
  BY LenProperties DEF ToSet, n
<1>17. QED BY <1>15, <1>16 DEF Picked, P, U

\* The rows behind the lanes of a stem are rows of the document.
LEMMA BackedPlaced ==
    ASSUME NEW d \in Documents, NEW t \in RuntimeIds
    PROVE  Backed(d, t) \in Seq(Placed(d))
<1> DEFINE L == {lane \in Lanes : RowsOfLane(d, lane) # {}}
           lanes == Only(Backs[t], L)
<1>1. Backs[t] \in Seq(Lanes)
  BY ScoreAssumption
<1>2. lanes \in Seq(Lanes) /\ ToSet(lanes) \subseteq L
  BY <1>1, OnlyProperties
<1>3. Backed(d, t) = [i \in DOMAIN lanes |-> First(RowsOfLane(d, lanes[i])).track]
  BY DEF Backed
<1> HIDE DEF lanes
<1>4. Len(lanes) \in Nat /\ DOMAIN lanes = 1 .. Len(lanes)
  BY <1>2, LenProperties
<1>5. ASSUME NEW i \in 1 .. Len(lanes) PROVE First(RowsOfLane(d, lanes[i])).track \in Placed(d)
  <2>1. RowsOfLane(d, lanes[i]) # {}
    BY <1>2, <1>4 DEF ToSet
  <2>2. RowsOfLane(d, lanes[i]) \in SUBSET Rows(d)
    BY DEF RowsOfLane
  <2>3. First(RowsOfLane(d, lanes[i])) \in Rows(d)
    BY <2>1, <2>2, FirstIsOne
  <2>4. QED BY <2>3 DEF Placed
<1>6. QED BY <1>3, <1>4, <1>5

\* Moving them in behind each other keeps the invariant and every row.
LEMMA FollowGood ==
    ASSUME NEW h \in Histories, NEW l, NEW S, NEW backed \in Seq(S), backed # <<>>
    PROVE  Moves(h, Follow(h, l, backed))
<1> DEFINE n == Len(backed) - 1
           U == Histories
           P(x, k) == Moves(h, x)
           T == [k \in 0 .. n |-> {x \in U : P(x, k)}]
           Step(x, i) == MoveTrackAfter(x, backed[i + 1], l, backed[i])
           F == [p \in (1 .. n) \X U |-> Step(p[2], p[1])]
           f == CHOOSE f : f = [i \in 0 .. n |-> IF i = 0 THEN h ELSE Step(f[i - 1], i)]
<1>1. n \in Nat
  BY LenProperties, EmptySeq
<1>2. h \in U /\ P(h, 0)
  BY MovesCompose
<1>3. \A k \in 1 .. n : \A x \in U : P(x, k - 1) => Step(x, k) \in U /\ P(Step(x, k), k)
  <2> SUFFICES ASSUME NEW k \in 1 .. n, NEW x \in Histories, Moves(h, x)
               PROVE  Moves(h, Step(x, k))
    BY DEF Moves
  <2>1. Moves(x, Step(x, k))
    BY MoveTrackAfterGood
  <2>2. QED BY <2>1, MovesCompose
<1>4. Follow(h, l, backed) = f[n]
  BY DEF Follow
<1> HIDE DEF n, U, P, Step
<1>5. /\ \A k \in 0 .. n : T[k] \subseteq U /\ \A x \in T[k] : P(x, k)
      /\ \A k \in 0 .. n : \A x \in U : P(x, k) => x \in T[k]
  OBVIOUS
<1>6. \A k \in 1 .. n : \A x \in U : F[<<k, x>>] = Step(x, k)
  OBVIOUS
<1> HIDE DEF T, F
<1>7. 0 \in 0 .. n /\ n \in 0 .. n /\ \A k \in 1 .. n : k \in 0 .. n /\ k - 1 \in 0 .. n
  BY ONLY <1>1
<1>8. \A k \in 1 .. n : \A x \in T[k - 1] : x \in U /\ Step(x, k) \in T[k]
  BY <1>3, <1>5, <1>7
<1>9. h \in T[0]
  BY <1>2, <1>5, <1>7
<1>10. PICK g : Leading(g, n, U, T, F, h)
  <2>1. Leads(n, U, T, F)
    BY <1>5, <1>6, <1>8 DEF Leads
  <2>2. QED BY ONLY <1>1, <1>9, <2>1, Stages
<1>11. g = [i \in 0 .. n |-> IF i = 0 THEN h ELSE Step(g[i - 1], i)]
  <2>1. g \in [0 .. n -> U] /\ g[0] = h /\ \A k \in 1 .. n : g[k] = F[<<k, g[k - 1]>>]
    BY <1>10 DEF Leading
  <2>2. \A i \in 1 .. n : g[i] = Step(g[i - 1], i)
    BY <1>6, <1>7, <2>1
  <2>3. QED BY <1>1, <2>1, <2>2
<1>12. f = [i \in 0 .. n |-> IF i = 0 THEN h ELSE Step(f[i - 1], i)]
  BY <1>11
<1> HIDE DEF f
<1>13. f[0] = h /\ \A k \in 1 .. n : f[k] = Step(f[k - 1], k)
  BY <1>1, <1>12
<1>14. \A k \in 0 .. n : f[k] \in T[k]
  <2>1. f[0] \in T[0] /\ \A k \in 1 .. n : f[k - 1] \in T[k - 1] => f[k] \in T[k]
    BY <1>8, <1>9, <1>13
  <2>2. QED BY ONLY <1>1, <2>1, StagesHold
<1>15. Follow(h, l, backed) \in U /\ P(Follow(h, l, backed), n)
  BY <1>4, <1>5, <1>7, <1>14
<1>16. QED BY <1>15 DEF P

\* g goes on from h by giving t a row.
Adds(h, g, t) ==
    /\ g \in Histories /\ Rearranged(Last(h), Last(g))
    /\ Placed(Last(g)) = Placed(Last(h)) \cup {t}

\* t has an entity and no row.
Homeless(d, t) == t \in RuntimeIds /\ t \in DOMAIN d.tracks /\ t \notin Placed(d)

\* The ids of the runtime tracks are in every scope.
LEMMA RuntimeInScope ==
    ASSUME NEW d, NEW t \in RuntimeIds
    PROVE  t \in Scope(d) /\ t \in TrackId
BY DEF Scope, TrackId

\* A track with no instrument goes above everything, in a loose run.
LEMMA PlaceAtTopGood ==
    ASSUME NEW h \in Histories, NEW t, Homeless(Last(h), t)
    PROVE  Adds(h, PlaceAtTop(h, t), t)
<1> DEFINE d == Last(h)
           slots == d.ordering[1].slots
           e == InsertTrack(d, 1, 1, 1, t)
           f == InsertSlot(d, 1, 1, Loose(<<t>>))
<1>1. d \in Good /\ d \in Documents
  BY HistoryGrows
<1>2. t \in TrackId /\ t \in DOMAIN d.tracks /\ t \notin Placed(d)
  BY RuntimeInScope DEF Homeless
<1> HIDE DEF d
<1>3. d.ordering # <<>> /\ 1 \in DOMAIN d.ordering
  BY <1>1, DocumentShape DEF Documents
<1>4. Len(slots) \in Nat /\ DOMAIN slots = 1 .. Len(slots) /\ slots \in Seq(Slot)
  BY <1>1, <1>3, DocumentShape
<1>5. PlaceAtTop(h, t) = IF slots # <<>> /\ slots[1].group = Null THEN Append(h, e) ELSE Append(h, f)
  BY <1>3 DEF PlaceAtTop, d
<1>6. CASE slots # <<>> /\ slots[1].group = Null
  <2>1. 1 \in DOMAIN slots
    BY <1>4, <1>6, EmptySeq
  <2>2. 1 \in 1 .. Len(slots[1].tracks) + 1
    BY <1>1, <1>3, <2>1, DocumentShape
  <2>3. e \in Good /\ Rearranged(d, e) /\ Placed(e) = Placed(d) \cup {t}
    <3>1. 1 \in DOMAIN d.ordering[1].slots /\ 1 \in 1 .. Len(d.ordering[1].slots[1].tracks) + 1
      BY <2>1, <2>2
    <3>2. QED BY ONLY <1>1, <1>2, <1>3, <3>1, InsertTrackGood
  <2> HIDE DEF e
  <2>4. Append(h, e) \in Histories /\ Last(Append(h, e)) = e
    BY <2>3, HistoryGrows
  <2>5. QED BY <1>5, <1>6, <2>3, <2>4 DEF Adds, d
<1>7. CASE ~(slots # <<>> /\ slots[1].group = Null)
  <2>1. 1 \in 1 .. Len(slots) + 1
    BY <1>4
  <2>2. <<t>> \in Seq(TrackId) /\ DOMAIN <<t>> = {1} /\ <<t>>[1] = t /\ ToSet(<<t>>) = {t}
    BY <1>2, OneTrack
  <2>3. Loose(<<t>>) \in Slot /\ Loose(<<t>>).group = Null /\ Loose(<<t>>).tracks = <<t>>
    BY <2>2, SlotsOfTracks
  <2>4. Free(d, Loose(<<t>>).group) /\ Fits(d, Loose(<<t>>).tracks)
    BY <1>2, <2>2, <2>3 DEF Free, Fits
  <2>5. f \in Good /\ Placed(f) = Placed(d) \cup {t}
    BY <1>1, <1>3, <2>1, <2>2, <2>3, <2>4, InsertSlotGood
  <2>6. Rearranged(d, f)
    BY <1>1, <1>3, <2>1, <2>3, InsertSlotShape
  <2> HIDE DEF f
  <2>7. Append(h, f) \in Histories /\ Last(Append(h, f)) = f
    BY <2>5, HistoryGrows
  <2>8. QED BY <1>5, <1>7, <2>5, <2>6, <2>7 DEF Adds, d
<1>8. QED BY <1>6, <1>7

\* A stem goes above the first of the rows it backs, which are grouped under
\* it: each commit keeps the invariant, and no row is lost.
LEMMA ClusterGood ==
    ASSUME NEW h \in Histories, NEW t, Homeless(Last(h), t), Backed(Last(h), t) # <<>>
    PROVE  Adds(h, Cluster(h, t), t)
<1> DEFINE d == Last(h)
           backed == Backed(d, t)
           a == backed[1]
           at == Locate(d, a)
           l == d.ordering[at.li].id
           g == IF SlotOf(d, at).group = Null THEN CreateGroup(h, a) ELSE h
           e == Last(g)
           row == Locate(e, a)
           f == InsertTrack(e, row.li, row.si, row.ti, t)
           u == Append(g, f)
<1>1. d \in Good /\ d \in Documents
  BY HistoryGrows
<1>2. t \in RuntimeIds /\ t \in TrackId /\ t \in DOMAIN d.tracks /\ t \notin Placed(d)
  BY RuntimeInScope DEF Homeless
<1>3. Cluster(h, t) = Follow(u, l, backed)
  BY DEF Cluster
<1>4. backed # <<>>
  OBVIOUS
<1> HIDE DEF d
<1>5. backed \in Seq(Placed(d))
  BY <1>1, <1>2, BackedPlaced
<1> HIDE DEF backed
<1>6. a \in Placed(d)
  <2>1. 1 \in 1 .. Len(backed)
    BY <1>4, <1>5, EmptySeq, LenProperties
  <2>2. QED BY <1>5, <2>1, ElementOfSeq
<1> HIDE DEF a, l
<1>7. Moves(h, g)
  <2>1. Moves(h, CreateGroup(h, a)) /\ Moves(h, h)
    BY CreateGroupGood, MovesCompose DEF Moves
  <2>2. QED BY <2>1
<1> HIDE DEF g
<1>8. g \in Histories /\ Rearranged(d, e) /\ Placed(e) = Placed(d)
  BY <1>7 DEF Moves, d
<1>9. e \in Good /\ e \in Documents
  BY <1>8, HistoryGrows
<1> HIDE DEF e
<1>10. InRow(e, row.li, row.si, row.ti, a)
  BY <1>6, <1>8, <1>9, LocateFinds
<1> HIDE DEF row
<1>11. /\ row.li \in DOMAIN e.ordering /\ row.si \in DOMAIN e.ordering[row.li].slots
       /\ row.ti \in DOMAIN e.ordering[row.li].slots[row.si].tracks
  BY <1>10 DEF InRow
<1>12. row.ti \in 1 .. Len(e.ordering[row.li].slots[row.si].tracks) + 1
  <2> DEFINE ts == e.ordering[row.li].slots[row.si].tracks
  <2>1. Len(ts) \in Nat /\ DOMAIN ts = 1 .. Len(ts)
    BY <1>9, <1>11, DocumentShape
  <2>2. row.ti \in DOMAIN ts
    BY <1>11
  <2> HIDE DEF ts
  <2>3. row.ti \in 1 .. Len(ts) + 1
    BY <2>1, <2>2
  <2>4. QED BY <2>3 DEF ts
<1>13. DOMAIN e.tracks = DOMAIN d.tracks
  BY <1>8, RearrangedSame
<1>14. f \in Good /\ Rearranged(e, f) /\ Placed(f) = Placed(e) \cup {t}
  BY <1>2, <1>8, <1>9, <1>11, <1>12, <1>13, InsertTrackGood, SMTT(40)
<1> HIDE DEF f
<1>15. u \in Histories /\ Last(u) = f
  BY <1>8, <1>14, HistoryGrows
<1> HIDE DEF u
<1>16. Moves(u, Cluster(h, t))
  BY <1>3, <1>4, <1>5, <1>15, FollowGood
<1>17. Rearranged(d, f)
  BY <1>8, <1>14, RearrangedTwice
<1>18. Rearranged(d, Last(Cluster(h, t)))
  BY <1>15, <1>16, <1>17, RearrangedTwice DEF Moves
<1>19. QED BY <1>8, <1>14, <1>15, <1>16, <1>18 DEF Moves, Adds, d

\* One way or the other, a runtime track without a row gets one.
LEMMA PlaceRuntimeGood ==
    ASSUME NEW h \in Histories, NEW t, Homeless(Last(h), t)
    PROVE  Adds(h, PlaceRuntime(h, t), t)
BY PlaceAtTopGood, ClusterGood DEF PlaceRuntime


-----------------------------------------------------------------------------
(* syncRuntimeTracks: whatever the rows, those of the loaded tracks, and no *)
(* others of a runtime track, are there in the end.                         *)

\* In e, d's entities and rows without those of D, or with those of D.
Without(d, e, D) == DOMAIN e.tracks = DOMAIN d.tracks \ D /\ Placed(e) = Placed(d) \ D
With(d, e, D) == DOMAIN e.tracks = DOMAIN d.tracks \cup D /\ Placed(e) = Placed(d) \cup D

\* The rows in scope have their entities.
LEMMA KnownRows ==
    ASSUME NEW d \in Good, NEW x \in Placed(d), x \in Scope(d)
    PROVE  x \in DOMAIN d.tracks
BY DEF Good, Known

\* An entity goes, and its row before it.
LEMMA DropEntityGood ==
    ASSUME NEW h \in Histories, NEW t \in RuntimeIds
    PROVE  /\ DropEntity(h, t) \in Histories
           /\ Without(Last(h), Last(DropEntity(h, t)), {t})
<1> DEFINE d == Last(h)
           u == IF t \in Placed(d) THEN Uproot(h, Locate(d, t)) ELSE h
           e == Last(u)
           f == Restrict(e.tracks, DOMAIN e.tracks \ {t})
           r == [e EXCEPT !.tracks = f]
<1>1. d \in Good /\ d \in Documents
  BY HistoryGrows
<1>2. t \in TrackId /\ \A x : t \in Scope(x)
  BY RuntimeInScope
<1>3. /\ u \in Histories /\ e \in Good /\ DOMAIN e.tracks = DOMAIN d.tracks
      /\ Placed(e) = Placed(d) \ {t}
  <2>1. CASE t \in Placed(d)
    <3>1. /\ Uproot(h, Locate(d, t)) \in Histories
          /\ Last(Uproot(h, Locate(d, t))) \in Good
          /\ Rearranged(d, Last(Uproot(h, Locate(d, t))))
          /\ Placed(d) = Placed(Last(Uproot(h, Locate(d, t)))) \cup {t}
          /\ t \in Scope(Last(Uproot(h, Locate(d, t)))) => t \notin Placed(Last(Uproot(h, Locate(d, t))))
      BY <2>1, UprootPlaced
    <3>2. u = Uproot(h, Locate(d, t))
      BY <2>1
    <3> HIDE DEF u, d
    <3>3. u \in Histories /\ e \in Good /\ Rearranged(d, e) /\ Placed(d) = Placed(e) \cup {t}
      BY <3>1, <3>2
    <3>4. t \notin Placed(e)
      BY <1>2, <3>1, <3>2
    <3>5. DOMAIN e.tracks = DOMAIN d.tracks
      BY <3>3, RearrangedSame
    <3>6. QED BY <3>3, <3>4, <3>5
  <2>2. CASE t \notin Placed(d)
    <3>1. u = h
      BY <2>2
    <3> HIDE DEF u
    <3>2. QED BY <1>1, <2>2, <3>1
  <2>3. QED BY <2>1, <2>2
<1>4. DropEntity(h, t) = Append(u, r)
  BY DEF DropEntity
<1> HIDE DEF u, e, d
<1>5. f \in Entities /\ DOMAIN f = DOMAIN e.tracks \ {t}
  <2>1. e.tracks \in Entities
    BY <1>3 DEF Good, Documents
  <2>2. QED BY <2>1, EntitiesDrop
<1> HIDE DEF f
<1>6. \A x \in Placed(e) : x \in Scope(e) => x \in DOMAIN f
  BY <1>3, <1>5, KnownRows
<1>7. r \in Good /\ r.ordering = e.ordering /\ r.tracks = f
  BY <1>3, <1>5, <1>6, RetrackGood
<1> HIDE DEF r
<1>8. Placed(r) = Placed(e)
  BY <1>7, SameOrdering
<1>9. Append(u, r) \in Histories /\ Last(Append(u, r)) = r
  BY <1>3, <1>7, HistoryGrows
<1>10. QED BY <1>3, <1>4, <1>5, <1>7, <1>8, <1>9 DEF Without, d

\* So do the entities of ts, one by one.
LEMMA DropAllGood ==
    ASSUME NEW h \in Histories, NEW ts \in Seq(RuntimeIds)
    PROVE  /\ DropAll(h, ts) \in Histories
           /\ Without(Last(h), Last(DropAll(h, ts)), ToSet(ts))
<1> DEFINE n == Len(ts)
           U == Histories
           P(x, k) == Without(Last(h), Last(x), {ts[m] : m \in 1 .. k})
           T == [k \in 0 .. n |-> {x \in U : P(x, k)}]
           Step(x, i) == DropEntity(x, ts[i])
           F == [p \in (1 .. n) \X U |-> Step(p[2], p[1])]
           f == CHOOSE f : f = [i \in 0 .. n |-> IF i = 0 THEN h ELSE Step(f[i - 1], i)]
<1>1. n \in Nat
  BY LenProperties
<1>2. h \in U /\ P(h, 0)
  BY DEF Without
<1>3. \A k \in 1 .. n : \A x \in U : P(x, k - 1) => Step(x, k) \in U /\ P(Step(x, k), k)
  <2> SUFFICES ASSUME NEW k \in 1 .. n, NEW x \in Histories, P(x, k - 1)
               PROVE  Step(x, k) \in Histories /\ P(Step(x, k), k)
    OBVIOUS
  <2>1. ts[k] \in RuntimeIds
    BY ElementOfSeq
  <2>2. Step(x, k) \in Histories /\ Without(Last(x), Last(Step(x, k)), {ts[k]})
    BY <2>1, DropEntityGood
  <2>3. {ts[m] : m \in 1 .. k} = {ts[m] : m \in 1 .. k - 1} \cup {ts[k]}
    <3>1. 1 .. k = (1 .. k - 1) \cup {k}
      BY <1>1
    <3>2. QED BY <3>1
  <2> HIDE DEF Step
  <2>4. QED BY <2>2, <2>3 DEF Without
<1>4. DropAll(h, ts) = f[n]
  BY DEF DropAll
<1> HIDE DEF n, U, P, Step
<1>5. /\ \A k \in 0 .. n : T[k] \subseteq U /\ \A x \in T[k] : P(x, k)
      /\ \A k \in 0 .. n : \A x \in U : P(x, k) => x \in T[k]
  OBVIOUS
<1>6. \A k \in 1 .. n : \A x \in U : F[<<k, x>>] = Step(x, k)
  OBVIOUS
<1> HIDE DEF T, F
<1>7. 0 \in 0 .. n /\ n \in 0 .. n /\ \A k \in 1 .. n : k \in 0 .. n /\ k - 1 \in 0 .. n
  BY ONLY <1>1
<1>8. \A k \in 1 .. n : \A x \in T[k - 1] : x \in U /\ Step(x, k) \in T[k]
  BY <1>3, <1>5, <1>7
<1>9. h \in T[0]
  BY <1>2, <1>5, <1>7
<1>10. PICK g : Leading(g, n, U, T, F, h)
  <2>1. Leads(n, U, T, F)
    BY <1>5, <1>6, <1>8 DEF Leads
  <2>2. QED BY ONLY <1>1, <1>9, <2>1, Stages
<1>11. g = [i \in 0 .. n |-> IF i = 0 THEN h ELSE Step(g[i - 1], i)]
  <2>1. g \in [0 .. n -> U] /\ g[0] = h /\ \A k \in 1 .. n : g[k] = F[<<k, g[k - 1]>>]
    BY <1>10 DEF Leading
  <2>2. \A i \in 1 .. n : g[i] = Step(g[i - 1], i)
    BY <1>6, <1>7, <2>1
  <2>3. QED BY <1>1, <2>1, <2>2
<1>12. f = [i \in 0 .. n |-> IF i = 0 THEN h ELSE Step(f[i - 1], i)]
  BY <1>11
<1> HIDE DEF f
<1>13. f[0] = h /\ \A k \in 1 .. n : f[k] = Step(f[k - 1], k)
  BY <1>1, <1>12
<1>14. \A k \in 0 .. n : f[k] \in T[k]
  <2>1. f[0] \in T[0] /\ \A k \in 1 .. n : f[k - 1] \in T[k - 1] => f[k] \in T[k]
    BY <1>8, <1>9, <1>13
  <2>2. QED BY ONLY <1>1, <2>1, StagesHold
<1>15. DropAll(h, ts) \in U /\ P(DropAll(h, ts), n)
  BY <1>4, <1>5, <1>7, <1>14
<1>16. ToSet(ts) = {ts[m] : m \in 1 .. n}
  BY LenProperties DEF ToSet, n
<1>17. QED BY <1>15, <1>16 DEF P, U

\* A loaded track has its entity and its row after its turn.
LEMMA KeepEntityGood ==
    ASSUME NEW h \in Histories, NEW t \in RuntimeIds
    PROVE  /\ KeepEntity(h, t) \in Histories
           /\ With(Last(h), Last(KeepEntity(h, t)), {t})
<1> DEFINE d == Last(h)
           f == Joined([x \in {t} |-> Null], d.tracks)
           r == [d EXCEPT !.tracks = f]
           u == IF t \in DOMAIN d.tracks THEN h ELSE Append(h, r)
           e == Last(u)
           g == IF t \in Placed(e) THEN u ELSE PlaceRuntime(u, t)
<1>1. d \in Good /\ d \in Documents
  BY HistoryGrows
<1>2. t \in TrackId /\ \A x : t \in Scope(x)
  BY RuntimeInScope
<1>3. KeepEntity(h, t) = g
  BY DEF KeepEntity
<1>4. u \in Histories /\ DOMAIN e.tracks = DOMAIN d.tracks \cup {t} /\ Placed(e) = Placed(d)
  <2>1. CASE t \in DOMAIN d.tracks
    <3>1. u = h
      BY <2>1
    <3> HIDE DEF u
    <3>2. QED BY <2>1, <3>1
  <2>2. CASE t \notin DOMAIN d.tracks
    <3>1. u = Append(h, r)
      BY <2>2
    <3> HIDE DEF u, d
    <3>2. f \in Entities /\ DOMAIN f = {t} \cup DOMAIN d.tracks
      <4>1. d.tracks \in Entities
        BY <1>1 DEF Documents
      <4>2. Null \in Lanes \cup {Null} /\ (Null = Null <=> t \in RuntimeIds) /\ t \in TrackId
        BY <1>2
      <4>3. /\ Added(d.tracks, t, Null) \in Entities
            /\ DOMAIN Added(d.tracks, t, Null) = {t} \cup DOMAIN d.tracks
        BY ONLY <4>1, <4>2, EntitiesAdd
      <4>4. QED BY <4>3 DEF Added
    <3> HIDE DEF f
    <3>3. \A x \in Placed(d) : x \in Scope(d) => x \in DOMAIN f
      BY <1>1, <3>2, KnownRows
    <3>4. r \in Good /\ r.ordering = d.ordering /\ r.tracks = f
      BY <1>1, <3>2, <3>3, RetrackGood
    <3> HIDE DEF r
    <3>5. Placed(r) = Placed(d)
      BY <3>4, SameOrdering
    <3>6. u \in Histories /\ e = r
      BY <3>1, <3>4, HistoryGrows
    <3> HIDE DEF e
    <3>7. QED BY <3>2, <3>4, <3>5, <3>6
  <2>3. QED BY <2>1, <2>2
<1> HIDE DEF u
<1>5. CASE t \in Placed(e)
  <2>1. g = u
    BY <1>5
  <2> HIDE DEF g, d
  <2>2. QED BY <1>3, <1>4, <1>5, <2>1 DEF With, d
<1>6. CASE t \notin Placed(e)
  <2>1. g = PlaceRuntime(u, t)
    BY <1>6
  <2>2. Homeless(e, t)
    BY <1>4, <1>6 DEF Homeless
  <2> HIDE DEF g, d
  <2>3. Adds(u, g, t)
    BY <1>4, <2>1, <2>2, PlaceRuntimeGood
  <2>4. g \in Histories /\ Rearranged(e, Last(g)) /\ Placed(Last(g)) = Placed(e) \cup {t}
    BY <2>3 DEF Adds
  <2>5. DOMAIN Last(g).tracks = DOMAIN e.tracks
    BY <2>4, RearrangedSame
  <2>6. QED BY <1>3, <1>4, <2>4, <2>5 DEF With, d
<1>7. QED BY <1>5, <1>6

\* So have the tracks of ts after theirs, and none loses its own.
LEMMA KeepAllGood ==
    ASSUME NEW h \in Histories, NEW ts \in Seq(RuntimeIds)
    PROVE  /\ KeepAll(h, ts) \in Histories
           /\ With(Last(h), Last(KeepAll(h, ts)), ToSet(ts))
<1> DEFINE n == Len(ts)
           U == Histories
           P(x, k) == With(Last(h), Last(x), {ts[m] : m \in 1 .. k})
           T == [k \in 0 .. n |-> {x \in U : P(x, k)}]
           Step(x, i) == KeepEntity(x, ts[i])
           F == [p \in (1 .. n) \X U |-> Step(p[2], p[1])]
           f == CHOOSE f : f = [i \in 0 .. n |-> IF i = 0 THEN h ELSE Step(f[i - 1], i)]
<1>1. n \in Nat
  BY LenProperties
<1>2. h \in U /\ P(h, 0)
  BY DEF With
<1>3. \A k \in 1 .. n : \A x \in U : P(x, k - 1) => Step(x, k) \in U /\ P(Step(x, k), k)
  <2> SUFFICES ASSUME NEW k \in 1 .. n, NEW x \in Histories, P(x, k - 1)
               PROVE  Step(x, k) \in Histories /\ P(Step(x, k), k)
    OBVIOUS
  <2>1. ts[k] \in RuntimeIds
    BY ElementOfSeq
  <2>2. Step(x, k) \in Histories /\ With(Last(x), Last(Step(x, k)), {ts[k]})
    BY <2>1, KeepEntityGood
  <2>3. {ts[m] : m \in 1 .. k} = {ts[m] : m \in 1 .. k - 1} \cup {ts[k]}
    <3>1. 1 .. k = (1 .. k - 1) \cup {k}
      BY <1>1
    <3>2. QED BY <3>1
  <2> HIDE DEF Step
  <2>4. QED BY <2>2, <2>3 DEF With
<1>4. KeepAll(h, ts) = f[n]
  BY DEF KeepAll
<1> HIDE DEF n, U, P, Step
<1>5. /\ \A k \in 0 .. n : T[k] \subseteq U /\ \A x \in T[k] : P(x, k)
      /\ \A k \in 0 .. n : \A x \in U : P(x, k) => x \in T[k]
  OBVIOUS
<1>6. \A k \in 1 .. n : \A x \in U : F[<<k, x>>] = Step(x, k)
  OBVIOUS
<1> HIDE DEF T, F
<1>7. 0 \in 0 .. n /\ n \in 0 .. n /\ \A k \in 1 .. n : k \in 0 .. n /\ k - 1 \in 0 .. n
  BY ONLY <1>1
<1>8. \A k \in 1 .. n : \A x \in T[k - 1] : x \in U /\ Step(x, k) \in T[k]
  BY <1>3, <1>5, <1>7
<1>9. h \in T[0]
  BY <1>2, <1>5, <1>7
<1>10. PICK g : Leading(g, n, U, T, F, h)
  <2>1. Leads(n, U, T, F)
    BY <1>5, <1>6, <1>8 DEF Leads
  <2>2. QED BY ONLY <1>1, <1>9, <2>1, Stages
<1>11. g = [i \in 0 .. n |-> IF i = 0 THEN h ELSE Step(g[i - 1], i)]
  <2>1. g \in [0 .. n -> U] /\ g[0] = h /\ \A k \in 1 .. n : g[k] = F[<<k, g[k - 1]>>]
    BY <1>10 DEF Leading
  <2>2. \A i \in 1 .. n : g[i] = Step(g[i - 1], i)
    BY <1>6, <1>7, <2>1
  <2>3. QED BY <1>1, <2>1, <2>2
<1>12. f = [i \in 0 .. n |-> IF i = 0 THEN h ELSE Step(f[i - 1], i)]
  BY <1>11
<1> HIDE DEF f
<1>13. f[0] = h /\ \A k \in 1 .. n : f[k] = Step(f[k - 1], k)
  BY <1>1, <1>12
<1>14. \A k \in 0 .. n : f[k] \in T[k]
  <2>1. f[0] \in T[0] /\ \A k \in 1 .. n : f[k - 1] \in T[k - 1] => f[k] \in T[k]
    BY <1>8, <1>9, <1>13
  <2>2. QED BY ONLY <1>1, <2>1, StagesHold
<1>15. KeepAll(h, ts) \in U /\ P(KeepAll(h, ts), n)
  BY <1>4, <1>5, <1>7, <1>14
<1>16. ToSet(ts) = {ts[m] : m \in 1 .. n}
  BY LenProperties DEF ToSet, n
<1>17. QED BY <1>15, <1>16 DEF P, U

\* The reaction to a track coming or going keeps the invariant at each of its
\* commits; at its end the loaded tracks, and no other runtime tracks, have
\* rows, and every row whose entity is still there is.
LEMMA SyncGood ==
    ASSUME NEW h \in Histories, NEW loaded \in Seq(RuntimeIds)
    PROVE  LET e == Last(Sync(h, loaded))
           IN /\ Sync(h, loaded) \in Histories
              /\ Placed(e) \cap RuntimeIds = ToSet(loaded)
              /\ Placed(Last(h)) \cap DOMAIN e.tracks \subseteq Placed(e)
<1> DEFINE d == Last(h)
           G == Gone(d, loaded)
           gs == SetToSeq(G)
           u == DropAll(h, gs)
           m == Last(u)
           lyrics == Only(loaded, LyricsIds)
           audio == Only(loaded, RuntimeIds \ LyricsIds)
           ts == lyrics \o audio
           e == Last(Sync(h, loaded))
<1>1. d \in Good /\ d \in Documents
  BY HistoryGrows
<1>2. Sync(h, loaded) = KeepAll(u, ts)
  BY DEF Sync
<1>3. G \in SUBSET RuntimeIds /\ IsFiniteSet(G) /\ G = (DOMAIN d.tracks \cap RuntimeIds) \ ToSet(loaded)
  <2> HIDE DEF d
  <2>1. d.tracks \in Entities
    BY <1>1 DEF Documents
  <2>2. /\ IsFiniteSet(DOMAIN d.tracks)
        /\ \A t \in DOMAIN d.tracks : d.tracks[t] = Null <=> t \in RuntimeIds
    BY <2>1, EntitiesElim
  <2>3. G = (DOMAIN d.tracks \cap RuntimeIds) \ ToSet(loaded)
    BY <2>2 DEF Gone
  <2>4. G \in SUBSET DOMAIN d.tracks
    BY <2>3
  <2>5. IsFiniteSet(G)
    BY <2>2, <2>4, FS_Subset
  <2>6. QED BY <2>3, <2>5
<1> HIDE DEF G
<1>4. gs \in Seq(RuntimeIds) /\ ToSet(gs) = G
  <2>1. gs \in Seq(G) /\ ToSet(gs) = G
    BY <1>3, SetToSeqProperties
  <2> HIDE DEF gs
  <2>2. Seq(G) \subseteq Seq(RuntimeIds)
    BY <1>3
  <2>3. QED BY <2>1, <2>2
<1> HIDE DEF gs
<1>5. u \in Histories /\ Without(d, m, G)
  BY <1>4, DropAllGood
<1>6. ts \in Seq(RuntimeIds) /\ ToSet(ts) = ToSet(loaded)
  <2>1. lyrics \in Seq(RuntimeIds) /\ ToSet(lyrics) = ToSet(loaded) \cap LyricsIds
    BY OnlyProperties
  <2>2. audio \in Seq(RuntimeIds) /\ ToSet(audio) = ToSet(loaded) \cap (RuntimeIds \ LyricsIds)
    BY OnlyProperties
  <2>3. ToSet(loaded) \subseteq RuntimeIds
    BY LenProperties, ElementOfSeq DEF ToSet
  <2> HIDE DEF lyrics, audio
  <2>4. /\ ts \in Seq(RuntimeIds) /\ Len(ts) = Len(lyrics) + Len(audio)
        /\ \A i \in 1 .. Len(lyrics) + Len(audio) :
              ts[i] = IF i <= Len(lyrics) THEN lyrics[i] ELSE audio[i - Len(lyrics)]
    BY <2>1, <2>2, ConcatProperties
  <2> HIDE DEF ts
  <2>5. /\ DOMAIN lyrics = 1 .. Len(lyrics) /\ DOMAIN audio = 1 .. Len(audio)
        /\ DOMAIN ts = 1 .. Len(ts) /\ Len(lyrics) \in Nat /\ Len(audio) \in Nat
    BY <2>1, <2>2, <2>4, LenProperties
  <2>6. ASSUME NEW x \in ToSet(ts) PROVE x \in ToSet(lyrics) \cup ToSet(audio)
    <3>1. PICK i \in 1 .. Len(lyrics) + Len(audio) : x = ts[i]
      BY <2>4, <2>5 DEF ToSet
    <3>2. CASE i <= Len(lyrics)
      <4>1. i \in 1 .. Len(lyrics) /\ x = lyrics[i]
        BY <2>4, <2>5, <3>1, <3>2
      <4>2. QED BY <2>5, <4>1 DEF ToSet
    <3>3. CASE ~(i <= Len(lyrics))
      <4>1. i - Len(lyrics) \in 1 .. Len(audio) /\ x = audio[i - Len(lyrics)]
        BY <2>4, <2>5, <3>1, <3>3
      <4>2. QED BY <2>5, <4>1 DEF ToSet
    <3>4. QED BY <3>2, <3>3
  <2>7. ASSUME NEW x \in ToSet(lyrics) PROVE x \in ToSet(ts)
    <3>1. PICK i \in 1 .. Len(lyrics) : x = lyrics[i]
      BY <2>5 DEF ToSet
    <3>2. i \in 1 .. Len(ts) /\ ts[i] = x
      BY <2>4, <2>5, <3>1
    <3>3. QED BY <2>5, <3>2 DEF ToSet
  <2>8. ASSUME NEW x \in ToSet(audio) PROVE x \in ToSet(ts)
    <3>1. PICK i \in 1 .. Len(audio) : x = audio[i]
      BY <2>5 DEF ToSet
    <3>2. i + Len(lyrics) \in 1 .. Len(ts) /\ ts[i + Len(lyrics)] = x
      BY <2>4, <2>5, <3>1, SMTT(40)
    <3>3. QED BY <2>5, <3>2 DEF ToSet
  <2>9. ToSet(ts) = ToSet(lyrics) \cup ToSet(audio)
    BY <2>6, <2>7, <2>8
  <2>10. QED BY <2>1, <2>2, <2>3, <2>4, <2>9
<1> HIDE DEF ts, u, m
<1>7. KeepAll(u, ts) \in Histories /\ With(Last(u), Last(KeepAll(u, ts)), ToSet(ts))
  BY <1>5, <1>6, KeepAllGood
<1>8. Sync(h, loaded) \in Histories /\ With(m, e, ToSet(loaded))
  BY <1>2, <1>6, <1>7 DEF m
<1> HIDE DEF e, d
<1>9. /\ DOMAIN e.tracks = (DOMAIN d.tracks \ G) \cup ToSet(loaded)
      /\ Placed(e) = (Placed(d) \ G) \cup ToSet(loaded)
  BY <1>5, <1>8 DEF Without, With
<1>10. Placed(d) \cap RuntimeIds \subseteq DOMAIN d.tracks
  BY <1>1, RuntimeInScope, KnownRows
<1>11. ToSet(loaded) \subseteq RuntimeIds
  BY LenProperties, ElementOfSeq DEF ToSet
<1>12. QED BY <1>3, <1>8, <1>9, <1>10, <1>11 DEF d, e

=============================================================================
