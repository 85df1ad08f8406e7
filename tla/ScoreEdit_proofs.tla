-------------------------- MODULE ScoreEdit_proofs --------------------------
(***************************************************************************)
(* The invariant of ScoreEdit and the properties that follow from it.  What *)
(* provisioning, the converters and a transcription make of a document comes*)
(* first, then one lemma for each gesture, then the theorems.               *)
(***************************************************************************)
EXTENDS ScoreOps_proofs

-----------------------------------------------------------------------------
(* Provisioning instrument rows.                                            *)

\* A document has its layers' ids, finitely many integers.
LEMMA LayerIdsFinite ==
    ASSUME NEW d \in Documents
    PROVE  /\ LayerIds(d) \in SUBSET Int /\ IsFiniteSet(LayerIds(d)) /\ LayerIds(d) # {}
           /\ \A i \in DOMAIN d.ordering : d.ordering[i].id \in LayerIds(d)
<1>1. /\ DOMAIN d.ordering = 1 .. Len(d.ordering) /\ Len(d.ordering) \in Nat \ {0}
      /\ \A i \in DOMAIN d.ordering : d.ordering[i].id \in Int
  BY DocumentShape
<1> DEFINE f == [i \in DOMAIN d.ordering |-> d.ordering[i].id]
<1>2. IsFiniteSet(DOMAIN d.ordering)
  BY <1>1, FS_Interval
<1>3. f \in Surjection(DOMAIN d.ordering, LayerIds(d))
  BY DEF Surjection, LayerIds
<1> HIDE DEF f
<1>4. IsFiniteSet(LayerIds(d))
  BY ONLY <1>2, <1>3, FS_Surjection
<1>5. 1 \in DOMAIN d.ordering
  BY <1>1
<1>6. QED BY <1>1, <1>4, <1>5 DEF LayerIds

\* The layer a lane's notes are in is one of the document's.
LEMMA OwnerIsLayer ==
    ASSUME NEW d \in Documents
    PROVE  /\ Primary(d) \in LayerIds(d)
           /\ \A lane, else : OwnerOr(d, lane, else) \in LayerIds(d) \cup {else}
           /\ \A n, lane : Target(d, n, lane) \in LayerIds(d) \cup {Null}
<1>1. /\ LayerIds(d) \in SUBSET Int /\ IsFiniteSet(LayerIds(d)) /\ LayerIds(d) # {}
      /\ \A i \in DOMAIN d.ordering : d.ordering[i].id \in LayerIds(d)
  BY LayerIdsFinite
<1>2. ASSUME NEW t \in Placed(d) PROVE d.ordering[Locate(d, t).li].id \in LayerIds(d)
  <2>1. InRow(d, Locate(d, t).li, Locate(d, t).si, Locate(d, t).ti, t)
    BY LocateFinds
  <2>2. Locate(d, t).li \in DOMAIN d.ordering
    BY <2>1 DEF InRow
  <2>3. QED BY <1>1, <2>2
<1>3. ASSUME NEW lane, NEW else PROVE OwnerOr(d, lane, else) \in LayerIds(d) \cup {else}
  <2> DEFINE W == LayersWith(d, lane)
  <2>1. W \in SUBSET LayerIds(d)
    BY <1>2 DEF LayersWith
  <2> HIDE DEF W
  <2>2. IsFiniteSet(W) /\ W \in SUBSET Int
    BY <1>1, <2>1, FS_Subset
  <2>3. W # {} => Min(W) \in W
    BY <2>2, MinMax
  <2>4. OwnerOr(d, lane, else) = IF W = {} THEN else ELSE Min(W)
    BY DEF OwnerOr, W
  <2>5. QED BY <2>1, <2>3, <2>4
<1>4. ASSUME NEW n, NEW lane PROVE Target(d, n, lane) \in LayerIds(d) \cup {Null}
  <2> DEFINE own == IF n.track \in Placed(d) THEN d.ordering[Locate(d, n.track).li].id ELSE Null
  <2>1. own \in LayerIds(d) \cup {Null}
    BY <1>2
  <2>2. Target(d, n, lane) = OwnerOr(d, lane, own)
    BY DEF Target
  <2> HIDE DEF own
  <2>3. QED BY <1>3, <2>1, <2>2
<1>5. Primary(d) \in LayerIds(d)
  BY <1>1, MinMax DEF Primary
<1>6. QED BY <1>3, <1>4, <1>5

\* A row of a lane is an instrument's, and so is the next that is minted.
LEMMA HomeIsInstrument ==
    ASSUME NEW d \in Documents, NEW l, NEW lane \in Lanes
    PROVE  /\ HomeOf(d, l, lane) \in Int
           /\ [track |-> HomeOf(d, l, lane), lane |-> lane] \in Note
<1>1. HomeOf(d, l, lane) \in Int
  <2>1. CASE RowOf(d, l, lane) # {}
    <3> DEFINE r == First(RowOf(d, l, lane))
    <3>1. RowOf(d, l, lane) \in SUBSET Rows(d)
      BY DEF RowOf, RowsOfLane
    <3>2. r \in RowOf(d, l, lane)
      BY <2>1, <3>1, FirstIsOne
    <3> HIDE DEF r
    <3>3. r.track \in DOMAIN d.tracks /\ d.tracks[r.track] = lane
      BY <3>2 DEF RowOf, RowsOfLane, HasLane
    <3>4. d.tracks \in Entities
      BY DEF Documents
    <3>5. r.track \in TrackId /\ (d.tracks[r.track] = Null <=> r.track \in RuntimeIds)
      BY <3>3, <3>4, EntitiesElim
    <3>6. lane # Null
      BY ScoreAssumption
    <3>7. r.track \in Int
      BY <3>3, <3>5, <3>6 DEF TrackId
    <3>8. QED BY <2>1, <3>7 DEF HomeOf, r
  <2>2. CASE RowOf(d, l, lane) = {}
    <3>1. HomeOf(d, l, lane) = FreshTrack(d)
      BY <2>2 DEF HomeOf
    <3>2. FreshTrack(d) \in Nat
      BY FreshTrackIsNew
    <3>3. QED BY <3>1, <3>2
  <2>3. QED BY <2>1, <2>2
<1>2. QED BY <1>1 DEF Note

\* A note that changes lane is a note.
LEMMA RehomedIsNote ==
    ASSUME NEW d \in Documents, NEW n \in Note, NEW lane \in Lanes
    PROVE  Rehomed(d, n, lane) \in Note
<1>1. [n EXCEPT !.lane = lane] \in Note
  BY DEF Note
<1>2. [track |-> HomeOf(d, Target(d, n, lane), lane), lane |-> lane] \in Note
  BY HomeIsInstrument
<1>3. QED BY <1>1, <1>2 DEF Rehomed

\* Every position of a run or of a row of seen is one of d.
Sees(seen, d) ==
    /\ DOMAIN seen.ordering = DOMAIN d.ordering
    /\ \A i \in DOMAIN seen.ordering : d.ordering[i].id = seen.ordering[i].id
    /\ \A i, j, g : InSlot(seen, i, j, g) => \E g2 : InSlot(d, i, j, g2)
    /\ \A i, j, k, x : InRow(seen, i, j, k, x) => \E x2 : InRow(d, i, j, k, x2)

\* A row in place still leaves one wherever there was one.
LEMMA InsertTrackSees ==
    ASSUME NEW d \in Documents, NEW seen, Sees(seen, d), NEW li \in DOMAIN d.ordering,
           NEW si \in DOMAIN d.ordering[li].slots,
           NEW ti \in 1 .. Len(d.ordering[li].slots[si].tracks) + 1, NEW t \in TrackId
    PROVE  Sees(seen, InsertTrack(d, li, si, ti, t))
<1> DEFINE e == InsertTrack(d, li, si, ti, t)
<1>1. /\ Rearranged(d, e)
      /\ \A i, j, g : InSlot(e, i, j, g) <=> InSlot(d, i, j, g)
      /\ \A i, j, k, x : i # li \/ j # si => (InRow(e, i, j, k, x) <=> InRow(d, i, j, k, x))
      /\ \A k \in Nat : \A x : InRow(e, li, si, k, x) <=>
            IF k < ti THEN InRow(d, li, si, k, x)
            ELSE IF k = ti THEN x = t ELSE InRow(d, li, si, k - 1, x)
  BY InsertTrackShape
<1> HIDE DEF e
<1>2. ti \in Nat \ {0} /\ Len(d.ordering[li].slots[si].tracks) \in Nat
      /\ DOMAIN d.ordering[li].slots[si].tracks = 1 .. Len(d.ordering[li].slots[si].tracks)
  BY DocumentShape
<1>3. ASSUME NEW i, NEW j, NEW k, NEW x, InRow(seen, i, j, k, x)
      PROVE  \E x2 : InRow(e, i, j, k, x2)
  <2>1. PICK y : InRow(d, i, j, k, y)
    BY <1>3 DEF Sees
  <2>2. CASE i # li \/ j # si
    BY <1>1, <2>1, <2>2
  <2>3. CASE i = li /\ j = si
    <3>1. k \in Nat \ {0} /\ k \in DOMAIN d.ordering[li].slots[si].tracks
      BY <2>1, <2>3, InRowNat DEF InRow
    <3>2. CASE k < ti
      BY <1>1, <2>1, <2>3, <3>1, <3>2
    <3>3. CASE k = ti
      BY <1>1, <1>2, <2>3, <3>1, <3>3, SMTT(40)
    <3>4. CASE k > ti
      <4>1. k - 1 \in DOMAIN d.ordering[li].slots[si].tracks
        BY <1>2, <3>1, <3>4
      <4>2. InRow(d, li, si, k - 1, d.ordering[li].slots[si].tracks[k - 1])
        BY <4>1 DEF InRow
      <4>3. ~(k < ti) /\ k # ti
        BY <1>2, <3>1, <3>4
      <4>4. QED BY <1>1, <2>3, <3>1, <4>2, <4>3
    <3>5. QED BY <1>2, <3>1, <3>2, <3>3, <3>4
  <2>4. QED BY <2>2, <2>3
<1>4. QED BY <1>1, <1>3 DEF Sees, Rearranged, e

\* So does a run behind the last that seen has.
LEMMA InsertSlotSees ==
    ASSUME NEW d \in Documents, NEW seen \in Documents, Sees(seen, d), NEW li \in DOMAIN d.ordering,
           Len(seen.ordering[li].slots) + 1 \in 1 .. Len(d.ordering[li].slots) + 1,
           NEW slot \in Slot
    PROVE  Sees(seen, InsertSlot(d, li, Len(seen.ordering[li].slots) + 1, slot))
<1> DEFINE si == Len(seen.ordering[li].slots) + 1
           e == InsertSlot(d, li, si, slot)
<1>1. si \in 1 .. Len(d.ordering[li].slots) + 1
  OBVIOUS
<1> HIDE DEF si
<1>2. /\ Rearranged(d, e)
      /\ \A i, j \in Nat : \A g : InSlot(e, i, j, g) <=>
            IF i # li \/ j < si THEN InSlot(d, i, j, g)
            ELSE IF j = si THEN g = slot.group ELSE InSlot(d, i, j - 1, g)
      /\ \A i, j, k \in Nat : \A x : InRow(e, i, j, k, x) <=>
            IF i # li \/ j < si THEN InRow(d, i, j, k, x)
            ELSE IF j = si THEN k \in DOMAIN slot.tracks /\ x = slot.tracks[k]
            ELSE InRow(d, i, j - 1, k, x)
  <2>1. Rearranged(d, e) /\ SlotPut(d, e, li, si, slot)
    BY <1>1, InsertSlotShape
  <2> HIDE DEF e
  <2>2. QED BY <2>1 DEF SlotPut
<1> HIDE DEF e
<1>3. ASSUME NEW j \in DOMAIN seen.ordering[li].slots PROVE j < si
  <2>1. li \in DOMAIN seen.ordering
    BY DEF Sees
  <2>2. DOMAIN seen.ordering[li].slots = 1 .. Len(seen.ordering[li].slots)
        /\ Len(seen.ordering[li].slots) \in Nat
    BY <2>1, DocumentShape
  <2>3. QED BY <2>2 DEF si
<1>4. ASSUME NEW i, NEW j, NEW g, InSlot(seen, i, j, g) PROVE \E g2 : InSlot(e, i, j, g2)
  <2>1. PICK y : InSlot(d, i, j, y)
    BY <1>4 DEF Sees
  <2>2. i \in Nat /\ j \in Nat
    BY <2>1, InSlotNat
  <2>3. i # li \/ j < si
    BY <1>3, <1>4 DEF InSlot
  <2>4. QED BY <1>2, <2>1, <2>2, <2>3
<1>5. ASSUME NEW i, NEW j, NEW k, NEW x, InRow(seen, i, j, k, x)
      PROVE  \E x2 : InRow(e, i, j, k, x2)
  <2>1. PICK y : InRow(d, i, j, k, y)
    BY <1>5 DEF Sees
  <2>2. i \in Nat /\ j \in Nat /\ k \in Nat
    BY <2>1, InRowNat
  <2>3. i # li \/ j < si
    BY <1>3, <1>5 DEF InRow
  <2>4. QED BY <1>2, <2>1, <2>2, <2>3
<1>6. Sees(seen, e)
  BY <1>2, <1>4, <1>5 DEF Sees, Rearranged
<1>7. QED BY <1>6 DEF e, si

\* g is d with a row for the track that seen mints.
Appends(d, g, seen) ==
    /\ g \in Good /\ Sees(seen, g) /\ g.clash = d.clash /\ g.notes = d.notes
    /\ Placed(g) = Placed(d) \cup {FreshTrack(seen)}

\* The entity and the row of a new instrument, at the position that an
\* earlier state of the document shows.
LEMMA AppendedGood ==
    ASSUME NEW d \in Good, NEW seen \in Documents, Sees(seen, d),
           NEW l \in LayerIds(seen), NEW lane \in Lanes,
           FreshTrack(seen) \in Scope(d) => FreshTrack(seen) \notin Placed(d)
    PROVE  /\ Named(d, seen, lane) \in Good
           /\ Appends(d, Appended(Named(d, seen, lane), seen, l), seen)
<1> DEFINE t == FreshTrack(seen)
           f == Joined([x \in {t} |-> lane], d.tracks)
           e == Named(d, seen, lane)
           li == LayerAt(seen, l)
           slots == seen.ordering[li].slots
           last == LastLoose(slots)
           g == Appended(e, seen, l)
<1>1. t \in TrackId /\ t \notin RuntimeIds
  BY FreshTrackIsNew
<1> HIDE DEF t
<1>2. d \in Documents /\ d.tracks \in Entities
  BY DEF Good, Documents
<1>3. f \in Entities /\ DOMAIN f = {t} \cup DOMAIN d.tracks
  <2>1. lane \in Lanes \cup {Null} /\ (lane = Null <=> t \in RuntimeIds)
    BY <1>1, ScoreAssumption
  <2>2. /\ Added(d.tracks, t, lane) \in Entities
        /\ DOMAIN Added(d.tracks, t, lane) = {t} \cup DOMAIN d.tracks
    BY ONLY <1>1, <1>2, <2>1, EntitiesAdd
  <2>3. QED BY <2>2 DEF Added
<1>4. e = [d EXCEPT !.tracks = f]
  BY DEF Named, t
<1> HIDE DEF f, e
<1>5. \A x \in Placed(d) : x \in Scope(d) => x \in DOMAIN f
  BY <1>3, KnownRows
<1>6. /\ e \in Good /\ e.ordering = d.ordering /\ e.tracks = f /\ e.notes = d.notes
      /\ e.clash = d.clash
  BY <1>3, <1>4, <1>5, RetrackGood
<1>7. e \in Documents /\ Scope(e) = Scope(d) /\ Placed(e) = Placed(d)
  BY <1>6, SameOrdering DEF Good, Scope
<1>8. Sees(seen, e)
  BY <1>6, SameOrdering DEF Sees
<1>9. li \in DOMAIN seen.ordering /\ li \in DOMAIN e.ordering
  BY <1>8, LayerAtFinds DEF Sees
<1> HIDE DEF li
<1>10. t \in Scope(e) => t \in DOMAIN e.tracks /\ t \notin Placed(e)
  BY <1>3, <1>6, <1>7 DEF t
<1>11. last \in Nat /\ (last > 0 => last \in DOMAIN slots)
  BY <1>9, LastLooseFinds
<1>12. Len(slots) \in Nat /\ DOMAIN slots = 1 .. Len(slots)
  BY <1>9, DocumentShape
<1>13. /\ Len(e.ordering[li].slots) \in Nat
       /\ DOMAIN e.ordering[li].slots = 1 .. Len(e.ordering[li].slots)
  BY <1>7, <1>9, DocumentShape
<1>14. \A j \in DOMAIN slots : j \in DOMAIN e.ordering[li].slots
  <2> SUFFICES ASSUME NEW j \in DOMAIN slots PROVE j \in DOMAIN e.ordering[li].slots
    OBVIOUS
  <2>1. InSlot(seen, li, j, slots[j].group)
    BY <1>9 DEF InSlot
  <2>2. QED BY <1>8, <2>1 DEF Sees, InSlot
<1> DEFINE ti == Len(slots[last].tracks) + 1
           a == InsertTrack(e, li, last, ti, t)
           b == InsertSlot(e, li, Len(slots) + 1, Loose(<<t>>))
<1>15. g = IF last > 0 THEN a ELSE b
  BY DEF Appended, li, t
<1>16. CASE last > 0
  <2>1. last \in DOMAIN slots /\ last \in DOMAIN e.ordering[li].slots
    BY <1>11, <1>14, <1>16
  <2> DEFINE p == slots[last].tracks
             q == e.ordering[li].slots[last].tracks
  <2>2. Len(p) \in Nat /\ DOMAIN p = 1 .. Len(p)
    BY <1>9, <2>1, DocumentShape
  <2>3. Len(q) \in Nat /\ DOMAIN q = 1 .. Len(q)
    BY <1>7, <1>9, <2>1, DocumentShape
  <2>4. \A k \in DOMAIN p : k \in DOMAIN q
    <3> SUFFICES ASSUME NEW k \in DOMAIN p PROVE k \in DOMAIN q
      OBVIOUS
    <3>1. InRow(seen, li, last, k, p[k])
      BY <1>9, <2>1 DEF InRow
    <3>2. QED BY <1>8, <3>1 DEF Sees, InRow
  <2> HIDE DEF p, q, slots, last
  <2>5. ti \in 1 .. Len(q) + 1
    <3>1. Len(p) <= Len(q)
      <4>1. CASE Len(p) = 0
        BY <2>3, <4>1
      <4>2. CASE Len(p) # 0
        <5>1. Len(p) \in DOMAIN p
          BY <2>2, <4>2
        <5>2. Len(p) \in DOMAIN q
          BY <2>4, <5>1
        <5>3. QED BY <2>3, <5>2
      <4>3. QED BY <4>1, <4>2
    <3>2. ti = Len(p) + 1
      BY DEF p
    <3> HIDE DEF ti
    <3>3. QED BY <2>2, <2>3, <3>1, <3>2
  <2>6. ti \in 1 .. Len(e.ordering[li].slots[last].tracks) + 1
    BY <2>5 DEF q
  <2> HIDE DEF ti
  <2>7. a \in Good /\ Rearranged(e, a) /\ Placed(a) = Placed(e) \cup {t}
    BY <1>1, <1>6, <1>9, <1>10, <2>1, <2>6, InsertTrackGood
  <2>8. Sees(seen, a)
    BY <1>1, <1>7, <1>8, <1>9, <2>1, <2>6, InsertTrackSees
  <2>9. g = a
    BY <1>15, <1>16
  <2> HIDE DEF a, g
  <2>10. g.clash = d.clash /\ g.notes = d.notes
    BY <1>6, <2>7, <2>9 DEF Rearranged
  <2>11. Appends(d, g, seen)
    BY <1>7, <2>7, <2>8, <2>9, <2>10 DEF Appends, t
  <2>12. QED BY <1>6, <2>11 DEF g, e
<1>17. CASE ~(last > 0)
  <2>1. <<t>> \in Seq(TrackId) /\ DOMAIN <<t>> = {1} /\ <<t>>[1] = t /\ ToSet(<<t>>) = {t}
    BY <1>1, OneTrack
  <2>2. Loose(<<t>>) \in Slot /\ Loose(<<t>>).group = Null /\ Loose(<<t>>).tracks = <<t>>
    BY <2>1, SlotsOfTracks
  <2>3. Free(e, Loose(<<t>>).group) /\ Fits(e, Loose(<<t>>).tracks)
    BY <1>10, <2>1, <2>2 DEF Free, Fits
  <2>4. Len(slots) + 1 \in 1 .. Len(e.ordering[li].slots) + 1
    <3> DEFINE m == Len(slots)
               n == Len(e.ordering[li].slots)
    <3>1. m \in Nat /\ n \in Nat /\ (m # 0 => m \in 1 .. n)
      <4>1. m # 0 => m \in DOMAIN slots
        BY <1>12
      <4>2. QED BY <1>12, <1>13, <1>14, <4>1
    <3> HIDE DEF m, n
    <3>2. m + 1 \in 1 .. n + 1
      BY <3>1
    <3>3. QED BY <3>2 DEF m, n
  <2>5. b \in Good /\ Placed(b) = Placed(e) \cup {t}
    BY <1>6, <1>9, <2>1, <2>2, <2>3, <2>4, InsertSlotGood, SMTT(40)
  <2>6. Rearranged(e, b)
    BY <1>7, <1>9, <2>2, <2>4, InsertSlotShape
  <2>7. Sees(seen, b)
    BY <1>7, <1>8, <1>9, <2>2, <2>4, InsertSlotSees
  <2>8. g = b
    BY <1>15, <1>17
  <2> HIDE DEF b, g
  <2>9. g.clash = d.clash /\ g.notes = d.notes
    BY <1>6, <2>6, <2>8 DEF Rearranged
  <2>10. Appends(d, g, seen)
    BY <1>7, <2>5, <2>7, <2>8, <2>9 DEF Appends, t
  <2>11. QED BY <1>6, <2>10 DEF g, e
<1>18. QED BY <1>16, <1>17


\* g goes on from h and keeps its rows.
Grows(h, g) == g \in Histories /\ Placed(Last(h)) \subseteq Placed(Last(g))

\* Every position of a document is one of its own.
LEMMA SeesItself ==
    ASSUME NEW d
    PROVE  Sees(d, d)
BY DEF Sees

\* A new instrument's entity and row are two commits.
LEMMA ProvisionGood ==
    ASSUME NEW h \in Histories, NEW l \in LayerIds(Last(h)), NEW lane \in Lanes
    PROVE  Grows(h, Provision(h, l, lane))
<1> DEFINE d == Last(h)
           e == Named(d, d, lane)
           g == Appended(e, d, l)
<1>1. d \in Good /\ d \in Documents
  BY HistoryGrows
<1>2. Provision(h, l, lane) = IF RowOf(d, l, lane) # {} THEN h ELSE h \o <<e, g>>
  BY DEF Provision
<1> HIDE DEF d
<1>3. Sees(d, d)
  BY SeesItself
<1>4. FreshTrack(d) \in Scope(d) => FreshTrack(d) \notin Placed(d)
  BY <1>1, FreshTrackIsNew, KnownRows
<1>5. l \in LayerIds(d)
  BY DEF d
<1>6. e \in Good /\ Appends(d, g, d)
  BY <1>1, <1>3, <1>4, <1>5, AppendedGood
<1> HIDE DEF e, g
<1>7. g \in Good /\ Placed(d) \subseteq Placed(g)
  BY <1>6 DEF Appends
<1>8. h \o <<e, g>> \in Histories /\ Last(h \o <<e, g>>) = g
  BY <1>6, <1>7, HistoryGrows
<1>9. QED BY <1>2, <1>7, <1>8 DEF Grows, d

\* In the inspector each note's row is provisioned before the next note's.
LEMMA ProvisionAllGood ==
    ASSUME NEW h \in Histories, NEW S, NEW ns \in Seq(S), NEW lane \in Lanes
    PROVE  Grows(h, ProvisionAll(h, ns, lane))
<1> DEFINE n == Len(ns)
           U == Histories
           P(x, k) == Grows(h, x)
           T == [k \in 0 .. n |-> {x \in U : P(x, k)}]
           Step(x, i) == ProvisionFor(x, ns[i], lane)
           F == [p \in (1 .. n) \X U |-> Step(p[2], p[1])]
           f == CHOOSE f : f = [i \in 0 .. n |-> IF i = 0 THEN h ELSE Step(f[i - 1], i)]
<1>1. n \in Nat
  BY LenProperties
<1>2. h \in U /\ P(h, 0)
  BY DEF Grows
<1>3. \A k \in 1 .. n : \A x \in U : P(x, k - 1) => Step(x, k) \in U /\ P(Step(x, k), k)
  <2> SUFFICES ASSUME NEW k \in 1 .. n, NEW x \in Histories, Grows(h, x)
               PROVE  Grows(h, Step(x, k))
    BY DEF Grows
  <2> DEFINE to == Target(Last(x), ns[k], lane)
  <2>1. to \in LayerIds(Last(x)) \cup {Null}
    BY HistoryGrows, OwnerIsLayer
  <2>2. Step(x, k) = IF to = Null THEN x ELSE Provision(x, to, lane)
    BY DEF ProvisionFor
  <2> HIDE DEF to, Step
  <2>3. CASE to = Null
    BY <2>2, <2>3
  <2>4. CASE to # Null
    <3>1. Grows(x, Provision(x, to, lane))
      BY <2>1, <2>4, ProvisionGood
    <3>2. QED BY <2>2, <2>4, <3>1 DEF Grows
  <2>5. QED BY <2>3, <2>4
<1>4. ProvisionAll(h, ns, lane) = f[n]
  BY DEF ProvisionAll
<1> HIDE DEF n, U, P, Step
<1>5. /\ \A k \in 0 .. n : T[k] \subseteq U /\ \A x \in T[k] : P(x, k)
      /\ \A k \in 0 .. n : \A x \in U : P(x, k) => x \in T[k]
  OBVIOUS
<1>6. \A k \in 1 .. n : \A x \in U : F[<<k, x>>] = Step(x, k)
  OBVIOUS
<1> HIDE DEF T, F
<1>7. 0 \in 0 .. n /\ n \in 0 .. n /\ \A k \in 1 .. n : k \in 0 .. n /\ k - 1 \in 0 .. n
  BY ONLY <1>1
<1>8. \A k \in 1 .. n : \A x \in T[k - 1] : x \in U /\ Step(x, k) \in T[k]
  BY <1>3, <1>5, <1>7
<1>9. h \in T[0]
  BY <1>2, <1>5, <1>7
<1>10. PICK g : Leading(g, n, U, T, F, h)
  <2>1. Leads(n, U, T, F)
    BY <1>5, <1>6, <1>8 DEF Leads
  <2>2. QED BY ONLY <1>1, <1>9, <2>1, Stages
<1>11. g = [i \in 0 .. n |-> IF i = 0 THEN h ELSE Step(g[i - 1], i)]
  <2>1. g \in [0 .. n -> U] /\ g[0] = h /\ \A k \in 1 .. n : g[k] = F[<<k, g[k - 1]>>]
    BY <1>10 DEF Leading
  <2>2. \A i \in 1 .. n : g[i] = Step(g[i - 1], i)
    BY <1>6, <1>7, <2>1
  <2>3. QED BY <1>1, <2>1, <2>2
<1>12. f = [i \in 0 .. n |-> IF i = 0 THEN h ELSE Step(f[i - 1], i)]
  BY <1>11
<1> HIDE DEF f
<1>13. f[0] = h /\ \A k \in 1 .. n : f[k] = Step(f[k - 1], k)
  BY <1>1, <1>12
<1>14. \A k \in 0 .. n : f[k] \in T[k]
  <2>1. f[0] \in T[0] /\ \A k \in 1 .. n : f[k - 1] \in T[k - 1] => f[k] \in T[k]
    BY <1>8, <1>9, <1>13
  <2>2. QED BY ONLY <1>1, <2>1, StagesHold
<1>15. ProvisionAll(h, ns, lane) \in U /\ P(ProvisionAll(h, ns, lane), n)
  BY <1>4, <1>5, <1>7, <1>14
<1>16. QED BY <1>15 DEF P

\* Only the mark of a clash changes, and none is taken back.
LEMMA MarkGood ==
    ASSUME NEW d \in Good, NEW c \in BOOLEAN, d.clash => c
    PROVE  LET e == [d EXCEPT !.clash = c]
           IN /\ e \in Good /\ e.clash = c /\ e.notes = d.notes /\ e.tracks = d.tracks
              /\ Sees(d, e) /\ Placed(e) = Placed(d)
<1> DEFINE e == [d EXCEPT !.clash = c]
<1>1. d \in Documents /\ d.clash \in BOOLEAN
  BY DEF Good, Documents
<1>2. /\ e \in Documents /\ e.ordering = d.ordering /\ e.groups = d.groups
      /\ e.tracks = d.tracks /\ e.notes = d.notes /\ e.clash = c
  BY <1>1 DEF Documents
<1> HIDE DEF e
<1>3. \A x : x \in Scope(e) => x \in Scope(d)
  BY <1>2 DEF Scope, TrackId
<1>4. /\ \A i, j, g : InSlot(e, i, j, g) <=> InSlot(d, i, j, g)
      /\ \A i, j, k, x : InRow(e, i, j, k, x) <=> InRow(d, i, j, k, x)
      /\ Placed(e) = Placed(d)
  BY <1>2, SameOrdering
<1>5. ASSUME NEW i, NEW j, NEW g, InSlot(e, i, j, g), g # Null
      PROVE  g \in e.groups /\ \A i2, j2 : InSlot(e, i2, j2, g) => i = i2 /\ j = j2
  BY <1>1, <1>2, <1>4, <1>5, GoodByPosition
<1>6. ASSUME NEW i, NEW j, NEW k, NEW x, InRow(e, i, j, k, x), x \in Scope(e)
      PROVE  /\ x \in DOMAIN e.tracks
             /\ \A i2, j2, k2 : InRow(e, i2, j2, k2, x) => i = i2 /\ j = j2 /\ k = k2
  BY <1>1, <1>2, <1>3, <1>4, <1>6, GoodByPosition
<1>7. e \in Good
  BY <1>2, <1>5, <1>6, GoodByPosition
<1>8. Sees(d, e)
  BY <1>2, <1>4 DEF Sees
<1>9. QED BY <1>2, <1>4, <1>7, <1>8 DEF e

\* x goes on from b, which seen shows, and is b until a row is missing.
Provisioning(seen, b, new, x, k) ==
    /\ Sees(seen, x) /\ x.clash = b.clash /\ x.notes = b.notes /\ Placed(b) \subseteq Placed(x)
    /\ (\A i \in 1 .. k : i \notin new) => x = b

\* One more row provisioned.  Two of a transact get the same id, which a
\* document with a clash allows an instrument; with one, the id is new.
LEMMA ProvisioningOneMore ==
    ASSUME NEW seen \in Good, NEW new, NEW b \in Good, Sees(seen, b), b.tracks = seen.tracks,
           b.clash <=> seen.clash \/ \E p, q \in new : p # q,
           NEW k \in Nat \ {0}, NEW x \in Good, Provisioning(seen, b, new, x, k - 1),
           NEW l, NEW lane, k \in new => l \in LayerIds(seen) /\ lane \in Lanes
    PROVE  LET y == IF k \notin new THEN x ELSE Appended(Named(x, seen, lane), seen, l)
           IN y \in Good /\ Provisioning(seen, b, new, y, k)
<1> DEFINE t == FreshTrack(seen)
           y == Appended(Named(x, seen, lane), seen, l)
<1>1. seen \in Documents
  BY DEF Good
<1>2. /\ Sees(seen, x) /\ x.clash = b.clash /\ x.notes = b.notes /\ Placed(b) \subseteq Placed(x)
      /\ (\A i \in 1 .. k - 1 : i \notin new) => x = b
  BY DEF Provisioning
<1>3. CASE k \notin new
  <2>1. (\A i \in 1 .. k : i \notin new) => \A i \in 1 .. k - 1 : i \notin new
    OBVIOUS
  <2>2. Provisioning(seen, b, new, x, k)
    BY <1>2, <2>1 DEF Provisioning
  <2>3. QED BY <1>3, <2>2
<1>4. CASE k \in new
  <2>1. t \notin DOMAIN seen.tracks /\ t \notin RuntimeIds
    BY <1>1, FreshTrackIsNew
  <2>2. t \in Scope(x) => t \notin Placed(x)
    <3>1. CASE b.clash
      <4>1. Scope(x) = RuntimeIds
        BY <1>2, <3>1 DEF Scope
      <4>2. QED BY <2>1, <4>1
    <3>2. CASE ~b.clash
      <4>1. \A i \in 1 .. k - 1 : i \notin new
        BY <1>4, <3>2
      <4>2. x = b
        BY <1>2, <4>1
      <4>3. QED BY <2>1, <4>2, KnownRows
    <3>3. QED BY <3>1, <3>2
  <2>3. Appends(x, y, seen)
    <3>1. FreshTrack(seen) \in Scope(x) => FreshTrack(seen) \notin Placed(x)
      BY <2>2
    <3>2. l \in LayerIds(seen) /\ lane \in Lanes
      BY <1>4
    <3>3. QED BY <1>1, <1>2, <3>1, <3>2, AppendedGood
  <2> HIDE DEF y
  <2>4. y \in Good /\ Sees(seen, y) /\ y.clash = x.clash /\ y.notes = x.notes
        /\ Placed(x) \subseteq Placed(y)
    BY <2>3 DEF Appends
  <2>5. ~(\A i \in 1 .. k : i \notin new)
    BY <1>4
  <2>6. Provisioning(seen, b, new, y, k)
    BY <1>2, <2>4, <2>5 DEF Provisioning
  <2>7. QED BY <1>4, <2>4, <2>6 DEF y
<1>5. QED BY <1>3, <1>4

\* Inside a transact the rows a gesture needs are provisioned from one cached
\* document: the result is good, keeps the rows and has the same notes.
LEMMA ProvisionedGood ==
    ASSUME NEW seen \in Good, NEW wants \in Seq([layer : LayerIds(seen), lane : Lanes])
    PROVE  LET e == Provisioned(seen, wants)
           IN e \in Good /\ e.notes = seen.notes /\ Placed(seen) \subseteq Placed(e)
<1> DEFINE new == Missing(seen, wants)
           c == seen.clash \/ \E p, q \in new : p # q
           b == [seen EXCEPT !.clash = c]
<1> DEFINE n == Len(wants)
           U == Good
           P(x, k) == Provisioning(seen, b, new, x, k)
           T == [k \in 0 .. n |-> {x \in U : P(x, k)}]
           Step(x, i) == IF i \notin new THEN x ELSE Appended(Named(x, seen, wants[i].lane), seen, wants[i].layer)
           F == [p \in (1 .. n) \X U |-> Step(p[2], p[1])]
           f == CHOOSE f : f = [i \in 0 .. n |-> IF i = 0 THEN b ELSE Step(f[i - 1], i)]
<1>1. n \in Nat
  BY LenProperties
<1>16. /\ b \in Good /\ b.notes = seen.notes /\ b.tracks = seen.tracks
       /\ Sees(seen, b) /\ Placed(b) = Placed(seen)
       /\ b.clash <=> seen.clash \/ \E p, q \in new : p # q
  <2>1. seen.clash \in BOOLEAN /\ c \in BOOLEAN
    BY DEF Good, Documents
  <2> HIDE DEF c
  <2>2. /\ b \in Good /\ b.clash = c /\ b.notes = seen.notes /\ b.tracks = seen.tracks
        /\ Sees(seen, b) /\ Placed(b) = Placed(seen)
    BY <2>1, MarkGood DEF c
  <2> HIDE DEF b
  <2>3. QED BY <2>2 DEF c
<1>2. b \in U /\ P(b, 0)
  BY <1>16 DEF Provisioning
<1>3. \A k \in 1 .. n : \A x \in U : P(x, k - 1) => Step(x, k) \in U /\ P(Step(x, k), k)
  <2> HIDE DEF b, new, c
  <2> SUFFICES ASSUME NEW k \in 1 .. n, NEW x \in Good, Provisioning(seen, b, new, x, k - 1)
               PROVE  Step(x, k) \in Good /\ Provisioning(seen, b, new, Step(x, k), k)
    OBVIOUS
  <2>1. k \in Nat \ {0}
    BY <1>1
  <2>2. wants[k] \in [layer : LayerIds(seen), lane : Lanes]
    BY ElementOfSeq
  <2>3. wants[k].layer \in LayerIds(seen) /\ wants[k].lane \in Lanes
    BY <2>2
  <2>4. QED BY <1>16, <2>1, <2>3, ProvisioningOneMore
<1>4. Provisioned(seen, wants) = f[n]
  BY DEF Provisioned
<1> HIDE DEF n, U, P, Step, b, new, c
<1>5. /\ \A k \in 0 .. n : T[k] \subseteq U /\ \A x \in T[k] : P(x, k)
      /\ \A k \in 0 .. n : \A x \in U : P(x, k) => x \in T[k]
  OBVIOUS
<1>6. \A k \in 1 .. n : \A x \in U : F[<<k, x>>] = Step(x, k)
  OBVIOUS
<1> HIDE DEF T, F
<1>7. 0 \in 0 .. n /\ n \in 0 .. n /\ \A k \in 1 .. n : k \in 0 .. n /\ k - 1 \in 0 .. n
  BY ONLY <1>1
<1>8. \A k \in 1 .. n : \A x \in T[k - 1] : x \in U /\ Step(x, k) \in T[k]
  BY <1>3, <1>5, <1>7
<1>9. b \in T[0]
  BY <1>2, <1>5, <1>7
<1>10. PICK g : Leading(g, n, U, T, F, b)
  <2>1. Leads(n, U, T, F)
    BY <1>5, <1>6, <1>8 DEF Leads
  <2>2. QED BY ONLY <1>1, <1>9, <2>1, Stages
<1>11. g = [i \in 0 .. n |-> IF i = 0 THEN b ELSE Step(g[i - 1], i)]
  <2>1. g \in [0 .. n -> U] /\ g[0] = b /\ \A k \in 1 .. n : g[k] = F[<<k, g[k - 1]>>]
    BY <1>10 DEF Leading
  <2>2. \A i \in 1 .. n : g[i] = Step(g[i - 1], i)
    BY <1>6, <1>7, <2>1
  <2>3. QED BY <1>1, <2>1, <2>2
<1>12. f = [i \in 0 .. n |-> IF i = 0 THEN b ELSE Step(f[i - 1], i)]
  BY <1>11
<1> HIDE DEF f
<1>13. f[0] = b /\ \A k \in 1 .. n : f[k] = Step(f[k - 1], k)
  BY <1>1, <1>12
<1>14. \A k \in 0 .. n : f[k] \in T[k]
  <2>1. f[0] \in T[0] /\ \A k \in 1 .. n : f[k - 1] \in T[k - 1] => f[k] \in T[k]
    BY <1>8, <1>9, <1>13
  <2>2. QED BY ONLY <1>1, <2>1, StagesHold
<1>15. Provisioned(seen, wants) \in U /\ P(Provisioned(seen, wants), n)
  BY <1>4, <1>5, <1>7, <1>14
<1>17. QED BY <1>15, <1>16 DEF P, U, Provisioning


-----------------------------------------------------------------------------
(* The document a converter builds.                                         *)

\* The values of a function on a finite set are finitely many.
LEMMA ImageFinite ==
    ASSUME NEW S, IsFiniteSet(S), NEW f
    PROVE  IsFiniteSet({f[x] : x \in S})
<1> DEFINE g == [x \in S |-> f[x]]
           T == {f[x] : x \in S}
<1>1. g \in Surjection(S, T)
  BY DEF Surjection
<1> HIDE DEF g, T
<1>2. IsFiniteSet(T)
  BY ONLY IsFiniteSet(S), <1>1, FS_Surjection
<1>3. QED BY <1>2 DEF T

\* u[i] is the first i sequences of q one after the other.
Concats(u, q) ==
    /\ \A i \in 0 .. Len(q) : u[i] \in Seq(Lanes)
    /\ u[0] = <<>>
    /\ \A i \in 1 .. Len(q) : u[i] = u[i - 1] \o q[i]

\* There is such a u.
LEMMA ConcatsExist ==
    ASSUME NEW q \in Seq(Seq(Lanes))
    PROVE  Concats(CHOOSE u : u = [li \in 0 .. Len(q) |-> IF li = 0 THEN <<>> ELSE u[li - 1] \o q[li]], q)
<1> DEFINE n == Len(q)
           U == Seq(Lanes)
           P(x, k) == TRUE
           T == [k \in 0 .. n |-> {x \in U : P(x, k)}]
           Step(x, i) == x \o q[i]
           F == [p \in (1 .. n) \X U |-> Step(p[2], p[1])]
           f == CHOOSE f : f = [i \in 0 .. n |-> IF i = 0 THEN <<>> ELSE Step(f[i - 1], i)]
<1>1. n \in Nat
  BY LenProperties
<1>2. <<>> \in U /\ P(<<>>, 0)
  OBVIOUS
<1>3. \A k \in 1 .. n : \A x \in U : P(x, k - 1) => Step(x, k) \in U /\ P(Step(x, k), k)
  <2> SUFFICES ASSUME NEW k \in 1 .. n, NEW x \in Seq(Lanes) PROVE x \o q[k] \in Seq(Lanes)
    OBVIOUS
  <2>1. q[k] \in Seq(Lanes)
    BY ElementOfSeq
  <2>2. QED BY <2>1, ConcatProperties
<1> HIDE DEF n, U, P, Step
<1>5. /\ \A k \in 0 .. n : T[k] \subseteq U /\ \A x \in T[k] : P(x, k)
      /\ \A k \in 0 .. n : \A x \in U : P(x, k) => x \in T[k]
  OBVIOUS
<1>6. \A k \in 1 .. n : \A x \in U : F[<<k, x>>] = Step(x, k)
  OBVIOUS
<1> HIDE DEF T, F
<1>7. 0 \in 0 .. n /\ n \in 0 .. n /\ \A k \in 1 .. n : k \in 0 .. n /\ k - 1 \in 0 .. n
  BY ONLY <1>1
<1>8. \A k \in 1 .. n : \A x \in T[k - 1] : x \in U /\ Step(x, k) \in T[k]
  BY <1>3, <1>5, <1>7
<1>9. <<>> \in T[0]
  BY <1>2, <1>5, <1>7
<1>10. PICK g : Leading(g, n, U, T, F, <<>>)
  <2>1. Leads(n, U, T, F)
    BY <1>5, <1>6, <1>8 DEF Leads
  <2>2. QED BY ONLY <1>1, <1>9, <2>1, Stages
<1>11. g = [i \in 0 .. n |-> IF i = 0 THEN <<>> ELSE Step(g[i - 1], i)]
  <2>1. g \in [0 .. n -> U] /\ g[0] = <<>> /\ \A k \in 1 .. n : g[k] = F[<<k, g[k - 1]>>]
    BY <1>10 DEF Leading
  <2>2. \A i \in 1 .. n : g[i] = Step(g[i - 1], i)
    BY <1>6, <1>7, <2>1
  <2>3. QED BY <1>1, <2>1, <2>2
<1>12. f = [i \in 0 .. n |-> IF i = 0 THEN <<>> ELSE Step(f[i - 1], i)]
  BY <1>11
<1> HIDE DEF f
<1>13. f[0] = <<>> /\ \A k \in 1 .. n : f[k] = Step(f[k - 1], k)
  BY <1>1, <1>12
<1>14. \A k \in 0 .. n : f[k] \in T[k]
  <2>1. f[0] \in T[0] /\ \A k \in 1 .. n : f[k - 1] \in T[k - 1] => f[k] \in T[k]
    BY <1>8, <1>9, <1>13
  <2>2. QED BY ONLY <1>1, <2>1, StagesHold
<1>15. \A k \in 0 .. n : f[k] \in U
  BY <1>5, <1>14
<1>16. Concats(f, q)
  BY <1>13, <1>15 DEF Concats, Step, n, U
<1>17. QED BY <1>16 DEF f, Step, n

\* Their lengths: they grow, and pass every number on the way.
LEMMA ConcatsLengths ==
    ASSUME NEW q \in Seq(Seq(Lanes)), NEW u, Concats(u, q)
    PROVE  /\ \A i \in 0 .. Len(q) : Len(u[i]) \in Nat
           /\ \A i \in 1 .. Len(q) : Len(u[i]) = Len(u[i - 1]) + Len(q[i])
           /\ \A i, j \in 0 .. Len(q) : i <= j => Len(u[i]) <= Len(u[j])
           /\ \A t \in Nat : t < Len(u[Len(q)]) =>
                 \E i \in 1 .. Len(q) : Len(u[i - 1]) <= t /\ t < Len(u[i])
<1> DEFINE n == Len(q)
<1>1. n \in Nat /\ \A i \in 1 .. n : q[i] \in Seq(Lanes)
  BY LenProperties, ElementOfSeq
<1>2. \A i \in 0 .. n : u[i] \in Seq(Lanes)
  BY DEF Concats
<1>3. u[0] = <<>> /\ \A i \in 1 .. n : u[i] = u[i - 1] \o q[i]
  BY DEF Concats
<1> HIDE DEF n
<1>4. \A i \in 0 .. n : Len(u[i]) \in Nat
  BY <1>2, LenProperties
<1>5. ASSUME NEW i \in 1 .. n
      PROVE  Len(q[i]) \in Nat /\ Len(u[i]) = Len(u[i - 1]) + Len(q[i])
  <2>1. u[i - 1] \in Seq(Lanes) /\ q[i] \in Seq(Lanes)
    BY <1>1, <1>2
  <2>2. Len(u[i - 1] \o q[i]) = Len(u[i - 1]) + Len(q[i]) /\ Len(q[i]) \in Nat
    BY <2>1, ConcatProperties, LenProperties
  <2>3. QED BY <1>3, <2>2
<1> DEFINE L(i) == Len(u[i])
           M(i) == Len(q[i])
<1>9. /\ \A i \in 0 .. n : L(i) \in Nat
      /\ \A i \in 1 .. n : M(i) \in Nat /\ L(i) = L(i - 1) + M(i)
  BY <1>4, <1>5
<1> HIDE DEF L, M
<1>6. \A i, j \in 0 .. n : i <= j => L(i) <= L(j)
  <2> SUFFICES ASSUME NEW i \in 0 .. n PROVE \A j \in 0 .. n : i <= j => L(i) <= L(j)
    OBVIOUS
  <2> DEFINE S == {j \in Nat : j <= n /\ i <= j => L(i) <= L(j)}
  <2>1. 0 \in S
    BY <1>1, <1>9
  <2>2. \A j \in Nat : j \in S => j + 1 \in S
    <3> SUFFICES ASSUME NEW j \in Nat, j <= n /\ i <= j => L(i) <= L(j), j + 1 <= n, i <= j + 1
                 PROVE  L(i) <= L(j + 1)
      <4>1. \A j \in Nat : j \in S <=> (j <= n /\ i <= j => L(i) <= L(j))
        OBVIOUS
      <4>2. \A j \in Nat : j + 1 \in Nat
        OBVIOUS
      <4> HIDE DEF S
      <4>3. QED BY <4>1, <4>2
    <3>1. j + 1 \in 1 .. n /\ j \in 0 .. n /\ (j + 1) - 1 = j
      BY <1>1
    <3>2. L(j + 1) = L(j) + M(j + 1) /\ M(j + 1) \in Nat
      BY <1>9, <3>1
    <3>3. L(i) \in Nat /\ L(j) \in Nat
      BY <1>9, <3>1
    <3>4. CASE i = j + 1
      BY <3>2, <3>3, <3>4
    <3>5. CASE i # j + 1
      <4>1. i <= j /\ j <= n
        BY <1>1, <3>1, <3>5
      <4>2. L(i) <= L(j)
        BY <4>1
      <4>3. QED BY <3>2, <3>3, <4>2
    <3>6. QED BY <3>4, <3>5
  <2>3. Nat \subseteq S
    <3> HIDE DEF S
    <3> QED BY <2>1, <2>2, NatSetInduction
  <2>4. QED BY <1>1, <2>3
<1>7. ASSUME NEW t \in Nat, t < Len(u[n])
      PROVE  \E i \in 1 .. n : Len(u[i - 1]) <= t /\ t < Len(u[i])
  <2> DEFINE S == {i \in 0 .. n : t < Len(u[i])}
  <2>1. S \in SUBSET Nat /\ S # {}
    BY <1>1, <1>7
  <2> HIDE DEF S
  <2>2. PICK i \in S : \A y \in S : i <= y
    BY <2>1, LeastNatural
  <2>3. i \in 0 .. n /\ t < Len(u[i])
    BY DEF S
  <2>4. i # 0
    <3>1. Len(u[0]) = 0
      BY <1>3
    <3>2. QED BY <2>3, <3>1
  <2>5. i \in 1 .. n /\ i - 1 \in 0 .. n /\ ~(i <= i - 1)
    BY <1>1, <2>3, <2>4
  <2>6. ~(t < Len(u[i - 1]))
    BY <2>2, <2>5 DEF S
  <2>7. Len(u[i - 1]) <= t
    BY <1>4, <2>5, <2>6
  <2>8. QED BY <2>3, <2>5, <2>7
<1>8. QED BY <1>4, <1>5, <1>6, <1>7 DEF n, L

\* A document as a converter builds it is good, and all its tracks have rows.
LEMMA SeededGood ==
    ASSUME NEW q \in Seq(Seq(Lanes)), q # <<>>
    PROVE  Seeded(q) \in Good /\ DOMAIN Seeded(q).tracks \subseteq Placed(Seeded(q))
<1> DEFINE n == Len(q)
           u == CHOOSE u : u = [li \in 0 .. Len(q) |-> IF li = 0 THEN <<>> ELSE u[li - 1] \o q[li]]
           all == u[n]
           run(i) == [ti \in DOMAIN q[i] |-> Len(u[i - 1]) + ti - 1]
           o == [i \in DOMAIN q |-> [id |-> i - 1, slots |-> <<Loose(run(i))>>]]
           f == [t \in 0 .. Len(all) - 1 |-> all[t + 1]]
           note == [i \in DOMAIN all |-> [track |-> i - 1, lane |-> all[i]]]
           N == {note[i] : i \in DOMAIN all}
           e == Seeded(q)
<1>1. e = [ordering |-> o, tracks |-> f, notes |-> N, groups |-> {}, clash |-> FALSE]
  BY DEF Seeded
<1>2. n \in Nat \ {0} /\ DOMAIN q = 1 .. n /\ \A i \in 1 .. n : q[i] \in Seq(Lanes)
  BY LenProperties, ElementOfSeq, EmptySeq
<1>3. Concats(u, q)
  BY ConcatsExist
<1> HIDE DEF u
<1>4. /\ \A i \in 0 .. n : Len(u[i]) \in Nat
      /\ \A i \in 1 .. n : Len(u[i]) = Len(u[i - 1]) + Len(q[i])
      /\ \A i, j \in 0 .. n : i <= j => Len(u[i]) <= Len(u[j])
      /\ \A t \in Nat : t < Len(u[n]) => \E i \in 1 .. n : Len(u[i - 1]) <= t /\ t < Len(u[i])
  BY <1>3, ConcatsLengths
<1>5. all \in Seq(Lanes)
  BY <1>2, <1>3 DEF Concats
<1>6. /\ Len(all) \in Nat /\ DOMAIN all = 1 .. Len(all)
      /\ \A i \in 1 .. Len(all) : all[i] \in Lanes
  BY <1>5, LenProperties, ElementOfSeq
<1> HIDE DEF n
<1>7. ASSUME NEW i \in 1 .. n
      PROVE  /\ i - 1 \in 0 .. n /\ Len(q[i]) \in Nat /\ DOMAIN q[i] = 1 .. Len(q[i])
             /\ run(i) \in Seq(TrackId) /\ DOMAIN run(i) = 1 .. Len(q[i])
  <2>1. i - 1 \in 0 .. n
    BY <1>2
  <2>2. Len(q[i]) \in Nat /\ DOMAIN q[i] = 1 .. Len(q[i])
    BY <1>2, LenProperties
  <2>3. Len(u[i - 1]) \in Nat
    BY <1>4, <2>1
  <2>4. \A ti \in 1 .. Len(q[i]) : Len(u[i - 1]) + ti - 1 \in TrackId
    BY <2>2, <2>3 DEF TrackId
  <2>5. QED BY <2>1, <2>2, <2>4
<1>8. o \in Seq(Layer) /\ o # <<>> /\ DOMAIN o = 1 .. n
  <2>1. ASSUME NEW i \in 1 .. n PROVE [id |-> i - 1, slots |-> <<Loose(run(i))>>] \in Layer
    <3>1. Loose(run(i)) \in Slot
      BY <1>7, SlotsOfTracks
    <3> HIDE DEF run
    <3>2. <<Loose(run(i))>> \in Seq(Slot)
      BY <3>1
    <3>3. i - 1 \in Int
      BY <1>2
    <3>4. QED BY <3>2, <3>3 DEF Layer
  <2> HIDE DEF run
  <2>2. o \in Seq(Layer) /\ Len(o) = n /\ DOMAIN o = 1 .. n
    BY <1>2, <2>1
  <2> HIDE DEF o
  <2>3. o # <<>>
    BY <1>2, <2>2
  <2>4. QED BY <2>2, <2>3
<1>9. f \in Entities
  <2>1. 0 .. Len(all) - 1 \in SUBSET TrackId /\ IsFiniteSet(0 .. Len(all) - 1)
    <3>1. 0 \in Int /\ Len(all) - 1 \in Int
      BY <1>6
    <3>2. IsFiniteSet(0 .. Len(all) - 1)
      BY <3>1, FS_Interval
    <3>3. QED BY <3>2 DEF TrackId
  <2>2. \A t \in 0 .. Len(all) - 1 : t + 1 \in 1 .. Len(all) /\ t \notin RuntimeIds
    BY <1>6, ScoreAssumption
  <2>3. \A t \in 0 .. Len(all) - 1 : f[t] \in Lanes /\ f[t] # Null
    BY <1>6, <2>2, ScoreAssumption
  <2>4. f \in [0 .. Len(all) - 1 -> Lanes \cup {Null}]
    BY <2>3
  <2> HIDE DEF f
  <2>5. \A t \in 0 .. Len(all) - 1 : f[t] = Null <=> t \in RuntimeIds
    BY <2>2, <2>3
  <2>6. QED BY <2>1, <2>4, <2>5, EntitiesIntro
<1>10. N \in FiniteSubsetsOf(Note)
  <2>1. IsFiniteSet(DOMAIN all)
    BY <1>6, FS_Interval
  <2>2. \A i \in DOMAIN all : note[i] \in Note
    BY <1>6 DEF Note
  <2> HIDE DEF note
  <2>3. IsFiniteSet(N)
    BY <2>1, ImageFinite
  <2>4. QED BY <2>2, <2>3 DEF FiniteSubsetsOf
<1>11. {} \in FiniteSubsetsOf(Nat)
  BY FS_EmptySet DEF FiniteSubsetsOf
<1> HIDE DEF N, f
<1> DEFINE L(i) == Len(u[i])
           M(i) == Len(q[i])
<1>20. /\ \A i \in 0 .. n : L(i) \in Nat
       /\ \A i \in 1 .. n : i - 1 \in 0 .. n /\ M(i) \in Nat /\ L(i) = L(i - 1) + M(i)
       /\ \A i, j \in 0 .. n : i <= j => L(i) <= L(j)
       /\ \A t \in Nat : t < L(n) => \E i \in 1 .. n : L(i - 1) <= t /\ t < L(i)
       /\ L(n) = Len(all)
  BY <1>4, <1>7
<1>21. \A i \in 1 .. n : DOMAIN run(i) = 1 .. M(i)
                         /\ \A k \in 1 .. M(i) : run(i)[k] = L(i - 1) + k - 1
  BY <1>7
<1> HIDE DEF L, M
<1>12. /\ e \in Documents /\ e.ordering = o /\ e.tracks = f /\ e.groups = {} /\ e.clash = FALSE
  <2> HIDE DEF o, e
  <2>1. QED BY <1>1, <1>8, <1>9, <1>10, <1>11 DEF Documents
<1> HIDE DEF e
<1>13. ASSUME NEW i \in 1 .. n
       PROVE  /\ DOMAIN e.ordering[i].slots = {1} /\ e.ordering[i].slots[1].group = Null
              /\ e.ordering[i].slots[1].tracks = run(i)
  BY <1>8, <1>12 DEF Loose
<1>14. /\ \A i, j, g : InSlot(e, i, j, g) => g = Null
       /\ \A i, j, k, x : InRow(e, i, j, k, x) <=>
             i \in 1 .. n /\ j = 1 /\ k \in 1 .. M(i) /\ x = L(i - 1) + k - 1
  <2>1. DOMAIN e.ordering = 1 .. n
    BY <1>8, <1>12
  <2>2. \A i, j, g : InSlot(e, i, j, g) => g = Null
    BY <1>13, <2>1 DEF InSlot
  <2> HIDE DEF run
  <2>4. \A i, j, k, x : InRow(e, i, j, k, x) <=>
             i \in 1 .. n /\ j = 1 /\ k \in 1 .. M(i) /\ x = L(i - 1) + k - 1
    <3>1. ASSUME NEW i \in 1 .. n, NEW j, NEW k, NEW x
          PROVE  InRow(e, i, j, k, x) <=> j = 1 /\ k \in 1 .. M(i) /\ x = L(i - 1) + k - 1
      <4>1. InRow(e, i, j, k, x) <=> j = 1 /\ k \in DOMAIN run(i) /\ x = run(i)[k]
        BY <1>13, <2>1 DEF InRow
      <4>2. QED BY <1>21, <4>1
    <3>2. \A i, j, k, x : InRow(e, i, j, k, x) => i \in 1 .. n
      BY <2>1 DEF InRow
    <3>3. QED BY <3>1, <3>2
  <2>5. QED BY <2>2, <2>4
<1>15. ASSUME NEW i, NEW j, NEW k, NEW x, InRow(e, i, j, k, x)
       PROVE  /\ i \in 1 .. n /\ k \in Nat /\ x \in Nat
              /\ L(i - 1) <= x /\ x < L(i) /\ x < Len(all)
              /\ x = L(i - 1) + k - 1
  <2>1. i \in 1 .. n /\ k \in 1 .. M(i) /\ x = L(i - 1) + k - 1
    BY <1>14, <1>15
  <2>2. M(i) \in Nat /\ L(i - 1) \in Nat /\ L(i) \in Nat
        /\ L(i) = L(i - 1) + M(i)
    BY <1>20, <2>1
  <2>3. L(i) <= Len(all)
    <3>1. i \in 0 .. n /\ n \in 0 .. n /\ i <= n
      BY <1>2, <2>1
    <3>2. QED BY <1>20, <3>1
  <2>4. QED BY <1>6, <2>1, <2>2, <2>3
<1>16. ASSUME NEW i, NEW j, NEW k, NEW x, InRow(e, i, j, k, x)
       PROVE  /\ x \in DOMAIN e.tracks
              /\ \A i2, j2, k2 : InRow(e, i2, j2, k2, x) => i = i2 /\ j = j2 /\ k = k2
  <2>1. x \in DOMAIN e.tracks
    BY <1>6, <1>12, <1>15, <1>16 DEF f
  <2> SUFFICES ASSUME NEW i2, NEW j2, NEW k2, InRow(e, i2, j2, k2, x)
               PROVE  i = i2 /\ j = j2 /\ k = k2
    BY <2>1
  <2>2. /\ i \in 1 .. n /\ L(i - 1) <= x /\ x < L(i) /\ x = L(i - 1) + k - 1
        /\ k \in Nat /\ j = 1
    BY <1>14, <1>15, <1>16
  <2>3. /\ i2 \in 1 .. n /\ L(i2 - 1) <= x /\ x < L(i2) /\ x = L(i2 - 1) + k2 - 1
        /\ k2 \in Nat /\ j2 = 1 /\ x \in Nat
    BY <1>14, <1>15
  <2>4. ~(i < i2)
    <3> SUFFICES ASSUME i < i2 PROVE FALSE
      OBVIOUS
    <3>1. i \in 0 .. n /\ i2 - 1 \in 0 .. n /\ i <= i2 - 1
      BY <1>2, <2>2, <2>3
    <3>2. L(i) <= L(i2 - 1) /\ L(i) \in Nat /\ L(i2 - 1) \in Nat
      BY <1>20, <3>1
    <3>3. QED BY <2>2, <2>3, <3>2
  <2>5. ~(i2 < i)
    <3> SUFFICES ASSUME i2 < i PROVE FALSE
      OBVIOUS
    <3>1. i2 \in 0 .. n /\ i - 1 \in 0 .. n /\ i2 <= i - 1
      BY <1>2, <2>2, <2>3
    <3>2. L(i2) <= L(i - 1) /\ L(i2) \in Nat /\ L(i - 1) \in Nat
      BY <1>20, <3>1
    <3>3. QED BY <2>2, <2>3, <3>2
  <2>6. i = i2
    BY <1>2, <2>2, <2>3, <2>4, <2>5
  <2>7. L(i - 1) \in Nat
    BY <1>20, <2>2
  <2>8. QED BY <2>2, <2>3, <2>6, <2>7
<1>17. e \in Good
  BY <1>12, <1>14, <1>16, GoodByPosition
<1>18. ASSUME NEW t \in DOMAIN e.tracks PROVE t \in Placed(e)
  <2>1. t \in Nat /\ t < L(n)
    BY <1>6, <1>12, <1>20 DEF f
  <2>2. PICK i \in 1 .. n : L(i - 1) <= t /\ t < L(i)
    BY <1>20, <2>1
  <2>3. L(i) = L(i - 1) + M(i) /\ L(i - 1) \in Nat /\ M(i) \in Nat
    BY <1>20
  <2> DEFINE k == t - L(i - 1) + 1
  <2>4. k \in 1 .. M(i) /\ t = L(i - 1) + k - 1
    BY <2>1, <2>2, <2>3
  <2> HIDE DEF k
  <2>5. InRow(e, i, 1, k, t)
    BY <1>14, <2>4
  <2>6. QED BY <2>5, PlacedByPosition
<1>19. QED BY <1>17, <1>18 DEF e


\* Entities, and some new ones over them.
LEMMA EntitiesJoin ==
    ASSUME NEW f \in Entities, NEW g \in Entities
    PROVE  Joined(g, f) \in Entities /\ DOMAIN Joined(g, f) = DOMAIN g \cup DOMAIN f
<1> DEFINE S == DOMAIN g \cup DOMAIN f
           h == [t \in S |-> IF t \in DOMAIN g THEN g[t] ELSE f[t]]
<1>1. /\ DOMAIN f \subseteq TrackId /\ IsFiniteSet(DOMAIN f)
      /\ \A x \in DOMAIN f : f[x] \in Lanes \cup {Null} /\ (f[x] = Null <=> x \in RuntimeIds)
  BY EntitiesElim
<1>2. /\ DOMAIN g \subseteq TrackId /\ IsFiniteSet(DOMAIN g)
      /\ \A x \in DOMAIN g : g[x] \in Lanes \cup {Null} /\ (g[x] = Null <=> x \in RuntimeIds)
  BY EntitiesElim
<1>3. Joined(g, f) = h
  BY DEF Joined
<1>4. S \in SUBSET TrackId /\ IsFiniteSet(S)
  BY <1>1, <1>2, FS_Union
<1>5. h \in [S -> Lanes \cup {Null}] /\ \A x \in S : h[x] = Null <=> x \in RuntimeIds
  BY <1>1, <1>2
<1>6. h \in Entities
  <2> HIDE DEF h, S
  <2> QED BY <1>4, <1>5, EntitiesIntro
<1>7. QED BY <1>3, <1>6

\* The new layer's ids are below all others; every row stays where it is.
LEMMA ExtendedGood ==
    ASSUME NEW d \in Good, NEW seq \in Seq(Lanes)
    PROVE  Extended(d, seq) \in Good /\ Placed(d) \subseteq Placed(Extended(d, seq))
<1> DEFINE A == {0} \cup (DOMAIN d.tracks \ RuntimeIds)
           low == Min(A)
           B == {0} \cup LayerIds(d)
           z == Len(seq)
           run == [i \in DOMAIN seq |-> low - i]
           layer == [id |-> Min(B) - 1, slots |-> <<Loose(run)>>]
           o == Append(d.ordering, layer)
           n == Len(d.ordering)
           new == [t \in {low - i : i \in DOMAIN seq} |-> seq[low - t]]
           f == Joined(new, d.tracks)
           note == [i \in DOMAIN seq |-> [track |-> low - i, lane |-> seq[i]]]
           N == {note[i] : i \in DOMAIN seq}
           e == Extended(d, seq)
<1>1. d \in Documents /\ d.tracks \in Entities /\ d.notes \in FiniteSubsetsOf(Note)
  BY DEF Good, Documents
<1>2. e = [d EXCEPT !.ordering = o, !.tracks = f, !.notes = d.notes \cup N]
  BY DEF Extended
<1>3. /\ z \in Nat /\ DOMAIN seq = 1 .. z /\ IsFiniteSet(DOMAIN seq)
      /\ \A i \in 1 .. z : seq[i] \in Lanes
  <2>1. z \in Nat /\ DOMAIN seq = 1 .. z /\ \A i \in 1 .. z : seq[i] \in Lanes
    BY LenProperties, ElementOfSeq
  <2> HIDE DEF z
  <2>2. IsFiniteSet(1 .. z)
    BY <2>1, FS_Interval
  <2>3. QED BY <2>1, <2>2
<1> HIDE DEF z
<1>4. low \in Int /\ \A t \in DOMAIN d.tracks \ RuntimeIds : low <= t
  <2>1. DOMAIN d.tracks \subseteq TrackId /\ IsFiniteSet(DOMAIN d.tracks)
    BY <1>1, EntitiesElim
  <2>2. DOMAIN d.tracks \ RuntimeIds \in SUBSET DOMAIN d.tracks
    OBVIOUS
  <2>3. IsFiniteSet(DOMAIN d.tracks \ RuntimeIds)
    BY <2>1, <2>2, FS_Subset
  <2>4. IsFiniteSet(A) /\ A \in SUBSET Int /\ A # {}
    <3>1. IsFiniteSet({0})
      BY FS_Singleton
    <3>2. IsFiniteSet(A)
      BY ONLY <2>3, <3>1, FS_Union
    <3>3. A \in SUBSET Int /\ A # {}
      BY <2>1 DEF TrackId
    <3>4. QED BY <3>2, <3>3
  <2> HIDE DEF A
  <2>5. Min(A) \in A /\ \A y \in A : Min(A) <= y
    BY <2>4, MinMax
  <2>6. QED BY <2>4, <2>5 DEF A
<1>5. Min(B) \in Int
  <2>1. IsFiniteSet(B) /\ B \in SUBSET Int /\ B # {}
    <3>1. IsFiniteSet({0})
      BY FS_Singleton
    <3>2. LayerIds(d) \in SUBSET Int /\ IsFiniteSet(LayerIds(d))
      BY <1>1, LayerIdsFinite
    <3>3. IsFiniteSet(B)
      BY ONLY <3>1, <3>2, FS_Union
    <3>4. QED BY <3>2, <3>3
  <2> HIDE DEF B
  <2>2. QED BY <2>1, MinMax
<1> HIDE DEF low, B
<1>6. \A i \in 1 .. z : low - i \in Int /\ low - i \in TrackId
                        /\ low - i \notin RuntimeIds /\ low - i \notin DOMAIN d.tracks
  <2> SUFFICES ASSUME NEW i \in 1 .. z
               PROVE  low - i \in Int /\ low - i \in TrackId
                      /\ low - i \notin RuntimeIds /\ low - i \notin DOMAIN d.tracks
    OBVIOUS
  <2>1. low - i \in Int /\ ~(low <= low - i)
    BY <1>3, <1>4
  <2>2. low - i \notin RuntimeIds
    BY <2>1, ScoreAssumption
  <2>3. QED BY <1>4, <2>1, <2>2 DEF TrackId
<1>7. /\ run \in Seq(TrackId) /\ DOMAIN run = 1 .. z /\ \A i \in 1 .. z : run[i] = low - i
  BY <1>3, <1>6
<1>8. layer \in Layer /\ layer.slots = <<Loose(run)>>
  <2>1. Loose(run) \in Slot
    BY <1>7, SlotsOfTracks
  <2> HIDE DEF run
  <2>2. <<Loose(run)>> \in Seq(Slot)
    BY <2>1
  <2>3. Min(B) - 1 \in Int
    BY <1>5
  <2>4. QED BY <2>2, <2>3 DEF Layer
<1>9. /\ DOMAIN layer.slots = {1} /\ layer.slots[1].group = Null
      /\ layer.slots[1].tracks = run
  BY <1>8 DEF Loose
<1> HIDE DEF layer, run
<1>10. /\ n \in Nat \ {0} /\ DOMAIN d.ordering = 1 .. n /\ d.ordering \in Seq(Layer)
  BY <1>1, DocumentShape
<1>11. /\ o \in Seq(Layer) /\ o # <<>> /\ DOMAIN o = 1 .. n + 1 /\ o[n + 1] = layer
       /\ \A i \in 1 .. n : o[i] = d.ordering[i]
  <2>1. /\ o \in Seq(Layer) /\ Len(o) = n + 1 /\ o[n + 1] = layer
        /\ \A i \in 1 .. n : o[i] = d.ordering[i]
    BY <1>8, <1>10, AppendProperties
  <2> HIDE DEF o, n
  <2>2. DOMAIN o = 1 .. n + 1
    BY <2>1, LenProperties
  <2>3. o # <<>>
    BY <1>10, <2>1
  <2>4. QED BY <2>1, <2>2, <2>3
<1> HIDE DEF o, n
<1>12. new \in Entities /\ DOMAIN new = {low - i : i \in 1 .. z}
  <2> DEFINE S == {low - i : i \in 1 .. z}
  <2>1. DOMAIN new = S
    BY <1>3
  <2>2. IsFiniteSet(S)
    <3> DEFINE m == [i \in 1 .. z |-> low - i]
    <3>1. IsFiniteSet(1 .. z)
      BY <1>3
    <3>2. IsFiniteSet({m[i] : i \in 1 .. z})
      <4> HIDE DEF m
      <4> QED BY <3>1, ImageFinite
    <3>3. {m[i] : i \in 1 .. z} = S
      OBVIOUS
    <3>4. QED BY <3>2, <3>3
  <2>3. \A t \in S : low - t \in 1 .. z /\ t \notin RuntimeIds /\ t \in TrackId
    <3> SUFFICES ASSUME NEW i \in 1 .. z
                 PROVE  low - (low - i) = i /\ low - i \notin RuntimeIds /\ low - i \in TrackId
      OBVIOUS
    <3>1. low - (low - i) = i
      BY <1>3, <1>4
    <3>2. QED BY <1>6, <3>1
  <2>4. new = [t \in S |-> seq[low - t]]
    BY <1>3
  <2> HIDE DEF new, S
  <2>5. S \in SUBSET TrackId
    BY <2>3
  <2>6. \A t \in S : new[t] \in Lanes
    BY <1>3, <2>3, <2>4
  <2>7. new \in [S -> Lanes \cup {Null}]
    BY <2>4, <2>6
  <2>8. \A t \in S : new[t] = Null <=> t \in RuntimeIds
    BY <2>3, <2>6, ScoreAssumption
  <2>9. new \in Entities
    BY <2>2, <2>5, <2>7, <2>8, EntitiesIntro
  <2>10. QED BY <2>1, <2>9 DEF S
<1> HIDE DEF new
<1>13. f \in Entities /\ DOMAIN f = {low - i : i \in 1 .. z} \cup DOMAIN d.tracks
  BY <1>1, <1>12, EntitiesJoin
<1> HIDE DEF f
<1>14. d.notes \cup N \in FiniteSubsetsOf(Note)
  <2>1. \A i \in DOMAIN seq : note[i] \in Note
    BY <1>3, <1>6 DEF Note
  <2> HIDE DEF note
  <2>2. IsFiniteSet(N)
    BY <1>3, ImageFinite
  <2>3. N \in SUBSET Note
    BY <2>1
  <2> HIDE DEF N
  <2>4. d.notes \in SUBSET Note /\ IsFiniteSet(d.notes)
    BY <1>1 DEF FiniteSubsetsOf
  <2>5. IsFiniteSet(d.notes \cup N)
    BY <2>2, <2>4, FS_Union
  <2>6. QED BY <2>3, <2>4, <2>5 DEF FiniteSubsetsOf
<1> HIDE DEF N
<1>15. /\ e \in Documents /\ e.ordering = o /\ e.tracks = f /\ e.groups = d.groups
       /\ e.clash = d.clash
  <2> HIDE DEF e
  <2> QED BY <1>1, <1>2, <1>11, <1>13, <1>14 DEF Documents
<1> HIDE DEF e
<1>16. Scope(e) = Scope(d)
  BY <1>15 DEF Scope
<1>17. /\ \A i, j, g : InSlot(e, i, j, g) <=> InSlot(d, i, j, g) \/ (i = n + 1 /\ j = 1 /\ g = Null)
       /\ \A i, j, k, x : InRow(e, i, j, k, x) <=>
             InRow(d, i, j, k, x) \/ (i = n + 1 /\ j = 1 /\ k \in 1 .. z /\ x = low - k)
  <2>1. n + 1 \notin 1 .. n /\ 1 .. n + 1 = (1 .. n) \cup {n + 1}
    BY <1>10
  <2>2. /\ DOMAIN e.ordering = (1 .. n) \cup {n + 1} /\ e.ordering[n + 1] = layer
        /\ \A i \in 1 .. n : e.ordering[i] = d.ordering[i]
    BY <1>11, <1>15, <2>1
  <2>3. ASSUME NEW i, NEW j, NEW g
        PROVE  InSlot(e, i, j, g) <=> InSlot(d, i, j, g) \/ (i = n + 1 /\ j = 1 /\ g = Null)
    BY <1>9, <1>10, <2>1, <2>2 DEF InSlot
  <2>4. ASSUME NEW i, NEW j, NEW k, NEW x
        PROVE  InRow(e, i, j, k, x) <=>
             InRow(d, i, j, k, x) \/ (i = n + 1 /\ j = 1 /\ k \in 1 .. z /\ x = low - k)
    <3>1. CASE i \in 1 .. n
      BY <1>10, <2>1, <2>2, <3>1 DEF InRow
    <3>2. CASE i = n + 1
      BY <1>7, <1>9, <1>10, <2>1, <2>2, <3>2 DEF InRow
    <3>3. CASE i \notin 1 .. n /\ i # n + 1
      BY <1>10, <2>2, <3>3 DEF InRow
    <3>4. QED BY <3>1, <3>2, <3>3
  <2>5. QED BY <2>3, <2>4
<1>18. ASSUME NEW i, NEW j, NEW g, InSlot(e, i, j, g), g # Null
       PROVE  g \in e.groups /\ \A i2, j2 : InSlot(e, i2, j2, g) => i = i2 /\ j = j2
  BY <1>1, <1>15, <1>17, <1>18, GoodByPosition
<1>19. ASSUME NEW i, NEW j, NEW k, NEW x, InRow(e, i, j, k, x), x \in Scope(e)
       PROVE  /\ x \in DOMAIN e.tracks
              /\ \A i2, j2, k2 : InRow(e, i2, j2, k2, x) => i = i2 /\ j = j2 /\ k = k2
  <2>1. CASE InRow(d, i, j, k, x)
    <3>1. /\ x \in DOMAIN d.tracks
          /\ \A i2, j2, k2 : InRow(d, i2, j2, k2, x) => i = i2 /\ j = j2 /\ k = k2
      BY <1>1, <1>16, <1>19, <2>1, GoodByPosition
    <3>2. \A k2 \in 1 .. z : x # low - k2
      BY <1>6, <3>1
    <3>3. QED BY <1>13, <1>15, <1>17, <3>1, <3>2
  <2>2. CASE i = n + 1 /\ j = 1 /\ k \in 1 .. z /\ x = low - k
    <3>1. x \in DOMAIN e.tracks
      BY <1>13, <1>15, <2>2
    <3>2. \A i2, j2, k2 : ~InRow(d, i2, j2, k2, x)
      BY <1>1, <1>6, <1>16, <1>19, <2>2, GoodByPosition
    <3>3. \A k2 \in 1 .. z : x = low - k2 => k = k2
      BY <1>3, <1>4, <2>2
    <3>4. QED BY <1>17, <2>2, <3>1, <3>2, <3>3
  <2>3. QED BY <1>17, <1>19, <2>1, <2>2
<1>20. e \in Good
  BY <1>15, <1>18, <1>19, GoodByPosition
<1>21. \A x \in Placed(d) : x \in Placed(e)
  BY <1>17, PlacedByPosition
<1>22. QED BY <1>20, <1>21 DEF e

-----------------------------------------------------------------------------
(* The inductive invariant: the document is good, and so is every document  *)
(* an undo or a redo can bring back.                                        *)

Entry == [doc : Good, first : BOOLEAN]

IInv ==
    /\ doc \in Good
    /\ undo \in Seq(Entry)
    /\ redo \in Seq(Entry)
    /\ runtime \in Seq(RuntimeIds) /\ IsInjective(runtime)
    /\ gestures \in 0 .. MaxGestures

\* The rows of d whose entities e has are rows of e.
NoOrphans(d, e) == Placed(d) \cap DOMAIN e.tracks \subseteq Placed(e)

\* A gesture may go through h: each document is good, and no row is lost of a
\* track the last one keeps.
Proper(h) == h \in Histories /\ NoOrphans(doc, Last(h))

\* A gesture starts with the document it finds.
LEMMA StartIs ==
    ASSUME IInv
    PROVE  /\ Start \in Histories /\ Last(Start) = doc /\ doc \in Good /\ doc \in Documents
           /\ \A e \in Good : <<doc, e>> \in Histories /\ Last(<<doc, e>>) = e
<1>1. doc \in Good /\ doc \in Documents
  BY DEF IInv, Good
<1>2. <<doc>> \in Histories /\ Last(<<doc>>) = doc
  <2>1. <<doc>> \in Seq(Good) /\ Len(<<doc>>) = 1 /\ <<doc>>[1] = doc /\ <<doc>> # <<>>
    BY <1>1
  <2>2. QED BY <2>1 DEF Histories, Last
<1>3. ASSUME NEW e \in Good PROVE <<doc, e>> \in Histories /\ Last(<<doc, e>>) = e
  <2>1. <<doc, e>> \in Seq(Good) /\ Len(<<doc, e>>) = 2 /\ <<doc, e>>[2] = e /\ <<doc, e>> # <<>>
    BY <1>1
  <2>2. QED BY <2>1 DEF Histories, Last
<1>4. QED BY <1>1, <1>2, <1>3 DEF Start

\* A gesture that only moves rows is proper.
LEMMA MovesProper ==
    ASSUME IInv, NEW g, Moves(Start, g)
    PROVE  Proper(g)
BY StartIs DEF Moves, Proper, NoOrphans

\* The commits of a proper gesture keep the invariant.
LEMMA CommitKeeps ==
    ASSUME IInv, More, NEW h, Proper(h), Commit(h),
           runtime' \in Seq(RuntimeIds), IsInjective(runtime')
    PROVE  IInv' /\ NoOrphans(doc, doc')
<1> DEFINE m == Len(h) - 1
           q == [i \in 1 .. m |-> [doc |-> h[i], first |-> i = 1]]
<1>1. h \in Histories /\ Last(h) \in Good /\ Len(h) \in Nat \ {0} /\ h \in Seq(Good)
  BY HistoryGrows DEF Proper
<1>2. doc' = Last(h) /\ doc' \in Good
  BY <1>1 DEF Commit
<1>3. q \in Seq(Entry)
  <2>1. \A i \in 1 .. m : h[i] \in Good
    BY <1>1, ElementOfSeq
  <2>2. m \in Nat
    BY <1>1
  <2> HIDE DEF m
  <2>3. \A i \in 1 .. m : [doc |-> h[i], first |-> i = 1] \in Entry
    BY <2>1 DEF Entry
  <2>4. QED BY <2>2, <2>3
<1>4. undo' = undo \o q
  BY DEF Commit
<1> HIDE DEF q
<1>5. undo' \in Seq(Entry)
  BY <1>3, <1>4, ConcatProperties DEF IInv
<1>6. redo' \in Seq(Entry)
  BY DEF Commit, IInv
<1>7. gestures' \in 0 .. MaxGestures
  BY ScoreAssumption DEF Commit, IInv, More
<1>8. NoOrphans(doc, doc')
  BY <1>2 DEF Proper
<1>9. QED BY <1>2, <1>5, <1>6, <1>7, <1>8 DEF IInv

\* So does a gesture that commits them.
LEMMA GestureKeeps ==
    ASSUME IInv, More, NEW h, Proper(h), Gesture(h)
    PROVE  IInv' /\ NoOrphans(doc, doc') /\ runtime' = runtime
<1>1. Commit(h) /\ runtime' = runtime
  BY DEF Gesture
<1>2. runtime' \in Seq(RuntimeIds) /\ IsInjective(runtime')
  BY <1>1 DEF IInv
<1>3. QED BY <1>1, <1>2, CommitKeeps

\* A gesture of one commit to a good document that keeps the rows.
LEMMA OneCommitProper ==
    ASSUME IInv, NEW e \in Good, NoOrphans(doc, e)
    PROVE  Proper(<<doc, e>>)
BY StartIs DEF Proper

\* Rows provisioned in a transact, and other notes, are such a commit.
LEMMA ProvisionedProper ==
    ASSUME IInv, NEW wants \in Seq([layer : LayerIds(doc), lane : Lanes]),
           NEW N \in FiniteSubsetsOf(Note)
    PROVE  Proper(<<doc, [Provisioned(doc, wants) EXCEPT !.notes = N]>>)
<1> DEFINE p == Provisioned(doc, wants)
           e == [p EXCEPT !.notes = N]
<1>1. p \in Good /\ Placed(doc) \subseteq Placed(p)
  BY StartIs, ProvisionedGood
<1> HIDE DEF p
<1>2. e \in Good /\ e.ordering = p.ordering
  BY <1>1, RenoteGood
<1> HIDE DEF e
<1>3. Placed(e) = Placed(p)
  BY <1>2, SameOrdering
<1>4. Proper(<<doc, e>>)
  BY <1>1, <1>2, <1>3, OneCommitProper DEF NoOrphans
<1>5. QED BY <1>4 DEF e, p

\* The notes of a good document are finitely many notes.
LEMMA NotesFinite ==
    ASSUME NEW d \in Good
    PROVE  /\ d.notes \in SUBSET Note /\ IsFiniteSet(d.notes)
           /\ \A S \in SUBSET Note, T \in SUBSET d.notes :
                 IsFiniteSet(S) => (d.notes \ T) \cup S \in FiniteSubsetsOf(Note)
<1>1. d.notes \in SUBSET Note /\ IsFiniteSet(d.notes)
  BY DEF Good, Documents, FiniteSubsetsOf
<1>2. ASSUME NEW S \in SUBSET Note, NEW T \in SUBSET d.notes, IsFiniteSet(S)
      PROVE  (d.notes \ T) \cup S \in FiniteSubsetsOf(Note)
  <2>1. d.notes \ T \in SUBSET d.notes
    OBVIOUS
  <2>2. IsFiniteSet(d.notes \ T)
    BY <1>1, <2>1, FS_Subset
  <2>3. IsFiniteSet((d.notes \ T) \cup S)
    BY <1>2, <2>2, FS_Union
  <2>4. QED BY <1>1, <2>3 DEF FiniteSubsetsOf
<1>3. QED BY <1>1, <1>2


-----------------------------------------------------------------------------
(* One lemma for each gesture: every one of its commits keeps the invariant *)
(* and it orphans no track.                                                 *)

Kept == IInv' /\ NoOrphans(doc, doc')

\* moveTrack: the row moves, or nothing does.
LEMMA DragTrackBeforeKeeps ==
    ASSUME IInv, More, DragTrackBefore
    PROVE  Kept /\ runtime' = runtime
<1>1. PICK t, l, a : Gesture(MoveTrack(Start, t, l, a))
  BY DEF DragTrackBefore
<1>2. Proper(MoveTrack(Start, t, l, a))
  BY StartIs, MoveTrackGood, MovesProper
<1>3. QED BY <1>1, <1>2, GestureKeeps DEF Kept

\* moveTrackAfter: the row moves, or nothing does.
LEMMA DragTrackAfterKeeps ==
    ASSUME IInv, More, DragTrackAfter
    PROVE  Kept /\ runtime' = runtime
<1>1. PICK t, l, a : Gesture(MoveTrackAfter(Start, t, l, a))
  BY DEF DragTrackAfter
<1>2. Proper(MoveTrackAfter(Start, t, l, a))
  BY StartIs, MoveTrackAfterGood, MovesProper
<1>3. QED BY <1>1, <1>2, GestureKeeps DEF Kept

\* groupTracks: a row joins the group of the one it is dropped on.
LEMMA DropTrackIntoKeeps ==
    ASSUME IInv, More, DropTrackInto
    PROVE  Kept /\ runtime' = runtime
<1>1. PICK t, a : Gesture(GroupTracks(Start, t, a))
  BY DEF DropTrackInto
<1>2. Proper(GroupTracks(Start, t, a))
  BY StartIs, GroupTracksGood, MovesProper
<1>3. QED BY <1>1, <1>2, GestureKeeps DEF Kept

\* moveGroup: the group's rows move with it, or nothing does.
LEMMA DragGroupKeeps ==
    ASSUME IInv, More, DragGroup
    PROVE  Kept /\ runtime' = runtime
<1>1. PICK g \in doc.groups : \E l, a : Gesture(MoveGroup(Start, g, l, a))
  BY DEF DragGroup
<1>2. PICK l, a : Gesture(MoveGroup(Start, g, l, a))
  BY <1>1
<1>3. g \in Nat
  BY StartIs DEF Documents, FiniteSubsetsOf
<1>4. Proper(MoveGroup(Start, g, l, a))
  BY <1>3, StartIs, MoveGroupGood, MovesProper
<1>5. QED BY <1>2, <1>4, GestureKeeps DEF Kept

\* reorderLayer: the layers change places, the rows stay in theirs.
LEMMA DragLayerKeeps ==
    ASSUME IInv, More, DragLayer
    PROVE  Kept /\ runtime' = runtime
<1>1. PICK i, j \in DOMAIN doc.ordering : Gesture(ReorderLayer(Start, i, j))
  BY DEF DragLayer
<1> DEFINE g == ReorderLayer(Start, i, j)
<1>2. g \in Histories /\ Placed(Last(g)) = Placed(doc)
  BY StartIs, ReorderLayerGood
<1> HIDE DEF g
<1>3. Proper(g)
  BY <1>2 DEF Proper, NoOrphans
<1>4. QED BY <1>1, <1>3, GestureKeeps DEF Kept, g

\* ungroup and deleteGroup: the name goes, the rows stay.
LEMMA DissolveGroupKeeps ==
    ASSUME IInv, More, DissolveGroup
    PROVE  Kept /\ runtime' = runtime
<1>1. PICK p \in Slots(doc) :
         LET slot == doc.ordering[p[1]].slots[p[2]]
         IN /\ slot.group # Null
            /\ Gesture(IF slot.tracks = <<>> THEN DeleteGroup(Start, slot.group)
                                            ELSE Ungroup(Start, slot.group))
  BY DEF DissolveGroup
<1> DEFINE slot == doc.ordering[p[1]].slots[p[2]]
           g == slot.group
           h == IF slot.tracks = <<>> THEN DeleteGroup(Start, g) ELSE Ungroup(Start, g)
<1>2. g # Null /\ Gesture(h)
  BY <1>1
<1>3. InSlot(doc, p[1], p[2], g)
  BY RowsAreInRow DEF GroupAt
<1> HIDE DEF slot
<1>4. g \in Nat
  BY <1>2, <1>3, StartIs, InSlotNat
<1> HIDE DEF g
<1>5. Moves(Start, DeleteGroup(Start, g)) /\ Moves(Start, Ungroup(Start, g))
  BY <1>4, StartIs, DeleteGroupGood, UngroupGood
<1>6. Proper(h)
  BY <1>5, MovesProper
<1>7. QED BY <1>2, <1>6, GestureKeeps DEF Kept

\* A click in the score provisions the row its note goes on.
LEMMA InsertNoteKeeps ==
    ASSUME IInv, More, InsertNote
    PROVE  Kept /\ runtime' = runtime
<1>1. PICK l \in LayerIds(doc) \cup {Null}, lane \in Lanes :
         LET at == IF l = Null THEN OwnerOr(doc, lane, Primary(doc)) ELSE l
         IN Gesture(<<doc, [Provisioned(doc, <<[layer |-> at, lane |-> lane]>>)
               EXCEPT !.notes = @ \cup {[track |-> HomeOf(doc, at, lane), lane |-> lane]}]>>)
  BY DEF InsertNote
<1> DEFINE at == IF l = Null THEN OwnerOr(doc, lane, Primary(doc)) ELSE l
           wants == <<[layer |-> at, lane |-> lane]>>
           note == [track |-> HomeOf(doc, at, lane), lane |-> lane]
           p == Provisioned(doc, wants)
           N == p.notes \cup {note}
<1>2. Gesture(<<doc, [p EXCEPT !.notes = N]>>)
  BY <1>1
<1>3. at \in LayerIds(doc)
  BY StartIs, OwnerIsLayer
<1> HIDE DEF at
<1>4. note \in Note
  BY StartIs, HomeIsInstrument
<1> HIDE DEF note
<1>5. wants \in Seq([layer : LayerIds(doc), lane : Lanes])
  BY <1>3
<1> HIDE DEF wants
<1>6. p.notes = doc.notes
  BY <1>5, StartIs, ProvisionedGood
<1>7. N \in FiniteSubsetsOf(Note)
  <2>1. {note} \in SUBSET Note /\ IsFiniteSet({note}) /\ {} \in SUBSET doc.notes
    BY <1>4, FS_Singleton
  <2>2. (doc.notes \ {}) \cup {note} \in FiniteSubsetsOf(Note)
    BY <2>1, StartIs, NotesFinite
  <2>3. QED BY <1>6, <2>2
<1> HIDE DEF N
<1>8. Proper(<<doc, [p EXCEPT !.notes = N]>>)
  BY <1>5, <1>7, ProvisionedProper
<1>9. QED BY <1>2, <1>8, GestureKeeps DEF Kept

\* Deleting notes leaves the rows alone.
LEMMA DeleteSelectionKeeps ==
    ASSUME IInv, More, DeleteSelection
    PROVE  Kept /\ runtime' = runtime
<1>1. PICK S \in Selections : Gesture(<<doc, [doc EXCEPT !.notes = @ \ S]>>)
  BY DEF DeleteSelection
<1> DEFINE N == doc.notes \ S
           e == [doc EXCEPT !.notes = N]
<1>2. Gesture(<<doc, e>>)
  BY <1>1
<1>3. N \in FiniteSubsetsOf(Note)
  <2>1. doc.notes \in SUBSET Note /\ IsFiniteSet(doc.notes)
    BY StartIs, NotesFinite
  <2>2. N \in SUBSET doc.notes
    OBVIOUS
  <2> HIDE DEF N
  <2>3. IsFiniteSet(N)
    BY <2>1, <2>2, FS_Subset
  <2>4. QED BY <2>1, <2>2, <2>3 DEF FiniteSubsetsOf
<1> HIDE DEF N
<1>4. e \in Good /\ e.ordering = doc.ordering
  BY <1>3, StartIs, RenoteGood
<1> HIDE DEF e
<1>5. Placed(e) = Placed(doc)
  BY <1>4, SameOrdering
<1>6. Proper(<<doc, e>>)
  BY <1>4, <1>5, OneCommitProper DEF NoOrphans
<1>7. QED BY <1>2, <1>6, GestureKeeps DEF Kept

\* A paste provisions the rows of its notes from one cached document.
LEMMA CommitPasteKeeps ==
    ASSUME IInv, More, CommitPaste
    PROVE  Kept /\ runtime' = runtime
<1>1. PICK lanes \in [1 .. 1 -> Lanes] \cup [1 .. 2 -> Lanes] : Gesture(PasteInto(lanes))
  BY DEF CommitPaste
<1> DEFINE at(lane) == OwnerOr(doc, lane, Primary(doc))
           wants == [i \in DOMAIN lanes |-> [layer |-> at(lanes[i]), lane |-> lanes[i]]]
           note == [lane \in ToSet(lanes) |-> [track |-> HomeOf(doc, at(lane), lane), lane |-> lane]]
           M == {note[lane] : lane \in ToSet(lanes)}
           p == Provisioned(doc, wants)
           N == p.notes \cup M
<1>2. PasteInto(lanes) = <<doc, [p EXCEPT !.notes = N]>>
  BY DEF PasteInto
<1>3. \A lane : at(lane) \in LayerIds(doc)
  BY StartIs, OwnerIsLayer
<1> HIDE DEF at
<1>4. ToSet(lanes) \in SUBSET Lanes /\ IsFiniteSet(ToSet(lanes))
  <2>1. ToSet(lanes) \in SUBSET Lanes
    BY DEF ToSet
  <2>2. QED BY <2>1, ScoreAssumption, FS_Subset
<1>5. \A lane \in ToSet(lanes) : note[lane] \in Note
  BY <1>4, StartIs, HomeIsInstrument
<1>6. wants \in Seq([layer : LayerIds(doc), lane : Lanes])
  <2> DEFINE R == [layer : LayerIds(doc), lane : Lanes]
  <2>1. PICK n \in {1, 2} : lanes \in [1 .. n -> Lanes]
    OBVIOUS
  <2>2. \A i \in 1 .. n : [layer |-> at(lanes[i]), lane |-> lanes[i]] \in R
    BY <1>3, <2>1
  <2> HIDE DEF R
  <2>3. wants \in [1 .. n -> R] /\ n \in Nat
    BY <2>1, <2>2
  <2> HIDE DEF wants
  <2>4. wants \in Seq(R)
    BY <2>3, SeqDef
  <2>5. QED BY <2>4 DEF R
<1> HIDE DEF wants, note
<1>7. p.notes = doc.notes
  BY <1>6, StartIs, ProvisionedGood
<1>8. M \in SUBSET Note /\ IsFiniteSet(M)
  <2>1. IsFiniteSet(M)
    BY <1>4, ImageFinite
  <2>2. QED BY <1>5, <2>1
<1> HIDE DEF M
<1>9. N \in FiniteSubsetsOf(Note)
  <2>1. (doc.notes \ {}) \cup M \in FiniteSubsetsOf(Note)
    BY <1>8, StartIs, NotesFinite
  <2>2. QED BY <1>7, <2>1
<1> HIDE DEF N
<1>10. Proper(<<doc, [p EXCEPT !.notes = N]>>)
  BY <1>6, <1>9, ProvisionedProper
<1>11. QED BY <1>1, <1>2, <1>10, GestureKeeps DEF Kept



\* A drag to other lanes provisions the rows the notes move to.
LEMMA DragNotesKeeps ==
    ASSUME IInv, More, DragNotes
    PROVE  Kept /\ runtime' = runtime
<1>1. PICK S \in Selections : \E to \in [S -> Lanes] :
        LET moved == {n \in S : to[n] # LaneOf(doc, n)}
            homed == SetToSeq({n \in moved : Target(doc, n, to[n]) # Null})
            wants == [i \in DOMAIN homed |->
                        [layer |-> Target(doc, homed[i], to[homed[i]]), lane |-> to[homed[i]]]]
        IN Gesture(<<doc, [Provisioned(doc, wants) EXCEPT !.notes =
                (@ \ moved) \cup {Rehomed(doc, n, to[n]) : n \in moved}]>>)
  BY DEF DragNotes
<1>2. PICK to \in [S -> Lanes] :
        LET moved == {n \in S : to[n] # LaneOf(doc, n)}
            homed == SetToSeq({n \in moved : Target(doc, n, to[n]) # Null})
            wants == [i \in DOMAIN homed |->
                        [layer |-> Target(doc, homed[i], to[homed[i]]), lane |-> to[homed[i]]]]
        IN Gesture(<<doc, [Provisioned(doc, wants) EXCEPT !.notes =
                (@ \ moved) \cup {Rehomed(doc, n, to[n]) : n \in moved}]>>)
  BY <1>1
<1> DEFINE moved == {n \in S : to[n] # LaneOf(doc, n)}
           some == {n \in moved : Target(doc, n, to[n]) # Null}
           homed == SetToSeq(some)
           want(n) == [layer |-> Target(doc, n, to[n]), lane |-> to[n]]
           wants == [i \in DOMAIN homed |-> want(homed[i])]
           note == [n \in moved |-> Rehomed(doc, n, to[n])]
           M == {note[n] : n \in moved}
           p == Provisioned(doc, wants)
           N == (p.notes \ moved) \cup M
           R == [layer : LayerIds(doc), lane : Lanes]
<1>3. Gesture(<<doc, [p EXCEPT !.notes = N]>>)
  <2>1. M = {Rehomed(doc, n, to[n]) : n \in moved}
    OBVIOUS
  <2> HIDE DEF M
  <2>2. QED BY <1>2, <2>1
<1>4. moved \in SUBSET doc.notes /\ some \in SUBSET doc.notes
  BY DEF Selections
<1>5. doc.notes \in SUBSET Note /\ IsFiniteSet(doc.notes)
  BY StartIs, NotesFinite
<1>6. IsFiniteSet(moved) /\ IsFiniteSet(some)
  <2> HIDE DEF moved, some
  <2>1. QED BY <1>4, <1>5, FS_Subset
<1>7. \A n \in some : want(n) \in R
  <2>1. ASSUME NEW n \in some PROVE want(n) \in R
    <3>1. Target(doc, n, to[n]) \in LayerIds(doc) \cup {Null} /\ Target(doc, n, to[n]) # Null
      BY StartIs, OwnerIsLayer
    <3>2. to[n] \in Lanes
      OBVIOUS
    <3>3. QED BY <3>1, <3>2
  <2>2. QED BY <2>1
<1>8. \A n \in moved : note[n] \in Note
  <2>1. ASSUME NEW n \in moved PROVE Rehomed(doc, n, to[n]) \in Note
    <3>1. n \in Note /\ to[n] \in Lanes
      BY <1>4, <1>5
    <3>2. QED BY <3>1, StartIs, RehomedIsNote
  <2>2. QED BY <2>1
<1> HIDE DEF some, want, R
<1>9. homed \in Seq(some)
  BY <1>6, SetToSeqProperties
<1> HIDE DEF homed
<1>10. wants \in Seq(R)
  <2>1. Len(homed) \in Nat /\ DOMAIN homed = 1 .. Len(homed) /\ \A i \in 1 .. Len(homed) : homed[i] \in some
    BY <1>9, ElementOfSeq, LenProperties
  <2>2. wants \in [1 .. Len(homed) -> R]
    BY <1>7, <2>1
  <2> HIDE DEF wants
  <2>3. QED BY <2>1, <2>2, SeqDef
<1> HIDE DEF wants
<1>11. wants \in Seq([layer : LayerIds(doc), lane : Lanes])
  BY <1>10 DEF R
<1>12. p.notes = doc.notes
  BY <1>11, StartIs, ProvisionedGood
<1> HIDE DEF note
<1>13. M \in SUBSET Note /\ IsFiniteSet(M)
  <2>1. IsFiniteSet(M)
    BY <1>6, ImageFinite
  <2>2. QED BY <1>8, <2>1
<1> HIDE DEF M
<1>14. N \in FiniteSubsetsOf(Note)
  <2> HIDE DEF moved
  <2>1. (doc.notes \ moved) \cup M \in FiniteSubsetsOf(Note)
    BY <1>4, <1>13, StartIs, NotesFinite
  <2>2. QED BY <1>12, <2>1
<1> HIDE DEF N
<1>15. Proper(<<doc, [p EXCEPT !.notes = N]>>)
  BY <1>11, <1>14, ProvisionedProper
<1>16. QED BY <1>3, <1>15, GestureKeeps DEF Kept

\* The inspector provisions the rows one note at a time, then moves the notes.
LEMMA SetLaneKeeps ==
    ASSUME IInv, More, SetLane
    PROVE  Kept /\ runtime' = runtime
<1>1. PICK S \in Selections, lane \in Lanes :
        LET moved == {n \in S : n.lane # lane}
            h     == ProvisionAll(Start, SetToSeq(moved), lane)
        IN Gesture(Append(h, [Last(h) EXCEPT !.notes =
                (@ \ moved) \cup {Rehomed(Last(h), n, lane) : n \in moved}]))
  BY DEF SetLane
<1> DEFINE moved == {n \in S : n.lane # lane}
           h == ProvisionAll(Start, SetToSeq(moved), lane)
           last == Last(h)
           note == [n \in moved |-> Rehomed(last, n, lane)]
           M == {note[n] : n \in moved}
           N == (last.notes \ moved) \cup M
           e == [last EXCEPT !.notes = N]
<1>2. Gesture(Append(h, e))
  <2>1. M = {Rehomed(last, n, lane) : n \in moved}
    OBVIOUS
  <2> HIDE DEF M
  <2>2. QED BY <1>1, <2>1
<1>3. moved \in SUBSET doc.notes
  BY DEF Selections
<1>4. moved \in SUBSET Note /\ IsFiniteSet(moved)
  BY <1>3, StartIs, NotesFinite, FS_Subset
<1> HIDE DEF moved
<1>5. SetToSeq(moved) \in Seq(moved)
  BY <1>4, SetToSeqProperties
<1>6. h \in Histories /\ Placed(doc) \subseteq Placed(last)
  BY <1>5, StartIs, ProvisionAllGood DEF Grows
<1> HIDE DEF h
<1>7. last \in Good /\ last \in Documents
  BY <1>6, HistoryGrows
<1>8. \A n \in moved : note[n] \in Note
  BY <1>4, <1>7, RehomedIsNote
<1> HIDE DEF note
<1>9. M \in SUBSET Note /\ IsFiniteSet(M)
  <2>1. IsFiniteSet(M)
    BY <1>4, ImageFinite
  <2>2. QED BY <1>8, <2>1
<1> HIDE DEF M
<1>10. N \in FiniteSubsetsOf(Note)
  <2>1. last.notes \in SUBSET Note /\ IsFiniteSet(last.notes)
    BY <1>7, NotesFinite
  <2>2. last.notes \ moved \in SUBSET last.notes
    OBVIOUS
  <2>3. IsFiniteSet(last.notes \ moved)
    BY <2>1, <2>2, FS_Subset
  <2>4. IsFiniteSet(N)
    BY <1>9, <2>3, FS_Union
  <2>5. QED BY <1>9, <2>1, <2>4 DEF FiniteSubsetsOf
<1> HIDE DEF N
<1>11. e \in Good /\ e.ordering = last.ordering
  BY <1>7, <1>10, RenoteGood
<1> HIDE DEF e
<1>12. Append(h, e) \in Histories /\ Last(Append(h, e)) = e
  BY <1>6, <1>11, HistoryGrows
<1>13. Placed(e) = Placed(last)
  BY <1>11, SameOrdering
<1>14. Proper(Append(h, e))
  BY <1>6, <1>12, <1>13 DEF Proper, NoOrphans
<1>15. QED BY <1>2, <1>14, GestureKeeps DEF Kept

\* A transcription replaces an empty document, and is a layer more of another.
LEMMA TranscriptionLandsKeeps ==
    ASSUME IInv, More, TranscriptionLands
    PROVE  Kept /\ runtime' = runtime
<1>1. PICK lanes \in SUBSET Lanes :
        LET e == IF doc.notes = {} THEN Seeded(<<SetToSeq(lanes)>>)
                 ELSE Extended(doc, SetToSeq(lanes))
        IN Gesture(<<doc, e>>)
  BY DEF TranscriptionLands
<1> DEFINE seq == SetToSeq(lanes)
           e == IF doc.notes = {} THEN Seeded(<<seq>>) ELSE Extended(doc, seq)
<1>2. Gesture(<<doc, e>>)
  BY <1>1
<1>3. seq \in Seq(Lanes)
  <2>1. IsFiniteSet(lanes)
    BY ScoreAssumption, FS_Subset
  <2>2. seq \in Seq(lanes)
    BY <2>1, SetToSeqProperties
  <2> HIDE DEF seq
  <2>3. QED BY <2>2, LenProperties, ElementOfSeq
<1> HIDE DEF seq
<1>4. Seeded(<<seq>>) \in Good /\ DOMAIN Seeded(<<seq>>).tracks \subseteq Placed(Seeded(<<seq>>))
  <2>1. <<seq>> \in Seq(Seq(Lanes)) /\ <<seq>> # <<>>
    BY <1>3
  <2>2. QED BY <2>1, SeededGood
<1>5. Extended(doc, seq) \in Good /\ Placed(doc) \subseteq Placed(Extended(doc, seq))
  BY <1>3, StartIs, ExtendedGood
<1>6. e \in Good /\ NoOrphans(doc, e)
  BY <1>4, <1>5 DEF NoOrphans
<1> HIDE DEF e
<1>7. Proper(<<doc, e>>)
  BY <1>6, OneCommitProper
<1>8. QED BY <1>2, <1>7, GestureKeeps DEF Kept

-----------------------------------------------------------------------------
(* The reaction to the loaded tracks, undo and redo.                        *)

\* The loaded tracks, and no other runtime tracks, have rows.
Synced == Placed(doc') \cap RuntimeIds = ToSet(runtime')

\* A sync that commits keeps the invariant, orphans no track and gives the
\* loaded tracks their rows.
LEMMA SyncKeeps ==
    ASSUME IInv, More, runtime' \in Seq(RuntimeIds), IsInjective(runtime'),
           Commit(Sync(Start, runtime'))
    PROVE  Kept /\ Synced
<1> DEFINE h == Sync(Start, runtime')
<1>1. /\ h \in Histories
      /\ Placed(Last(h)) \cap RuntimeIds = ToSet(runtime')
      /\ Placed(doc) \cap DOMAIN Last(h).tracks \subseteq Placed(Last(h))
  BY StartIs, SyncGood
<1> HIDE DEF h
<1>2. Proper(h)
  BY <1>1 DEF Proper, NoOrphans
<1>3. Commit(h)
  BY DEF h
<1>4. IInv' /\ NoOrphans(doc, doc')
  BY <1>2, <1>3, CommitKeeps
<1>5. doc' = Last(h)
  BY <1>3 DEF Commit
<1>6. QED BY <1>1, <1>4, <1>5 DEF Kept, Synced

\* A runtime track that loads gets its row.
LEMMA LoadRuntimeKeeps ==
    ASSUME IInv, More, LoadRuntime
    PROVE  Kept /\ Synced
<1>1. PICK r \in RuntimeIds \ ToSet(runtime) :
        runtime' = Append(runtime, r) /\ Commit(Sync(Start, runtime'))
  BY DEF LoadRuntime
<1>2. runtime \in Seq(RuntimeIds) /\ IsInjective(runtime)
  BY DEF IInv
<1>3. runtime' \in Seq(RuntimeIds) /\ IsInjective(runtime')
  <2>1. runtime' \in Seq(RuntimeIds) /\ Len(runtime') = Len(runtime) + 1 /\ Len(runtime) \in Nat
    BY <1>1, <1>2
  <2>2. \A i \in 1 .. Len(runtime) : runtime'[i] = runtime[i] /\ runtime'[i] # r
    BY <1>1, <1>2 DEF ToSet
  <2>3. runtime'[Len(runtime) + 1] = r
    BY <1>1, <1>2
  <2>4. DOMAIN runtime' = 1 .. Len(runtime) + 1 /\ DOMAIN runtime = 1 .. Len(runtime)
    BY <1>2, <2>1
  <2>5. IsInjective(runtime')
    BY <1>2, <2>1, <2>2, <2>3, <2>4 DEF IsInjective
  <2>6. QED BY <2>1, <2>5
<1>4. QED BY <1>1, <1>3, SyncKeeps

\* A runtime track that goes takes its row along.
LEMMA DropRuntimeKeeps ==
    ASSUME IInv, More, DropRuntime
    PROVE  Kept /\ Synced
<1>1. PICK r \in ToSet(runtime) :
        runtime' = Only(runtime, RuntimeIds \ {r}) /\ Commit(Sync(Start, runtime'))
  BY DEF DropRuntime
<1>2. runtime \in Seq(RuntimeIds) /\ IsInjective(runtime)
  BY DEF IInv
<1>3. runtime' \in Seq(RuntimeIds) /\ IsInjective(runtime')
  BY <1>1, <1>2, OnlyProperties
<1>4. QED BY <1>1, <1>3, SyncKeeps

\* What an undo or a redo brings back is good.
LEMMA TopOfStack ==
    ASSUME NEW s \in Seq(Entry), s # <<>>, NEW d \in Good
    PROVE  /\ Last(s).doc \in Good /\ Front(s) \in Seq(Entry)
           /\ [Last(s) EXCEPT !.doc = d] \in Entry
<1>1. Len(s) \in Nat \ {0}
  BY EmptySeq, LenProperties
<1>2. Last(s) \in Entry
  <2>1. Len(s) \in 1 .. Len(s)
    BY <1>1
  <2>2. s[Len(s)] \in Entry
    BY <2>1, ElementOfSeq
  <2>3. QED BY <2>2 DEF Last
<1>3. Front(s) \in Seq(Entry)
  BY <1>1 DEF Front
<1>4. QED BY <1>2, <1>3 DEF Entry

\* An undo brings back a good document, and stacks one.
LEMMA UndoKeeps ==
    ASSUME IInv, Undo
    PROVE  IInv' /\ gestures' = gestures /\ runtime' = runtime
<1>1. doc \in Good /\ undo \in Seq(Entry) /\ redo \in Seq(Entry) /\ undo # <<>>
  BY DEF IInv, Undo
<1> DEFINE back == [Last(undo) EXCEPT !.doc = doc]
<1>2. Last(undo).doc \in Good /\ Front(undo) \in Seq(Entry) /\ back \in Entry
  BY <1>1, TopOfStack
<1>3. doc' = Last(undo).doc /\ undo' = Front(undo) /\ redo' = Append(redo, back)
      /\ runtime' = runtime /\ gestures' = gestures
  BY DEF Undo
<1> HIDE DEF back
<1>4. redo' \in Seq(Entry)
  BY <1>1, <1>2, <1>3
<1>5. QED BY <1>2, <1>3, <1>4 DEF IInv

\* So does a redo.
LEMMA RedoKeeps ==
    ASSUME IInv, Redo
    PROVE  IInv' /\ gestures' = gestures /\ runtime' = runtime
<1>1. doc \in Good /\ undo \in Seq(Entry) /\ redo \in Seq(Entry) /\ redo # <<>>
  BY DEF IInv, Redo
<1> DEFINE back == [Last(redo) EXCEPT !.doc = doc]
<1>2. Last(redo).doc \in Good /\ Front(redo) \in Seq(Entry) /\ back \in Entry
  BY <1>1, TopOfStack
<1>3. doc' = Last(redo).doc /\ redo' = Front(redo) /\ undo' = Append(undo, back)
      /\ runtime' = runtime /\ gestures' = gestures
  BY DEF Redo
<1> HIDE DEF back
<1>4. undo' \in Seq(Entry)
  BY <1>1, <1>2, <1>3
<1>5. QED BY <1>2, <1>3, <1>4 DEF IInv

-----------------------------------------------------------------------------
(* The invariant, and the properties that follow from it.                   *)

\* The document opened is good.
LEMMA InitHolds == Init => IInv
<1> SUFFICES ASSUME Init PROVE IInv
  OBVIOUS
<1>1. doc \in Good
  BY ScoreAssumption, SeededGood DEF Init
<1>2. undo \in Seq(Entry) /\ redo \in Seq(Entry) /\ runtime \in Seq(RuntimeIds)
  BY DEF Init
<1>3. IsInjective(runtime)
  BY DEF Init, IsInjective
<1>4. gestures \in 0 .. MaxGestures
  BY ScoreAssumption DEF Init
<1>5. QED BY <1>1, <1>2, <1>3, <1>4 DEF IInv

\* Every step keeps the invariant; a gesture orphans no track; and where a
\* runtime track comes or goes the loaded ones have their rows.
LEMMA StepKeeps ==
    ASSUME IInv, [Next]_vars
    PROVE  /\ IInv'
           /\ gestures' # gestures => NoOrphans(doc, doc')
           /\ runtime' # runtime => Synced
<1>1. CASE More /\ DragTrackBefore
  BY <1>1, DragTrackBeforeKeeps DEF Kept
<1>2. CASE More /\ DragTrackAfter
  BY <1>2, DragTrackAfterKeeps DEF Kept
<1>3. CASE More /\ DropTrackInto
  BY <1>3, DropTrackIntoKeeps DEF Kept
<1>4. CASE More /\ DragGroup
  BY <1>4, DragGroupKeeps DEF Kept
<1>5. CASE More /\ DissolveGroup
  BY <1>5, DissolveGroupKeeps DEF Kept
<1>6. CASE More /\ DragLayer
  BY <1>6, DragLayerKeeps DEF Kept
<1>7. CASE More /\ InsertNote
  BY <1>7, InsertNoteKeeps DEF Kept
<1>8. CASE More /\ DeleteSelection
  BY <1>8, DeleteSelectionKeeps DEF Kept
<1>9. CASE More /\ CommitPaste
  BY <1>9, CommitPasteKeeps DEF Kept
<1>10. CASE More /\ DragNotes
  BY <1>10, DragNotesKeeps DEF Kept
<1>11. CASE More /\ SetLane
  BY <1>11, SetLaneKeeps DEF Kept
<1>12. CASE More /\ TranscriptionLands
  BY <1>12, TranscriptionLandsKeeps DEF Kept
<1>13. CASE More /\ LoadRuntime
  BY <1>13, LoadRuntimeKeeps DEF Kept
<1>14. CASE More /\ DropRuntime
  BY <1>14, DropRuntimeKeeps DEF Kept
<1>15. CASE Undo
  BY <1>15, UndoKeeps
<1>16. CASE Redo
  BY <1>16, RedoKeeps
<1>17. CASE UNCHANGED vars
  BY <1>17 DEF vars, IInv
<1>18. QED
  BY <1>1, <1>2, <1>3, <1>4, <1>5, <1>6, <1>7, <1>8, <1>9, <1>10, <1>11, <1>12, <1>13, <1>14,
     <1>15, <1>16, <1>17 DEF Next

\* The invariant holds in every reachable state.
THEOREM Invariance == Spec => []IInv
<1>1. IInv /\ [Next]_vars => IInv'
  BY StepKeeps
<1>2. QED BY InitHolds, <1>1, PTL DEF Spec


\* TypeOK: the parts of a document refer to what they may.
THEOREM TypeCorrect == Spec => []TypeOK
<1>1. IInv => TypeOK
  <2> SUFFICES ASSUME IInv PROVE TypeOK
    OBVIOUS
  <2>1. doc \in Documents /\ doc.ordering \in Seq(Layer) /\ doc.notes \in SUBSET Note
    BY StartIs, DocumentShape, NotesFinite
  <2>2. ASSUME NEW l \in ToSet(doc.ordering)
        PROVE  l.id \in Int /\ \A s \in ToSet(l.slots) : s.group \in Nat \cup {Null}
    <3>1. PICK i \in DOMAIN doc.ordering : l = doc.ordering[i]
      BY DEF ToSet
    <3>2. l.id \in Int /\ \A j \in DOMAIN l.slots : l.slots[j].group \in Nat \cup {Null}
      BY <2>1, <3>1, DocumentShape
    <3>3. QED BY <3>2 DEF ToSet
  <2>3. doc.groups \subseteq Nat /\ doc.clash \in BOOLEAN /\ doc.tracks \in Entities
    BY <2>1 DEF Documents, FiniteSubsetsOf
  <2>4. /\ DOMAIN doc.tracks \subseteq TrackId
        /\ \A t \in DOMAIN doc.tracks : doc.tracks[t] \in IF t \in RuntimeIds THEN {Null} ELSE Lanes
    BY <2>3, EntitiesElim
  <2>5. \A n \in doc.notes : n.track \in Int /\ n.lane \in Lanes
    BY <2>1 DEF Note
  <2>6. DocOK(doc)
    BY <2>2, <2>3, <2>4, <2>5 DEF DocOK
  <2>7. ToSet(runtime) \subseteq RuntimeIds
    BY DEF IInv, ToSet
  <2>8. QED BY <2>6, <2>7 DEF TypeOK, IInv
<1>2. QED BY Invariance, <1>1, PTL

\* A group slot always has its name and a group is in one place, however much
\* of a gesture an undo has taken back.
THEOREM GroupsAreNamed == Spec => []GroupsNamed
<1>1. IInv => GroupsNamed
  <2> SUFFICES ASSUME IInv PROVE GroupsNamed
    OBVIOUS
  <2>1. Grouped(doc) /\ doc.groups \subseteq Nat
    BY DEF IInv, Good, Documents, FiniteSubsetsOf
  <2>2. ASSUME NEW l \in ToSet(doc.ordering), NEW s \in ToSet(l.slots)
        PROVE  s.group \in doc.groups \cup {Null}
    <3>1. PICK i \in DOMAIN doc.ordering : l = doc.ordering[i]
      BY DEF ToSet
    <3>2. PICK j \in DOMAIN l.slots : s = l.slots[j]
      BY DEF ToSet
    <3>3. InSlot(doc, i, j, s.group)
      BY <3>1, <3>2 DEF InSlot
    <3>4. <<i, j>> \in Slots(doc) /\ GroupAt(doc, <<i, j>>) = s.group
      BY <3>3, RowsAreInRow
    <3>5. QED BY <2>1, <3>4 DEF Grouped
  <2>3. ASSUME NEW g \in doc.groups PROVE Cardinality(GroupSlots(doc, g)) <= 1
    <3>1. g # Null
      BY <2>1, ScoreAssumption
    <3>2. \A p \in GroupSlots(doc, g) : p \in Slots(doc) /\ GroupAt(doc, p) = g
      BY DEF GroupSlots, GroupAt
    <3>3. \A p, q \in GroupSlots(doc, g) : p = q
      BY <2>1, <3>1, <3>2 DEF Grouped
    <3>4. CASE GroupSlots(doc, g) = {}
      BY <3>4, FS_EmptySet
    <3>5. ASSUME NEW p \in GroupSlots(doc, g) PROVE Cardinality(GroupSlots(doc, g)) <= 1
      <4>1. GroupSlots(doc, g) = {p}
        BY <3>3
      <4>2. Cardinality({p}) = 1
        BY FS_Singleton
      <4>3. QED BY <4>1, <4>2
    <3>6. QED BY <3>4, <3>5
  <2>4. QED BY <2>2, <2>3 DEF GroupsNamed
<1>2. QED BY Invariance, <1>1, PTL

\* A track has at most one row and every row its entity, unless one transact
\* provisioned two rows from the same cached document.
THEOREM RowsAreUnique == Spec => []OneRowPerTrack
<1>1. IInv => OneRowPerTrack
  <2> SUFFICES ASSUME IInv, ~doc.clash
               PROVE  /\ \A p, q \in Rows(doc) : p.track = q.track => p = q
                      /\ Placed(doc) \subseteq DOMAIN doc.tracks
    BY DEF OneRowPerTrack
  <2>1. doc \in Documents /\ Single(doc) /\ Known(doc)
    BY DEF IInv, Good
  <2>2. Scope(doc) = TrackId
    BY DEF Scope
  <2>3. \A p \in Rows(doc) : p.track \in TrackId
    BY <2>1, RowsAreInRow, InRowNat
  <2>4. QED BY <2>1, <2>2, <2>3 DEF Single, Known, Placed
<1>2. QED BY Invariance, <1>1, PTL

\* No gesture takes the row of a track it keeps.
THEOREM NoneOrphaned == Spec => NoGestureOrphans
<1>1. IInv /\ [Next]_vars =>
        [gestures' # gestures => \A t \in Placed(doc) \cap DOMAIN doc'.tracks : t \in Placed(doc')]_vars
  <2>1. NoOrphans(doc, doc') => \A t \in Placed(doc) \cap DOMAIN doc'.tracks : t \in Placed(doc')
    BY DEF NoOrphans
  <2>2. QED BY StepKeeps, <2>1
<1>2. QED BY Invariance, <1>1, PTL DEF Spec, NoGestureOrphans

\* Whatever undo has done to the rows, when a runtime track comes or goes the
\* loaded ones, and no others, have rows again: what StemsTakeTheirPlace says
\* first.
LoadedHaveRows == [][runtime' # runtime => Synced]_vars

\* The reaction to the loaded tracks leaves LoadedHaveRows true.
THEOREM RuntimeTracksHaveRows == Spec => LoadedHaveRows
<1>1. IInv /\ [Next]_vars => [runtime' # runtime => Synced]_vars
  BY StepKeeps
<1>2. QED BY Invariance, <1>1, PTL DEF Spec, LoadedHaveRows

=============================================================================
