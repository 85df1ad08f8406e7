----------------------------- MODULE ScoreEdit -----------------------------
(***************************************************************************)
(* The arrangement of one document (its rows, their groups and layers, and  *)
(* which rows hold notes), the gestures that edit it, and undo.             *)
(*                                                                          *)
(*   - LayersPresenter (frontend/src/editing/layers/layers_presenter.ts):   *)
(*     the Layers panel's moves and groups, the reaction that gives loaded  *)
(*     audio and lyrics a row, and the provisioning of instrument rows;     *)
(*   - EditingPresenter (editing_presenter.ts) and NotePropertiesPresenter: *)
(*     the note edits that provision rows;                                  *)
(*   - appendTranscription (transcribe/append_transcription.ts);            *)
(*   - HistoryPresenter (history/history_presenter.ts) over Loro's          *)
(*     UndoManager, and the commits of schema/reactive_doc.ts.              *)
(*                                                                          *)
(* A gesture runs to its end in one JavaScript task, so it is one action;   *)
(* but each facade write outside a `transact` is a Loro commit, and the     *)
(* undo manager (mergeInterval 0) takes back one commit at a time.  So a    *)
(* gesture is computed as the sequence of the documents it passes through.  *)
(***************************************************************************)
EXTENDS Integers, FiniteSets, Sequences, SequencesExt

CONSTANTS
    Lanes,       \* instruments of the kit
    RuntimeIds,  \* audio and lyrics tracks that may be loaded
    LyricsIds,   \* those of them that are lyrics
    Backs,       \* the lanes an audio stem was mapped to when it loaded
    Opened,      \* the lanes of each layer of the opened document, top first
    Null,        \* a loose run's groupId, an absent anchor, a runtime track's lane
    MaxGestures, \* bound: gestures in a behaviour
    MaxUndone    \* bound: commits taken back and not redone

ASSUME ScoreAssumption ==
    /\ LyricsIds \subseteq RuntimeIds
    /\ Backs \in [RuntimeIds -> Seq(Lanes)]
    /\ \A r \in RuntimeIds : IsInjective(Backs[r])  \* repeats are dropped before use
    /\ \A r \in LyricsIds : Backs[r] = <<>>
    /\ Opened \in Seq(Seq(Lanes)) /\ Opened # <<>>
    /\ IsFiniteSet(Lanes) /\ MaxGestures \in Nat
    /\ RuntimeIds \cap Int = {} /\ Null \notin Int \cup Lanes  \* ids do not collide

VARIABLES
    doc,      \* the document
    undo,     \* the undo stack: what each commit changed, and whether it was
    redo,     \*   the first of its gesture; and the redo stack
    runtime,  \* the audio and lyrics tracks loaded, in order
    gestures

vars == <<doc, undo, redo, runtime, gestures>>

(***************************************************************************)
(* A track `tk<n>` is the number n; a transcription's minted ids, which     *)
(* tk<n> counting ignores and which sort before every `v<n>`, are negative; *)
(* an audio or lyrics row has the id of its runtime track.                  *)
(***************************************************************************)
Loose(ts) == [group |-> Null, tracks |-> ts]
Group(g, ts) == [group |-> g, tracks |-> ts]

\* The elements of seq that are in S, in their order.
Only(seq, S) ==
    LET f[i \in 0 .. Len(seq)] ==
          IF i = 0 THEN <<>> ELSE IF seq[i] \in S THEN Append(f[i - 1], seq[i]) ELSE f[i - 1]
    IN f[Len(seq)]

\* The entities `old`, and `new` over them.
Joined(new, old) ==
    [t \in DOMAIN new \cup DOMAIN old |-> IF t \in DOMAIN new THEN new[t] ELSE old[t]]

Slots(d) == UNION {{li} \X DOMAIN d.ordering[li].slots : li \in DOMAIN d.ordering}
SlotOf(d, row) == d.ordering[row.li].slots[row.si]

\* The rows, where they sit, and the first of some in render order.
Rows(d) == UNION {{[li |-> p[1], si |-> p[2], ti |-> ti,
                    track |-> d.ordering[p[1]].slots[p[2]].tracks[ti]] :
                      ti \in DOMAIN d.ordering[p[1]].slots[p[2]].tracks} : p \in Slots(d)}
Above(q, r) ==
    \/ q.li < r.li
    \/ q.li = r.li /\ q.si < r.si
    \/ q.li = r.li /\ q.si = r.si /\ q.ti < r.ti
First(rows) == CHOOSE r \in rows : \A q \in rows : ~Above(q, r)

Placed(d) == {row.track : row \in Rows(d)}
\* The first layer of that id, 0 if there is none.
LayerAt(d, l) ==
    LET at == {li \in DOMAIN d.ordering : d.ordering[li].id = l}
    IN IF at = {} THEN 0 ELSE Min(at)
LayerIds(d) == {d.ordering[li].id : li \in DOMAIN d.ordering}

\* locate, and the anchor searches inside one layer.
Locate(d, t) == First({row \in Rows(d) : row.track = t})
InLayer(d, li, t) == \E row \in Rows(d) : row.li = li /\ row.track = t
RowIn(d, li, t) == First({row \in Rows(d) : row.li = li /\ row.track = t})

\* findInstrumentTrackByLane, and the search of ensureInstrumentTrack.
HasLane(d, row, lane) == row.track \in DOMAIN d.tracks /\ d.tracks[row.track] = lane
RowsOfLane(d, lane) == {row \in Rows(d) : HasLane(d, row, lane)}

-----------------------------------------------------------------------------
(* The writes; each is a commit of its own unless a transact holds it.      *)

InsertSlot(d, li, si, slot) == [d EXCEPT !.ordering[li].slots = InsertAt(@, si, slot)]
DropSlot(d, li, si) == [d EXCEPT !.ordering[li].slots = RemoveAt(@, si)]
InsertTrack(d, li, si, ti, t) == [d EXCEPT !.ordering[li].slots[si].tracks = InsertAt(@, ti, t)]
DropTrack(d, li, si, ti) == [d EXCEPT !.ordering[li].slots[si].tracks = RemoveAt(@, ti)]

LastLoose(slots) == Max({0} \cup {si \in DOMAIN slots : slots[si].group = Null})

\* Onto the end of the layer's last loose run, or a run of its own.
AppendLoose(d, li, t) ==
    LET slots == d.ordering[li].slots
        last  == LastLoose(slots)
    IN IF last > 0 THEN InsertTrack(d, li, last, Len(slots[last].tracks) + 1, t)
                   ELSE InsertSlot(d, li, Len(slots) + 1, Loose(<<t>>))

\* Delete a run's tracks from its end down to ti, a commit each.
Cut(h, li, si, ti) ==
    LET d  == Last(h)
        ts == d.ordering[li].slots[si].tracks
    IN h \o [i \in 1 .. Len(ts) - ti + 1 |->
                [d EXCEPT !.ordering[li].slots[si].tracks = SubSeq(ts, 1, Len(ts) - i)]]

\* removeFromOrdering: take a row out and prune a loose run this emptied.
Uproot(h, row) ==
    LET d == DropTrack(Last(h), row.li, row.si, row.ti)
    IN IF SlotOf(d, row) = Loose(<<>>) THEN h \o <<d, DropSlot(d, row.li, row.si)>>
                                       ELSE Append(h, d)

FreshGroup(d) == IF d.groups = {} THEN 0 ELSE Max(d.groups) + 1
FreshTrack(d) == Max({-1} \cup {t \in DOMAIN d.tracks \ RuntimeIds : t >= 0}) + 1

-----------------------------------------------------------------------------
(* The operations of LayersPresenter: each takes the documents so far and   *)
(* returns them with its own commits.                                       *)

\* Insert a slot at position si, and the cut-off tail of a run behind it.
InsertWithTail(h, li, si, slot, tail) ==
    LET d == InsertSlot(Last(h), li, si, slot)
    IN IF tail = <<>> THEN Append(h, d)
                      ELSE h \o <<d, InsertSlot(d, li, si + 1, Loose(tail))>>

\* createGroup with the slot in place before it is named.
MutNameGroupLast(h, t) ==
    LET d    == Last(h)
        row  == Locate(d, t)
        g    == FreshGroup(d)
        head == Cut(h, row.li, row.si, row.ti)
        put  == InsertSlot(Last(head), row.li, row.si + 1, Group(g, <<t>>))
    IN IF t \notin Placed(d) \/ SlotOf(d, row).group # Null THEN h
       ELSE head \o <<put, [put EXCEPT !.groups = @ \cup {g}]>>

CreateGroup(h, t) ==
    LET d     == Last(h)
        row   == Locate(d, t)
        ts    == SlotOf(d, row).tracks
        g     == FreshGroup(d)
        tail  == SubSeq(ts, row.ti + 1, Len(ts))
        named == Append(h, [d EXCEPT !.groups = @ \cup {g}])
        head  == Cut(named, row.li, row.si, row.ti)
        atTop == InsertSlot(Last(head), row.li, row.si, Group(g, <<t>>))
        alone == DropSlot(atTop, row.li, row.si + 1)
    IN IF t \notin Placed(d) \/ SlotOf(d, row).group # Null THEN h
       ELSE IF row.ti > 1 THEN InsertWithTail(head, row.li, row.si + 1, Group(g, <<t>>), tail)
       ELSE IF tail = <<>> THEN head \o <<atTop, alone>>
       ELSE head \o <<atTop, alone, InsertSlot(alone, row.li, row.si + 1, Loose(tail))>>

\* The new row in before the old one is out.
MutMoveInsertsFirst(h, t, l, anchor) ==
    LET d  == Last(h)
        li == LayerAt(d, l)
        both == Append(h, AppendLoose(d, li, t))
    IN IF t \notin Placed(d) \/ li = 0 THEN h ELSE Uproot(both, Locate(Last(both), t))

MoveTrack(h, t, l, anchor) ==
    LET d  == Last(h)
        li == LayerAt(d, l)
        up == Uproot(h, Locate(d, t))
        e  == Last(up)
        to == RowIn(e, li, anchor)
    IN IF t \notin Placed(d) \/ li = 0 THEN h
       ELSE IF InLayer(e, li, anchor) THEN Append(up, InsertTrack(e, li, to.si, to.ti, t))
       ELSE Append(up, AppendLoose(e, li, t))

MoveTrackAfter(h, t, l, anchor) ==
    LET d  == Last(h)
        li == LayerAt(d, l)
        up == Uproot(h, Locate(d, t))
        to == RowIn(Last(up), li, anchor)
    IN IF t = anchor \/ t \notin Placed(d) \/ ~InLayer(d, li, anchor) THEN h
       ELSE Append(up, InsertTrack(Last(up), li, to.si, to.ti + 1, t))

GroupTracks(h, t, anchor) ==
    LET d == Last(h)
        l == d.ordering[Locate(d, anchor).li].id
    IN IF t = anchor \/ anchor \notin Placed(d) THEN h
       ELSE MoveTrackAfter(CreateGroup(h, anchor), t, l, anchor)

\* canInsertSlotBefore: a group may not land inside another.
CanLand(d, li, anchor) ==
    \/ anchor = Null
    \/ InLayer(d, li, anchor) /\ (SlotOf(d, RowIn(d, li, anchor)).group = Null
                                  \/ RowIn(d, li, anchor).ti = 1)

\* insertSlotBefore
LandSlot(h, li, anchor, slot) ==
    LET d    == Last(h)
        row  == RowIn(d, li, anchor)
        tail == SubSeq(SlotOf(d, row).tracks, row.ti, Len(SlotOf(d, row).tracks))
    IN IF anchor = Null THEN Append(h, InsertSlot(d, li, Len(d.ordering[li].slots) + 1, slot))
       ELSE IF ~CanLand(d, li, anchor) THEN h
       ELSE IF row.ti = 1 THEN Append(h, InsertSlot(d, li, row.si, slot))
       ELSE InsertWithTail(Cut(h, li, row.si, row.ti), li, row.si + 1, slot, tail)

GroupSlots(d, g) == {p \in Slots(d) : d.ordering[p[1]].slots[p[2]].group = g}

\* The drop boundary looked at only once the group has been taken out.
MutMoveGroupUnchecked(h, g, l, anchor) ==
    LET d   == Last(h)
        li  == LayerAt(d, l)
        src == CHOOSE p \in GroupSlots(d, g) : TRUE
        ts  == d.ordering[src[1]].slots[src[2]].tracks
    IN IF GroupSlots(d, g) = {} \/ li = 0 THEN h
       ELSE LandSlot(Append(h, DropSlot(d, src[1], src[2])), li, anchor, Group(g, ts))

MoveGroup(h, g, l, anchor) ==
    LET d   == Last(h)
        li  == LayerAt(d, l)
        src == CHOOSE p \in GroupSlots(d, g) : TRUE
        ts  == d.ordering[src[1]].slots[src[2]].tracks
    IN IF GroupSlots(d, g) = {} \/ Contains(ts, anchor) \/ li = 0 \/ ~CanLand(d, li, anchor) THEN h
       ELSE LandSlot(Append(h, DropSlot(d, src[1], src[2])), li, anchor, Group(g, ts))

Loosen(d, p) == [d EXCEPT !.ordering[p[1]].slots[p[2]].group = Null]
Loosened(h, ps) ==
    LET f[i \in 0 .. Len(ps)] ==
          IF i = 0 THEN h ELSE Append(f[i - 1], Loosen(Last(f[i - 1]), ps[i]))
    IN f[Len(ps)]
Ungroup(h, g) ==
    LET loosened == Loosened(h, SetToSeq(GroupSlots(Last(h), g)))
    IN Append(loosened, [Last(loosened) EXCEPT !.groups = @ \ {g}])

\* deleteGroup, which keeps a group that still holds tracks.
DeleteGroup(h, g) ==
    LET d     == Last(h)
        src   == CHOOSE p \in GroupSlots(d, g) : TRUE
        empty == GroupSlots(d, g) # {} /\ d.ordering[src[1]].slots[src[2]].tracks = <<>>
        bare  == IF empty THEN Append(h, DropSlot(d, src[1], src[2])) ELSE h
    IN IF GroupSlots(d, g) # {} /\ ~empty THEN h
       ELSE Append(bare, [Last(bare) EXCEPT !.groups = @ \ {g}])

ReorderLayer(h, from, to) ==
    LET d == Last(h)
    IN IF from = to THEN h
       ELSE Append(h, [d EXCEPT !.ordering = InsertAt(RemoveAt(@, from), to, @[from])])

-----------------------------------------------------------------------------
(* syncRuntimeTracks: the loaded audio and lyrics keep a row each.          *)

\* placeAtTopOfFirstLayer
PlaceAtTop(h, t) ==
    LET d     == Last(h)
        slots == d.ordering[1].slots
    IN IF d.ordering = <<>> THEN h
       ELSE IF slots # <<>> /\ slots[1].group = Null THEN Append(h, InsertTrack(d, 1, 1, 1, t))
       ELSE Append(h, InsertSlot(d, 1, 1, Loose(<<t>>)))

\* The rows a stem backs, primary first.
Backed(d, t) ==
    LET lanes == Only(Backs[t], {lane \in Lanes : RowsOfLane(d, lane) # {}})
    IN [i \in DOMAIN lanes |-> First(RowsOfLane(d, lanes[i])).track]

\* Every further instrument in behind the one before it.
Follow(h, l, backed) ==
    LET f[i \in 0 .. Len(backed) - 1] ==
          IF i = 0 THEN h ELSE MoveTrackAfter(f[i - 1], backed[i + 1], l, backed[i])
    IN f[Len(backed) - 1]

\* The instrument not located again once createGroup has moved it.
MutClusterStaleRow(h, t) ==
    LET backed  == Backed(Last(h), t)
        at      == Locate(Last(h), backed[1])
        l       == Last(h).ordering[at.li].id
        grouped == IF SlotOf(Last(h), at).group = Null THEN CreateGroup(h, backed[1]) ELSE h
        headed  == Append(grouped, InsertTrack(Last(grouped), at.li, at.si, at.ti, t))
    IN Follow(headed, l, backed)

\* clusterAudioWithInstruments
Cluster(h, t) ==
    LET backed  == Backed(Last(h), t)
        at      == Locate(Last(h), backed[1])
        l       == Last(h).ordering[at.li].id
        grouped == IF SlotOf(Last(h), at).group = Null THEN CreateGroup(h, backed[1]) ELSE h
        row     == Locate(Last(grouped), backed[1])
        headed  == Append(grouped, InsertTrack(Last(grouped), row.li, row.si, row.ti, t))
    IN Follow(headed, l, backed)

PlaceRuntime(h, t) == IF Backed(Last(h), t) = <<>> THEN PlaceAtTop(h, t) ELSE Cluster(h, t)

\* The entities with no track behind them, and what happens to each.
Gone(d, loaded) == {t \in DOMAIN d.tracks : d.tracks[t] = Null /\ t \notin ToSet(loaded)}
DropEntity(h, t) ==
    LET up == IF t \in Placed(Last(h)) THEN Uproot(h, Locate(Last(h), t)) ELSE h
    IN Append(up, [Last(up) EXCEPT !.tracks = Restrict(@, DOMAIN @ \ {t})])
DropAll(h, ts) ==
    LET f[i \in 0 .. Len(ts)] == IF i = 0 THEN h ELSE DropEntity(f[i - 1], ts[i])
    IN f[Len(ts)]

\* A loaded track gets its entity, if it has none, and a row, if it has none.
KeepEntity(h, t) ==
    LET known == IF t \in DOMAIN Last(h).tracks THEN h
                 ELSE Append(h, [Last(h) EXCEPT !.tracks = Joined([x \in {t} |-> Null], @)])
    IN IF t \in Placed(Last(known)) THEN known ELSE PlaceRuntime(known, t)
KeepAll(h, ts) ==
    LET f[i \in 0 .. Len(ts)] == IF i = 0 THEN h ELSE KeepEntity(f[i - 1], ts[i])
    IN f[Len(ts)]

\* Lyrics first, so that the audio goes above them.
Sync(h, loaded) ==
    KeepAll(DropAll(h, SetToSeq(Gone(Last(h), loaded))),
            Only(loaded, LyricsIds) \o Only(loaded, RuntimeIds \ LyricsIds))

-----------------------------------------------------------------------------
(* ensureInstrumentTrack.  It decides from the cached document `seen`; the  *)
(* writes land in `d`.  The two differ inside a transact, where the cache   *)
(* only moves on at the commit.                                             *)

RowOf(seen, l, lane) == {row \in RowsOfLane(seen, lane) : seen.ordering[row.li].id = l}
\* Any row of the layer taken for the lane's.
MutHomeAnyRow(seen, l, lane) ==
    LET rows == {row \in Rows(seen) : seen.ordering[row.li].id = l}
    IN IF rows # {} THEN First(rows).track ELSE FreshTrack(seen)

HomeOf(seen, l, lane) ==
    IF RowOf(seen, l, lane) # {} THEN First(RowOf(seen, l, lane)).track ELSE FreshTrack(seen)

Named(d, seen, lane) == [d EXCEPT !.tracks = Joined([t \in {FreshTrack(seen)} |-> lane], @)]

\* appendTrackToLayer, at the position the cache shows; its callers name a
\* layer of the ordering.
Appended(d, seen, l) ==
    LET li    == LayerAt(seen, l)
        slots == seen.ordering[li].slots
        last  == LastLoose(slots)
    IN IF last > 0
       THEN InsertTrack(d, li, last, Len(slots[last].tracks) + 1, FreshTrack(seen))
       ELSE InsertSlot(d, li, Len(slots) + 1, Loose(<<FreshTrack(seen)>>))

\* Inside a transact: no commit, and every decision from the same cache.
Missing(seen, wants) ==
    {i \in DOMAIN wants : RowOf(seen, wants[i].layer, wants[i].lane) = {}}
Provisioned(seen, wants) ==
    LET new == Missing(seen, wants)
        f[i \in 0 .. Len(wants)] ==
          IF i = 0 THEN [seen EXCEPT !.clash = @ \/ \E p, q \in new : p # q]
          ELSE IF i \notin new THEN f[i - 1]
          ELSE Appended(Named(f[i - 1], seen, wants[i].lane), seen, wants[i].layer)
    IN f[Len(wants)]

\* Outside one: a commit for the entity, and one for its row.
Provision(h, l, lane) ==
    LET d == Last(h)
    IN IF RowOf(d, l, lane) # {} THEN h
       ELSE h \o <<Named(d, d, lane), Appended(Named(d, d, lane), d, l)>>

\* ownerLayerFor: the first layer, by id, with a note on the lane; and
\* primaryLayerId, the first layer.  They read the declared layers: dslToInit
\* and appendLayer declare each one they order, an only one and empty ones too.
LaneOf(d, n) == IF n.track \in DOMAIN d.tracks THEN d.tracks[n.track] ELSE n.lane
LayersWith(d, lane) ==
    {d.ordering[Locate(d, n.track).li].id :
        n \in {m \in d.notes : m.track \in Placed(d) /\ LaneOf(d, m) = lane}}
Primary(d) == Min(LayerIds(d))
OwnerOr(d, lane, else) == IF LayersWith(d, lane) = {} THEN else ELSE Min(LayersWith(d, lane))
\* Where a note that changes lane goes: the lane's layer, else the note's own.
Target(d, n, lane) ==
    OwnerOr(d, lane, IF n.track \in Placed(d) THEN d.ordering[Locate(d, n.track).li].id ELSE Null)
Rehomed(seen, n, lane) ==
    IF Target(seen, n, lane) = Null THEN [n EXCEPT !.lane = lane]
    ELSE [track |-> HomeOf(seen, Target(seen, n, lane), lane), lane |-> lane]

-----------------------------------------------------------------------------
(* A document as the converters build it: one loose run per layer.          *)

Seeded(lanesOf) ==
    LET upTo[li \in 0 .. Len(lanesOf)] ==  \* the lanes of the first li layers
          IF li = 0 THEN <<>> ELSE upTo[li - 1] \o lanesOf[li]
        all == upTo[Len(lanesOf)]
    IN [ordering |-> [li \in DOMAIN lanesOf |->
            [id |-> li - 1,
             slots |-> <<Loose([ti \in DOMAIN lanesOf[li] |-> Len(upTo[li - 1]) + ti - 1])>>]],
        tracks |-> [t \in 0 .. Len(all) - 1 |-> all[t + 1]],
        notes  |-> {[track |-> i - 1, lane |-> all[i]] : i \in DOMAIN all},
        groups |-> {},
        clash  |-> FALSE]  \* history: a transact provisioned two rows

\* A new kit has rows before it has notes; DeleteSelection gets there too.
Init ==
    /\ doc = Seeded(Opened)
    /\ undo = <<>>
    /\ redo = <<>>
    /\ runtime = <<>>
    /\ gestures = 0

Start == <<doc>>

\* The gesture's commits go on the undo stack, and empty the redo stack.
Commit(h) ==
    /\ gestures' = gestures + 1
    /\ doc' = Last(h)
    /\ undo' = undo \o [i \in 1 .. Len(h) - 1 |-> [doc |-> h[i], first |-> i = 1]]
    /\ redo' = IF Len(h) > 1 THEN <<>> ELSE redo

\* A gesture that changes nothing is not a step.
Gesture(docs) == \E h \in {docs} : Len(h) > 1 /\ Commit(h) /\ UNCHANGED runtime

-----------------------------------------------------------------------------
(* The gestures.  The panel and the score's gutter pass a placed track, a   *)
(* layer and an anchor in it; a caller may name a layer the document lacks  *)
(* and, to moveTrackAfter, an anchor of another layer.                      *)

Anchors(l) == {t \in Placed(doc) : InLayer(doc, LayerAt(doc, l), t)} \cup {Null}
Layers == LayerIds(doc) \cup {Len(Opened)}

DragTrackBefore == \E t \in Placed(doc), l \in Layers :
    \E a \in Anchors(l) : Gesture(MoveTrack(Start, t, l, a))
DragTrackAfter == \E t, a \in Placed(doc), l \in Layers : Gesture(MoveTrackAfter(Start, t, l, a))
DropTrackInto == \E t, a \in Placed(doc) : Gesture(GroupTracks(Start, t, a))
DragGroup == \E g \in doc.groups, l \in Layers :
    \E a \in Anchors(l) : Gesture(MoveGroup(Start, g, l, a))
DragLayer == \E i, j \in DOMAIN doc.ordering : Gesture(ReorderLayer(Start, i, j))

\* The panel's one button: Delete for an empty group, else Ungroup.
DissolveGroup == \E p \in Slots(doc) :
    LET slot == doc.ordering[p[1]].slots[p[2]]
    IN /\ slot.group # Null
       /\ Gesture(IF slot.tracks = <<>> THEN DeleteGroup(Start, slot.group)
                                       ELSE Ungroup(Start, slot.group))

\* A click on a layer's row, or on a merged row, which carries no layer.
InsertNote == \E l \in LayerIds(doc) \cup {Null}, lane \in Lanes :
    LET at == IF l = Null THEN OwnerOr(doc, lane, Primary(doc)) ELSE l
    IN Gesture(<<doc, [Provisioned(doc, <<[layer |-> at, lane |-> lane]>>)
                          EXCEPT !.notes = @ \cup {[track |-> HomeOf(doc, at, lane), lane |-> lane]}]>>)

\* A selection: the notes of one row, or every note.
Selections == ({{n} : n \in doc.notes} \cup {doc.notes}) \ {{}}

DeleteSelection == \E S \in Selections :
    Gesture(<<doc, [doc EXCEPT !.notes = @ \ S]>>)

PasteInto(lanes) ==
    LET at(lane) == OwnerOr(doc, lane, Primary(doc))
        wants == [i \in DOMAIN lanes |-> [layer |-> at(lanes[i]), lane |-> lanes[i]]]
    IN <<doc, [Provisioned(doc, wants) EXCEPT !.notes = @ \cup
                  {[track |-> HomeOf(doc, at(lane), lane), lane |-> lane] : lane \in ToSet(lanes)}]>>
CommitPaste == \E lanes \in [1 .. 1 -> Lanes] \cup [1 .. 2 -> Lanes] : Gesture(PasteInto(lanes))

\* moveSelection in a transact: what changes lane changes row.
DragNotes == \E S \in Selections : \E to \in [S -> Lanes] :
    LET moved == {n \in S : to[n] # LaneOf(doc, n)}
        homed == SetToSeq({n \in moved : Target(doc, n, to[n]) # Null})
        wants == [i \in DOMAIN homed |->
                    [layer |-> Target(doc, homed[i], to[homed[i]]), lane |-> to[homed[i]]]]
    IN /\ moved # {}
       /\ Gesture(<<doc, [Provisioned(doc, wants)
                            EXCEPT !.notes = (@ \ moved) \cup {Rehomed(doc, n, to[n]) : n \in moved}]>>)

\* The same from the note inspector, which opens no transact.
ProvisionFor(h, n, lane) ==
    IF Target(Last(h), n, lane) = Null THEN h ELSE Provision(h, Target(Last(h), n, lane), lane)
ProvisionAll(h, ns, lane) ==
    LET f[i \in 0 .. Len(ns)] == IF i = 0 THEN h ELSE ProvisionFor(f[i - 1], ns[i], lane)
    IN f[Len(ns)]
SetLane == \E S \in Selections, lane \in Lanes :
    LET moved == {n \in S : n.lane # lane}
        h     == ProvisionAll(Start, SetToSeq(moved), lane)
    IN /\ moved # {}
       /\ Gesture(Append(h, [Last(h) EXCEPT !.notes =
                             (@ \ moved) \cup {Rehomed(Last(h), n, lane) : n \in moved}]))

\* Onto an empty document the transcription replaces everything; else it is a
\* new bottom layer, under minted ids.
Extended(d, seq) ==
    LET low   == Min({0} \cup (DOMAIN d.tracks \ RuntimeIds))
        layer == [id |-> Min({0} \cup LayerIds(d)) - 1,
                  slots |-> <<Loose([i \in DOMAIN seq |-> low - i])>>]
    IN [d EXCEPT !.ordering = Append(@, layer),
                 !.tracks = Joined([t \in {low - i : i \in DOMAIN seq} |-> seq[low - t]], @),
                 !.notes = @ \cup {[track |-> low - i, lane |-> seq[i]] : i \in DOMAIN seq}]
TranscriptionLands == \E lanes \in SUBSET Lanes \ {{}} :
    LET seq == SetToSeq(lanes)
    IN Gesture(<<doc, IF doc.notes = {} THEN Seeded(<<seq>>) ELSE Extended(doc, seq)>>)

\* The reaction to a runtime track coming or going.
LoadRuntime == \E r \in RuntimeIds \ ToSet(runtime) :
    /\ runtime' = Append(runtime, r)
    /\ Commit(Sync(Start, runtime'))
DropRuntime == \E r \in ToSet(runtime) :
    /\ runtime' = Only(runtime, RuntimeIds \ {r})
    /\ Commit(Sync(Start, runtime'))

-----------------------------------------------------------------------------
Undo ==
    /\ undo # <<>> /\ Len(redo) < MaxUndone
    /\ doc' = Last(undo).doc
    /\ undo' = Front(undo)
    /\ redo' = Append(redo, [Last(undo) EXCEPT !.doc = doc])
    /\ UNCHANGED <<runtime, gestures>>

Redo ==
    /\ redo # <<>>
    /\ doc' = Last(redo).doc
    /\ redo' = Front(redo)
    /\ undo' = Append(undo, [Last(redo) EXCEPT !.doc = doc])
    /\ UNCHANGED <<runtime, gestures>>

More == gestures < MaxGestures

Next ==
    \/ More /\ DragTrackBefore
    \/ More /\ DragTrackAfter
    \/ More /\ DropTrackInto
    \/ More /\ DragGroup
    \/ More /\ DissolveGroup
    \/ More /\ DragLayer
    \/ More /\ InsertNote
    \/ More /\ DeleteSelection
    \/ More /\ CommitPaste
    \/ More /\ DragNotes
    \/ More /\ SetLane
    \/ More /\ TranscriptionLands
    \/ More /\ LoadRuntime
    \/ More /\ DropRuntime
    \/ Undo
    \/ Redo

Spec == Init /\ [][Next]_vars

-----------------------------------------------------------------------------
(* Properties.                                                              *)

\* Types: the parts of a document refer to what they may.
TrackId == Int \cup RuntimeIds
DocOK(d) ==
    /\ \A l \in ToSet(d.ordering) :
          l.id \in Int /\ \A s \in ToSet(l.slots) : s.group \in Nat \cup {Null}
    /\ d.groups \subseteq Nat
    /\ DOMAIN d.tracks \subseteq TrackId
    /\ \A t \in DOMAIN d.tracks : d.tracks[t] \in IF t \in RuntimeIds THEN {Null} ELSE Lanes
    /\ \A n \in d.notes : n.track \in Int /\ n.lane \in Lanes
    /\ d.clash \in BOOLEAN
TypeOK ==
    /\ DocOK(doc)
    /\ IsInjective(runtime) /\ ToSet(runtime) \subseteq RuntimeIds
    /\ gestures \in 0 .. MaxGestures

\* A group slot always has its name, and a group is in one place, however
\* much of a gesture an undo has taken back: the commits of createGroup,
\* ungroup, deleteGroup and moveGroup are in an order that keeps it so.
GroupsNamed ==
    /\ \A l \in ToSet(doc.ordering) : \A s \in ToSet(l.slots) : s.group \in doc.groups \cup {Null}
    /\ \A g \in doc.groups : Cardinality(GroupSlots(doc, g)) <= 1

\* A track has at most one row and every row has its entity, in the documents
\* an undo leaves half-way too; unless one transact provisioned two rows, to
\* which ensureInstrumentTrack, reading the cache, gives the same id.
OneRowPerTrack == ~doc.clash =>
    /\ \A p, q \in Rows(doc) : p.track = q.track => p = q
    /\ Placed(doc) \subseteq DOMAIN doc.tracks

\* No gesture takes the row of a track it keeps: the bail-outs of moveTrack,
\* moveTrackAfter and moveGroup come before what they would strand.
NoGestureOrphans ==
    [][gestures' # gestures =>
         \A t \in Placed(doc) \cap DOMAIN doc'.tracks : t \in Placed(doc')]_vars

\* Whatever undo has done to the rows, when a runtime track comes or goes the
\* loaded ones, and no others, have rows again; and a stem mapped to lanes
\* that have rows heads a group of them all, right above the first.
StemsTakeTheirPlace ==
    [][runtime' # runtime =>
         /\ Placed(doc') \cap RuntimeIds = ToSet(runtime')
         /\ \A r \in ToSet(runtime') \ Placed(doc) :
               Backed(doc, r) # <<>> =>
                 LET row  == Locate(doc', r)
                     slot == SlotOf(doc', row)
                 IN /\ slot.group # Null
                    /\ ToSet(Backed(doc, r)) \subseteq ToSet(slot.tracks)
                    /\ slot.tracks[row.ti + 1] = Backed(doc, r)[1]]_vars

\* "each gesture is naturally one undo step" (history_presenter.ts): what an
\* undo takes back starts where a gesture started.
EachGestureOneUndoStep ==
    [][Len(undo') < Len(undo) => Last(undo).first]_vars

=============================================================================
