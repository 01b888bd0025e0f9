---------------------------- MODULE FieldUpdates ----------------------------
(***************************************************************************)
(* Opening an index with an updated mapping: index_update.go compares the  *)
(* two mappings and works out what is dropped of every field; UpdateFields *)
(* of scorch notes it beside the segments, in root.bolt and in memory; the *)
(* readers of a snapshot skip what is noted, and a merge leaves it out.    *)
(*                                                                         *)
(* A place is a field mapping of a document mapping: the type it is under, *)
(* the path of the document mapping, the name of the field mapping (or "").*)
(* A kind is the type of a field mapping and its analyzer, custom is what  *)
(* the mapping defines such a name as, parts what analyzers are made of.   *)
(* A segment is the set of <<field, aspect>> pairs it holds data for.      *)
(***************************************************************************)
EXTENDS Naturals, FiniteSets, SequencesExt

CONSTANTS Places,       \* records [root, path, name]
          Original,     \* the mapping the index is created with
          Updates,      \* the mappings it may be opened with later
          MaxSegments,  \* bound: segments ever created
          MaxKept,      \* snapshots kept in root.bolt
          AfterUpdate   \* what may happen after an update: subset of {"batch", "merge", "forcemerge"}

Aspects == {"index", "docvalues", "store"}

\* What is assumed of the constants.
UpdateAssumption ==
    /\ \A p \in Places : p.path \in Seq(STRING)
    /\ \A m \in Updates \cup {Original} : DOMAIN m.fields \subseteq Places
    /\ {MaxSegments, MaxKept} \subseteq Nat \ {0}
    /\ AfterUpdate \subseteq {"batch", "merge", "forcemerge"}

VARIABLES state,    \* of the handle: "closed", "opening", "open"
          request,  \* the set of mappings Open was given: empty or one
          locked,   \* a handle nobody has keeps root.bolt open
          im,       \* mapping in use by the handle
          root,     \* snapshot in memory: segs, upd, mapping, dirty
          base,     \* what the segment objects know of updated fields
          pending,  \* segments written to disk, not yet introduced
          bolt,     \* snapshots in root.bolt, oldest first
          accepted, \* history: the last mapping an update was accepted with
          dropped   \* history: the pairs accepted updates have dropped

vars == <<state, request, locked, im, root, base, pending, bolt, accepted, dropped>>

-----------------------------------------------------------------------------
(* Names.                                                                  *)

\* The field the data of a place is stored under (mapping/field.go).
FieldName(p) ==
    IF p.name = "" THEN p.path
    ELSE IF Len(p.path) > 1 THEN Front(p.path) \o <<p.name>> ELSE <<p.name>>

\* The field an update is noted under.
InfoName(p) ==
    LET parent == IF p.path = <<>> THEN <<>> ELSE Front(p.path)
        own    == IF p.name = "" THEN p.path ELSE <<p.name>>
    IN  parent \o own

(* What mappings say.                                                      *)
Active(m) == {p \in DOMAIN m.fields : m.fields[p].enabled}
Content(m) == UNION {{<<FieldName(p), a>> : a \in m.fields[p].opts} : p \in Active(m)}

-----------------------------------------------------------------------------
(* Comparing two mappings.  The result is the set of what was found, or    *)
(* Refused.                                                                *)
Refused == {"refused"}

\* A field mapping and the one that replaces it.
CompareFieldMapping(o, u) ==
    LET gone == o.opts \ u.opts
    IN  CASE o.kind # u.kind \/ o.all # u.all         -> Refused
          [] ~(u.opts \subseteq o.opts)               -> Refused
          [] gone # {} /\ u.all                       -> Refused
          [] OTHER -> gone \cup (IF "index" \in gone THEN {"docvalues"} ELSE {})

\* A field mapping that is no longer there.
CompareRemoved(o) == IF o.all THEN Refused ELSE {"deleted"}

FieldInfo(ori, upd, p) ==
    IF p \in Active(upd) THEN CompareFieldMapping(ori.fields[p], upd.fields[p])
                         ELSE CompareRemoved(ori.fields[p])

TopLevelSame(ori, upd) ==
    ori.indexDynamic = upd.indexDynamic /\ ori.otherDynamic = upd.otherDynamic

\* Custom components: an analyzer (or date parser) in use must have been in
\* use before with the same definition; the parts of analyzers never change.
InUse(m) == {m.fields[p].kind : p \in Active(m)} \cap DOMAIN m.custom

ComponentsSame(ori, upd) ==
    /\ \A k \in InUse(upd) : k \in InUse(ori) /\ upd.custom[k] = ori.custom[k]
    /\ ori.parts = upd.parts

\* checkUpdatedMapping: it looks a field of the new mapping up among all of
\* the old one's, without asking whether they are enabled.
NothingNew(ori, upd) == Active(upd) \subseteq DOMAIN ori.fields

UnderDynamic(m, p) == m.indexDynamic /\ p.path \in m.dynamic

Updatable(ori, upd) ==
    LET info(p) == FieldInfo(ori, upd, p)
    IN  /\ TopLevelSame(ori, upd)
        /\ NothingNew(ori, upd)
        /\ ComponentsSame(ori, upd)
        /\ \A p \in Active(ori) :
              /\ info(p) # Refused
              /\ info(p) # {} => ~UnderDynamic(ori, p)
              /\ info(p) = {"deleted"} => ~(upd.indexDynamic \/ upd.otherDynamic)
              /\ \A q \in Active(ori) : InfoName(q) = InfoName(p) => info(q) = info(p)

DeletedFields(ori, upd) ==
    LET changed == {p \in Active(ori) : FieldInfo(ori, upd, p) # {}}
    IN  [n \in {InfoName(p) : p \in changed} |->
            FieldInfo(ori, upd, CHOOSE p \in changed : InfoName(p) = n)]

-----------------------------------------------------------------------------
(* Updated fields noted beside segments and snapshots.                     *)
Nothing == [n \in {} |-> {}]
At(f, n) == IF n \in DOMAIN f THEN f[n] ELSE {}
Merged(f, g) == [n \in DOMAIN f \cup DOMAIN g |-> At(f, n) \cup At(g, n)]
MergedAll(S) == [n \in UNION {DOMAIN f : f \in S} |-> UNION {At(f, n) : f \in S}]

\* Readers skip a field that is deleted, or whose aspect they need is.
Hidden(f, pair) == At(f, pair[1]) \cap {"deleted", pair[2]} # {}

\* A merge leaves out what the segment objects were told (external: zap).
AfterMerge(has, known) == {pair \in has : ~Hidden(known, pair)}

Plain(seg) == [seg EXCEPT !.upd = Nothing]
Added(f, x, v) == [y \in DOMAIN f \cup {x} |-> IF y = x THEN v ELSE f[y]]

Latest == bolt[Len(bolt)]
NoRoot == [segs |-> [i \in {} |-> 0], upd |-> Nothing, mapping |-> Original, dirty |-> FALSE]

-----------------------------------------------------------------------------
Init ==
    /\ state = "open" /\ request = {} /\ locked = FALSE
    /\ im = Original
    /\ root = NoRoot
    /\ base = <<>>
    /\ pending = {}
    /\ bolt = <<[segs |-> NoRoot.segs, mapping |-> Original]>>
    /\ accepted = Original
    /\ dropped = {}

Updated == dropped # {} \/ accepted # Original
May(what) == Updated => what \in AfterUpdate

history == <<accepted, dropped>>
handle == <<state, request, locked, im>>

\* introduceSegment: every segment is put into the new snapshot anew, and
\* neither it nor the snapshot takes the updated fields along.
Batch ==
    /\ state = "open" /\ May("batch")
    /\ Len(base) < MaxSegments
    /\ LET new == [has |-> Content(im), full |-> Content(im), upd |-> Nothing, file |-> FALSE]
           old == [i \in DOMAIN root.segs |-> Plain(root.segs[i])]
       IN  root' = [root EXCEPT !.segs = Added(old, Len(base) + 1, new),
                                !.upd = Nothing, !.dirty = TRUE]
    /\ base' = Append(base, Nothing)
    /\ UNCHANGED <<handle, pending, bolt, history>>

\* introduceMerge, of some segments into one.
MergeOf(ids) ==
    /\ Len(base) < MaxSegments
    /\ LET segs == root.segs
           new == [has  |-> UNION {AfterMerge(segs[i].has, base[i]) : i \in ids},
                   full |-> UNION {segs[i].full : i \in ids},
                   upd  |-> Nothing,
                   file |-> \A i \in ids : segs[i].file]
           kept == [i \in DOMAIN segs \ ids |-> Plain(segs[i])]
       IN  root' = [root EXCEPT !.segs = Added(kept, Len(base) + 1, new),
                                !.upd = Nothing, !.dirty = TRUE]
    /\ base' = Append(base, Nothing)
    /\ UNCHANGED <<handle, pending, bolt, history>>

Merge ==
    /\ state = "open" /\ May("merge")
    /\ \E ids \in SUBSET DOMAIN root.segs : Cardinality(ids) > 1 /\ MergeOf(ids)

ForceMerge ==
    /\ state = "open" /\ May("forcemerge")
    /\ root.segs # NoRoot.segs
    /\ MergeOf(DOMAIN root.segs)

\* prepareBoltSnapshot and the transaction around it.
Persist ==
    /\ state = "open" /\ root.dirty /\ pending = {}
    /\ LET all == Append(bolt, [segs |-> [i \in DOMAIN root.segs |-> [root.segs[i] EXCEPT !.file = TRUE]],
                                mapping |-> root.mapping])
       IN  bolt' = IF Len(all) > MaxKept THEN Tail(all) ELSE all
    /\ pending' = {i \in DOMAIN root.segs : ~root.segs[i].file}
    /\ root' = [root EXCEPT !.dirty = FALSE]
    /\ UNCHANGED <<handle, base, history>>

\* introducePersist: segments that were not written are kept as they are.
IntroducePersist ==
    /\ state = "open" /\ pending # {}
    /\ root' = [root EXCEPT
          !.segs = [i \in DOMAIN root.segs |->
                       IF i \in pending THEN [Plain(root.segs[i]) EXCEPT !.file = TRUE]
                                        ELSE root.segs[i]],
          !.upd = Nothing, !.dirty = TRUE]
    /\ base' = [i \in DOMAIN base |-> IF i \in pending THEN Nothing ELSE base[i]]
    /\ pending' = {}
    /\ UNCHANGED <<handle, bolt, history>>

\* Close, or the end of the process: what is in memory is gone.
Stop ==
    /\ state = "open"
    /\ state' = "closed"
    /\ root' = NoRoot
    /\ pending' = {}
    /\ UNCHANGED <<request, locked, im, base, bolt, history>>

\* The process in which an update was refused is ended: root.bolt is free.
Restart ==
    /\ locked
    /\ locked' = FALSE
    /\ state' = "closed"
    /\ request' = {}
    /\ UNCHANGED <<im, root, base, pending, bolt, history>>

\* Rollback, while the index is closed, to an older snapshot.
Rollback ==
    /\ state = "closed" /\ ~locked
    /\ \E n \in 1..(Len(bolt) - 1) : bolt' = SubSeq(bolt, 1, n)
    /\ UNCHANGED <<handle, root, base, pending, history>>

CallOpen ==
    /\ state = "closed"
    /\ state' = "opening"
    /\ \E um \in {{}} \cup {{m} : m \in Updates} : request' = um
    /\ UNCHANGED <<locked, im, root, base, pending, bolt, history>>

-----------------------------------------------------------------------------
(* openBolt waits for root.bolt and loads the latest snapshot.             *)
LoadedUpd == MergedAll({Latest.segs[i].upd : i \in DOMAIN Latest.segs})
Loaded == [segs |-> Latest.segs, upd |-> LoadedUpd, mapping |-> Latest.mapping, dirty |-> FALSE]
LoadedBase == [i \in DOMAIN base |->
                  IF i \in DOMAIN Latest.segs THEN Latest.segs[i].upd ELSE Nothing]

\* Open without an updated mapping.
OpenPlain ==
    /\ state = "opening" /\ ~locked /\ request = {}
    /\ state' = "open"
    /\ root' = Loaded
    /\ base' = LoadedBase
    /\ im' = Latest.mapping
    /\ UNCHANGED <<request, locked, pending, bolt, history>>

\* updateBolt: the snapshots in root.bolt, all of them.
UpdateBolt(info, um) ==
    [k \in DOMAIN bolt |->
        [segs |-> [i \in DOMAIN bolt[k].segs |->
                     [bolt[k].segs[i] EXCEPT !.upd = Merged(@, info)]],
         mapping |-> um]]

\* Mutant: the segments are told, the snapshot is not.
UpdateSegmentsInfo(r, info) ==
    [r EXCEPT !.segs = [i \in DOMAIN r.segs |-> [r.segs[i] EXCEPT !.upd = Merged(@, info)]]]

\* UpdateFieldsInfo: the snapshot in memory, its segments and their objects.
UpdateFieldsInfo(r, info) ==
    LET upd == Merged(r.upd, info)
    IN  [r EXCEPT !.upd = upd,
                  !.segs = [i \in DOMAIN r.segs |-> [r.segs[i] EXCEPT !.upd = Merged(@, upd)]]]

\* Open with a mapping that can be had from the stored one.
OpenUpdate ==
    /\ state = "opening" /\ ~locked
    /\ \E um \in request :
          /\ Updatable(Latest.mapping, um)
          /\ LET info == DeletedFields(Latest.mapping, um)
                 new  == UpdateFieldsInfo(Loaded, info)
             IN  /\ bolt' = UpdateBolt(info, um)
                 /\ root' = new
                 /\ base' = [i \in DOMAIN base |->
                                IF i \in DOMAIN new.segs THEN new.segs[i].upd ELSE Nothing]
          /\ im' = um
          /\ accepted' = um
          /\ dropped' = dropped \cup (Content(accepted) \ Content(um))
    /\ state' = "open"
    /\ request' = {}
    /\ UNCHANGED <<locked, pending>>

\* Open with one that cannot: root.bolt was opened by OpenMeta, and nothing
\* closes it.
OpenRefused ==
    /\ state = "opening" /\ ~locked
    /\ \E um \in request : ~Updatable(Latest.mapping, um)
    /\ state' = "closed"
    /\ request' = {}
    /\ locked' = TRUE
    /\ UNCHANGED <<im, root, base, pending, bolt, history>>

Next ==
    \/ Batch \/ Merge \/ ForceMerge \/ Persist \/ IntroducePersist
    \/ Stop \/ Restart \/ Rollback \/ CallOpen
    \/ OpenPlain \/ OpenUpdate \/ OpenRefused

\* A call of Open goes on when it can.
Fairness == WF_vars(OpenPlain) /\ WF_vars(OpenUpdate) /\ WF_vars(OpenRefused)

Spec == Init /\ [][Next]_vars /\ Fairness

-----------------------------------------------------------------------------
Pairs == UNION {Content(m) : m \in Updates \cup {Original}}
IsUpd(f) == \A n \in DOMAIN f : f[n] \subseteq Aspects \cup {"deleted"}
IsSeg(s) == s.has \subseteq s.full /\ s.full \subseteq Pairs /\ IsUpd(s.upd) /\ s.file \in BOOLEAN

TypeOK ==
    /\ state \in {"closed", "opening", "open"}
    /\ request \subseteq Updates /\ locked \in BOOLEAN
    /\ im \in Updates \cup {Original}
    /\ DOMAIN root.segs \subseteq DOMAIN base
    /\ \A i \in DOMAIN root.segs : IsSeg(root.segs[i])
    /\ IsUpd(root.upd) /\ \A i \in DOMAIN base : IsUpd(base[i])
    /\ pending \subseteq DOMAIN base
    /\ Len(bolt) \in 1..MaxKept
    /\ \A k \in DOMAIN bolt : \A i \in DOMAIN bolt[k].segs :
          IsSeg(bolt[k].segs[i]) /\ bolt[k].segs[i].file
    /\ dropped \subseteq Pairs

\* What an accepted update dropped is not read any more: no reader of the
\* open index gets to data of it that is still in a segment, whatever was
\* reopened, rolled back or updated again since.
DroppedStaysHidden ==
    state = "open" =>
        \A i \in DOMAIN root.segs : \A pair \in root.segs[i].has \cap dropped :
            Hidden(root.upd, pair)

\* What was indexed and no accepted update has dropped is still there and
\* still read: an update, and the merges that carry it out, take no more.
WantedStaysReadable ==
    state = "open" =>
        \A i \in DOMAIN root.segs : \A pair \in root.segs[i].full \ dropped :
            pair \in root.segs[i].has /\ ~Hidden(root.upd, pair)

\* The index uses the mapping of the last update that was accepted, also
\* after it has been closed and opened again.
MappingIsAccepted == state = "open" => im = accepted

\* Segments of a stored snapshot agree on what was updated.  The maps of
\* updated fields are shared between the segments and the snapshot once they
\* are loaded and changed in place: that is harmless because of this.
StoredSegmentsAgree ==
    \A k \in DOMAIN bolt : \A i, j \in DOMAIN bolt[k].segs :
        bolt[k].segs[i].upd = bolt[k].segs[j].upd

\* A segment that still holds dropped data is known to do so by the object a
\* merge will read, so that the next merge leaves it out.
NextMergeDrops ==
    state = "open" =>
        \A i \in DOMAIN root.segs : \A pair \in root.segs[i].has \cap dropped :
            Hidden(base[i], pair)

\* An accepted update only ever takes something away, and leaves what it
\* keeps analyzed the way the data in the segments was.
Analysis(m, p) ==
    LET k == m.fields[p].kind IN IF k \in DOMAIN m.custom THEN <<k, m.custom[k]>> ELSE <<k>>

OnlyRemoves ==
    /\ Content(accepted') \subseteq Content(accepted)
    /\ \A p \in Active(accepted') : Analysis(accepted', p) = Analysis(accepted, p)
UpdatesOnlyRemove == [][OnlyRemoves]_accepted

\* A call of Open ends, with the index or an error.
OpenEnds == state = "opening" ~> state # "opening"
=============================================================================
