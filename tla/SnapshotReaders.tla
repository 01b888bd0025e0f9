-------------------------- MODULE SnapshotReaders --------------------------
(***************************************************************************)
(* The readers of an index snapshot of scorch: a term field reader goes    *)
(* through the postings of the segments one after the other, Advance skips *)
(* forward and goes back by replacing the reader with a new one, and a     *)
(* reader that is closed may be kept for the next one that reads the same  *)
(* field (snapshot_index.go, snapshot_index_tfr.go, snapshot_index_doc.go, *)
(* unadorned.go).                                                          *)
(***************************************************************************)
EXTENDS Naturals, SequencesExt, FiniteSetsExt

CONSTANTS Clients, Terms,
          Offsets,    \* offsets[i]: the number of the first document of segment i
          Total,      \* the documents of all segments, deleted ones included
          Threshold,  \* the readers of a field that are kept
          GoBack,     \* whether readers are asked to go back
          MaxObjects, \* bound: readers made
          MaxCalls    \* bound: calls of a client

AllDocs == "*"       \* what the document reader enumerates
Both == "&"          \* an unadorned conjunction of all the terms

\* What is assumed of the constants: an offset is the sum of the counts of the
\* segments before it, none of which is empty.  A term is none of the two names
\* above.
ReaderAssumption ==
    /\ AllDocs \notin Terms /\ Both \notin Terms
    /\ Offsets \in Seq(Nat) /\ Total \in Nat
    /\ Total > 0 => Offsets # <<>> /\ Offsets[1] = 0
    /\ \A i, j \in 1..Len(Offsets) : i < j => Offsets[i] < Offsets[j]
    /\ \A i \in 1..Len(Offsets) : Offsets[i] < Total
    /\ GoBack \in BOOLEAN
    /\ Threshold \in Nat /\ MaxObjects \in Nat /\ MaxCalls \in Nat

VARIABLES hits,    \* term -> the live documents of the snapshot that have it
          isRoot,  \* the snapshot is the root of the index
          objects, \* the readers made, in memory
          kept,    \* readers kept for the field, the last one is used first
          using,   \* client -> the reader it holds, 0 for none
          asks,    \* client -> term it asked for, first document its next answer may be
          answer,  \* client -> what it expects and what it got
          calls

readerVars == <<hits, isRoot, objects, kept, using, asks, answer, calls>>

Docs == 0..(Total - 1)
End == Total

Segments == 1..Len(Offsets)
SegmentOf(d) ==
    CHOOSE i \in Segments : Offsets[i] <= d /\ (i = Len(Offsets) \/ d < Offsets[i + 1])
DocsOf(i) == {d \in Docs : SegmentOf(d) = i}

Kinds == Terms \cup {AllDocs, Both}
HitsOf(k) == CASE k = AllDocs -> hits[AllDocs]
               [] k = Both -> {d \in hits[AllDocs] : \A t \in Terms : d \in hits[t]}
               [] OTHER -> hits[k]

\* A reader at the start of the postings of k.
Fresh(k) == [k |-> k, left |-> [i \in Segments |-> HitsOf(k) \cap DocsOf(i)], seg |-> 1, curr |-> {}]

\* The least of a set of documents, End when there is none.
First(S) == IF S = {} THEN End ELSE Min(S)

ReadersTypeOK ==
    /\ hits \in [Terms \cup {AllDocs} -> SUBSET Docs]
    /\ isRoot \in BOOLEAN
    /\ \A n \in 1..Len(objects) :
         /\ objects[n].k \in Kinds
         /\ \A i \in Segments : objects[n].left[i] \subseteq DocsOf(i)
         /\ objects[n].seg \in 1..(Len(Offsets) + 1)
         /\ Cardinality(objects[n].curr) <= 1
    /\ kept \in Seq(1..Len(objects)) /\ Len(kept) <= Threshold
    /\ using \in [Clients -> 0..Len(objects)]

ReadersInit ==
    /\ \E live \in SUBSET Docs, h \in [Terms -> SUBSET Docs] :
         hits = [k \in Terms \cup {AllDocs} |-> IF k = AllDocs THEN live ELSE h[k] \cap live]
    /\ isRoot = TRUE
    /\ objects = <<>>
    /\ kept = <<>>
    /\ using = [c \in Clients |-> 0]
    /\ asks = [c \in Clients |-> [k |-> AllDocs, from |-> 0]]
    /\ answer = [c \in Clients |-> [want |-> End, got |-> End]]
    /\ calls = [c \in Clients |-> 0]

-----------------------------------------------------------------------------
(* One reader.                                                             *)

\* The postings of a segment from document d on; an iterator that comes to
\* its end stays there until it is reset.
AtOrAfter(left, d) == {e \in left : e >= d}

\* Next: the first document left in this segment or a later one.
NextOf(o) ==
    LET later == {i \in o.seg..Len(Offsets) : o.left[i] # {}}
    IN IF later = {} THEN [obj |-> [o EXCEPT !.seg = Len(Offsets) + 1], got |-> End]
       ELSE LET i == Min(later) d == Min(o.left[i])
            IN [obj |-> [o EXCEPT !.seg = i, !.left[i] = @ \ {d}, !.curr = {d}], got |-> d]

\* Advance to d without going back: straight to the segment of d.
SkipTo(o, d) ==
    LET i == SegmentOf(d)
        rest == AtOrAfter(o.left[i], d)
        at == [o EXCEPT !.seg = i, !.left[i] = rest]
    IN IF rest = {} THEN NextOf(at)
       ELSE [obj |-> [at EXCEPT !.left[i] = rest \ {Min(rest)}, !.curr = {Min(rest)}], got |-> Min(rest)]

Backwards(o, d) == \E e \in o.curr : e >= d
Recyclable(k) == k \in Terms

\* The reader a term field reader asks for: one that is kept, or a new one.
Alloc(objs, keep) ==
    IF keep # <<>> THEN [n |-> Last(keep), kept |-> Front(keep), objs |-> objs]
                   ELSE [n |-> Len(objs) + 1, kept |-> keep, objs |-> Append(objs, Fresh(AllDocs))]

\* What is done to it: it keeps nothing of the search that had it before, the
\* iterators are reset to the postings of k and it is at the first segment.
ReopenedThere(o, k) ==
    [o EXCEPT !.k = k, !.left = [i \in Segments |-> HitsOf(k) \cap DocsOf(i)], !.curr = {}]
Reopened(o, k) ==
    [o EXCEPT !.k = k, !.left = [i \in Segments |-> HitsOf(k) \cap DocsOf(i)], !.seg = 1, !.curr = {}]

TermFieldReader(k, objs, keep) ==
    LET a == Alloc(objs, keep)
    IN [a EXCEPT !.objs = [a.objs EXCEPT ![a.n] = Reopened(@, k)]]

Recycled(n, k, keep) ==
    IF Recyclable(k) /\ isRoot /\ Len(keep) < Threshold THEN Append(keep, n) ELSE keep

-----------------------------------------------------------------------------
Call(c) == /\ calls[c] < MaxCalls
           /\ calls' = [calls EXCEPT ![c] = @ + 1]
Answer(c, got, want) ==
    /\ answer' = [answer EXCEPT ![c] = [want |-> want, got |-> got]]
    /\ asks' = [asks EXCEPT ![c].from = IF got = End THEN End ELSE got + 1]

OpenTerm(c) ==
    /\ using[c] = 0 /\ Call(c)
    /\ \E t \in Terms :
         LET r == TermFieldReader(t, objects, kept)
         IN /\ Len(r.objs) <= MaxObjects
            /\ objects' = r.objs /\ kept' = r.kept
            /\ using' = [using EXCEPT ![c] = r.n]
            /\ asks' = [asks EXCEPT ![c] = [k |-> t, from |-> 0]]
    /\ UNCHANGED <<hits, isRoot, answer>>

\* A reader of all documents, and one that an optimized conjunction makes:
\* neither is taken from the readers that are kept.
OpenOther(c) ==
    /\ using[c] = 0 /\ Call(c)
    /\ Len(objects) < MaxObjects
    /\ \E k \in {AllDocs, Both} :
         /\ objects' = Append(objects, Fresh(k))
         /\ using' = [using EXCEPT ![c] = Len(objects) + 1]
         /\ asks' = [asks EXCEPT ![c] = [k |-> k, from |-> 0]]
    /\ UNCHANGED <<hits, isRoot, kept, answer>>

Want(c, d) == First({e \in HitsOf(asks[c].k) : e >= d})

Next_(c) ==
    /\ using[c] # 0 /\ Call(c)
    /\ LET r == NextOf(objects[using[c]])
       IN /\ objects' = [objects EXCEPT ![using[c]] = r.obj]
          /\ Answer(c, r.got, Want(c, asks[c].from))
    /\ UNCHANGED <<hits, isRoot, kept, using>>

\* Searchers advance only a reader that has not come to its end.  The reader
\* of all documents cannot go back: it calls Next until it is far enough.
AdvanceTerm(c) ==
    /\ using[c] # 0 /\ Call(c)
    /\ asks[c].k # AllDocs /\ asks[c].from # End
    /\ \E d \in {e \in Docs : GoBack \/ ~Backwards(objects[using[c]], e)} :
         LET n == using[c]
             o == objects[n]
         IN IF ~Backwards(o, d)
            THEN LET r == SkipTo(o, d)
                 IN /\ objects' = [objects EXCEPT ![n] = r.obj]
                    /\ kept' = kept
                    /\ Answer(c, r.got, Want(c, d))
            ELSE IF Recyclable(o.k)
            THEN \* a new reader, the old one closed, and the new one copied over it
                 LET a == TermFieldReader(o.k, objects, kept)
                     r == SkipTo(a.objs[a.n], d)
                 IN /\ Len(a.objs) <= MaxObjects
                    /\ objects' = [a.objs EXCEPT ![n] = r.obj]
                    /\ kept' = Recycled(n, o.k, a.kept)
                    /\ Answer(c, r.got, Want(c, d))
            ELSE LET r == SkipTo([Fresh(o.k) EXCEPT !.curr = o.curr], d)
                 IN /\ objects' = [objects EXCEPT ![n] = r.obj]
                    /\ kept' = kept
                    /\ Answer(c, r.got, Want(c, d))
    /\ UNCHANGED <<hits, isRoot, using>>

AdvanceDoc(c) ==
    /\ using[c] # 0 /\ Call(c)
    /\ asks[c].k = AllDocs /\ asks[c].from # End
    /\ \E d \in Docs :
         LET o == objects[using[c]]
             left == {e \in UNION Range(o.left) : e >= d}
             i == SegmentOf(Min(left))
         IN /\ d >= asks[c].from
            /\ objects' = [objects EXCEPT ![using[c]] =
                 IF left = {} THEN [o EXCEPT !.left = [j \in Segments |-> {}], !.seg = Len(Offsets) + 1]
                 ELSE [o EXCEPT !.seg = i, !.curr = {Min(left)},
                                !.left = [j \in Segments |-> {e \in o.left[j] : e > Min(left)}]]]
            /\ Answer(c, First(left), Want(c, d))
    /\ UNCHANGED <<hits, isRoot, kept, using>>

Close(c) ==
    /\ using[c] # 0
    /\ kept' = Recycled(using[c], objects[using[c]].k, kept)
    /\ using' = [using EXCEPT ![c] = 0]
    /\ UNCHANGED <<hits, isRoot, objects, asks, answer, calls>>

\* A batch makes another snapshot the root.
NewRoot == isRoot /\ isRoot' = FALSE /\ UNCHANGED <<hits, objects, kept, using, asks, answer, calls>>

ReadersNext ==
    \/ \E c \in Clients : \/ OpenTerm(c) \/ OpenOther(c) \/ Next_(c)
                          \/ AdvanceTerm(c) \/ AdvanceDoc(c) \/ Close(c)
    \/ NewRoot

ReadersSpec == ReadersInit /\ [][ReadersNext]_readerVars

-----------------------------------------------------------------------------
\* Next gives the first document after the last one, Advance the first one
\* from where it is asked to go, backwards too and across segments, and never
\* a deleted document or one without the term.
AnswersExact == \A c \in Clients : answer[c].got = answer[c].want

\* A reader belongs to one client at a time, and one that is in use is not
\* among those kept for the next.
ReadersApart ==
    /\ \A c, d \in Clients : (c # d /\ using[c] # 0) => using[c] # using[d]
    /\ \A c \in Clients : using[c] # 0 => ~Contains(kept, using[c])

\* Readers that go back are not kept: a reader closed for going back would be
\* kept although it goes on (by default none is kept, "disabled because it causes
\* MB-64604").
Reused == GoBack /\ Threshold > 0

\* A reader that is nobody else's answers right, also when it has been another's.
ReadersExact == ~Reused => AnswersExact /\ ReadersApart
=============================================================================
