------------------------------- MODULE Bundle -------------------------------
(***************************************************************************)
(* export_trace beside the recording of the trace, and inspect_bundle.     *)
(* The row and the events are read one after the other; what the events    *)
(* refer to is searched for references to contents in turn; then the       *)
(* archive is written where it will stay, blob after blob.                 *)
(*                                                                         *)
(* A reference names a content with a size, which may be wrong, and with a *)
(* media type, of which it matters whether it is JSON.                     *)
(***************************************************************************)
EXTENDS Recording

CONSTANTS Mentions,    \* Mentions[d]: the references found in a request, a result or a content
                       \* that is JSON, in order, the first of those to the same content
          Elsewhere,   \* contents that others have stored
          Losses,      \* sets of contents whose blobs are damaged or lost
          MaxExports   \* bound: exports begun

Contents == {e.content : e \in Entries} \cup Elsewhere

ASSUME BundleAssumption ==
  /\ Requests \cup Results \subseteq DOMAIN Mentions
  /\ DOMAIN Mentions \subseteq Requests \cup Results \cup Contents
  /\ (Requests \cup Results) \cap Contents = {}
  /\ \A d \in DOMAIN Mentions : \A m, n \in 1 .. Len(Mentions[d]) :
       Mentions[d][m].content = Mentions[d][n].content => m = n
  /\ MaxExports \in Nat

VARIABLES stage,       \* "idle", "row", "searching", "writing", "exported", "unsearched" or "unwritten"
          exports,     \* exports begun
          row,         \* the event_count that get_trace returned
          events,      \* what events returned
          lost,        \* contents that cannot be read
          left,        \* _references: how many places of the events are still to be searched,
          nested,      \* the references that were found last and are searched before them
          references,  \* and those found so far, one for each content
          archive      \* what is at the destination

found == <<left, nested, references>>
bundleVars == <<stage, exports, row, events, lost, found, archive>>

NoArchive == [row |-> 0, events |-> << >>, blobs |-> {}, declared |-> {}, closed |-> FALSE]

BundleInit ==
  /\ stage = "idle" /\ exports = 0
  /\ row = 0 /\ events = << >> /\ lost = {}
  /\ left = 0 /\ nested = << >> /\ references = {}
  /\ archive = NoArchive

ContentsOf(entries) == {entries[p].content : p \in {q \in Paths : entries[q] # Absent}}

\* What has been put into the store: by capturing, by finish with a workspace, by others.
StoredContents ==
  UNION ({ContentsOf(m) : m \in manifests} \cup {Elsewhere} \cup
         {ContentsOf(log[n].manifest) :
            n \in {k \in 1 .. Len(log) : log[k].kind = "run_finished" /\ log[k].workspace}})

\* Mutant of Readable: what is read is not compared with its digest and size.
ReadableUnverified(reference) == reference.content \in StoredContents

\* get_bytes of a reference returns.
Readable(reference) ==
  reference.content \in StoredContents \ lost /\ reference.sized

\* What an event refers to; the payloads that are left out name nothing.
Nothing == <<"none">>
InputOf(event) ==
  CASE IsCall(event) -> <<"value", event.request>>
    [] event.kind = "workspace_delta" -> <<"manifest", event.previous>>
    [] OTHER -> Nothing
OutputOf(event) ==
  CASE IsCall(event) /\ event.outcome \in Results -> <<"value", event.outcome>>
    [] event.kind = "checkpoint" -> <<"manifest", event.manifest>>
    [] event.kind = "workspace_delta" -> <<"delta", event.delta>>
    [] event.kind = "run_finished" /\ event.workspace -> <<"manifest", event.manifest>>
    [] OTHER -> Nothing

\* The references of events in their order: that of event n is at places 2n - 1 and 2n.
PayloadAt(place) ==
  LET event == events[(place + 1) \div 2] IN
  IF place % 2 = 1 THEN InputOf(event) ELSE OutputOf(event)

\* Manifests and deltas name what they hold as it was stored, and as bytes.
FileReference(content) == [content |-> content, sized |-> TRUE, json |-> FALSE]
ValueReferences(value) == {Mentions[value][n] : n \in 1 .. Len(Mentions[value])}

\* Mutant of NestedRefs: the lists that hold the entries are not searched.
NestedRefsFlat(payload) == IF payload[1] = "value" THEN ValueReferences(payload[2]) ELSE {}

\* _nested_refs: any object with a digest and a size is one, in a request as well.
NestedRefs(payload) ==
  CASE payload[1] = "manifest" -> {FileReference(c) : c \in ContentsOf(payload[2])}
    [] payload[1] = "delta" -> {FileReference(c) : c \in ContentsOf(payload[2].written)}
    [] payload[1] = "value" -> ValueReferences(payload[2])
    [] OTHER -> {}

\* The first reference to a content is kept; those to JSON are searched next, the last first.
Find(payload, rest) ==
  LET known == {r.content : r \in references}
      new == {r \in NestedRefs(payload) : r.content \notin known}
  IN /\ references' = references \cup new
     /\ nested' = rest \o (IF payload[1] = "value"
                           THEN SelectSeq(Mentions[payload[2]], LAMBDA r : r \in new /\ r.json)
                           ELSE << >>)

ReadRow(unreadable) ==
  /\ stage \in {"idle", "exported", "unsearched", "unwritten"} /\ exports < MaxExports
  /\ log # << >>
  /\ stage' = "row" /\ exports' = exports + 1
  /\ row' = Len(log) /\ lost' = unreadable
  /\ UNCHANGED <<events, found, archive>>

ReadEvents ==
  /\ stage = "row" /\ stage' = "searching"
  /\ events' = log
  /\ left' = 2 * Len(log) /\ nested' = << >> /\ references' = {}
  /\ UNCHANGED <<exports, row, lost, archive>>

\* A payload is searched once, at the first of its places.
Search ==
  /\ stage = "searching" /\ nested = << >> /\ left > 0
  /\ left' = left - 1
  /\ IF \E place \in 1 .. left - 1 : PayloadAt(place) = PayloadAt(left)
     THEN UNCHANGED <<nested, references>>
     ELSE Find(PayloadAt(left), << >>)
  /\ UNCHANGED <<stage, exports, row, events, lost, archive>>

SearchNested ==
  /\ stage = "searching" /\ nested # << >>
  /\ LET reference == nested[Len(nested)] IN
       /\ Readable(reference) /\ reference.content \in DOMAIN Mentions
       /\ Find(<<"value", reference.content>>, SubSeq(nested, 1, Len(nested) - 1))
  /\ UNCHANGED <<stage, exports, row, events, lost, left, archive>>

\* A payload cannot be read, or what a value names as JSON cannot or is none: the
\* destination is left as it was.
SearchFails ==
  /\ stage = "searching" /\ stage' = "unsearched"
  /\ \/ nested = << >> /\ left > 0
     \/ /\ nested # << >>
        /\ LET reference == nested[Len(nested)] IN
           ~(Readable(reference) /\ reference.content \in DOMAIN Mentions)
  /\ UNCHANGED <<exports, row, events, lost, found, archive>>

\* The destination is opened: what was there is gone.
Open ==
  /\ stage = "searching" /\ nested = << >> /\ left = 0
  /\ stage' = "writing"
  /\ archive' = [row |-> row, events |-> events, blobs |-> {},
                 declared |-> references, closed |-> FALSE]
  /\ UNCHANGED <<exports, row, events, lost, found>>

AddBlob(reference) ==
  /\ stage = "writing"
  /\ reference \in archive.declared /\ reference.content \notin archive.blobs
  /\ IF Readable(reference)
     THEN archive' = [archive EXCEPT !.blobs = @ \cup {reference.content}] /\ UNCHANGED stage
     ELSE archive' = [archive EXCEPT !.closed = TRUE] /\ stage' = "unwritten"
  /\ UNCHANGED <<exports, row, events, lost, found>>

DeclaredContents == {r.content : r \in archive.declared}

Close ==
  /\ stage = "writing" /\ archive.blobs = DeclaredContents
  /\ stage' = "exported"
  /\ archive' = [archive EXCEPT !.closed = TRUE]
  /\ UNCHANGED <<exports, row, events, lost, found>>

ExportStep ==
  \/ \E unreadable \in Losses : ReadRow(unreadable)
  \/ ReadEvents \/ Search \/ SearchNested \/ SearchFails \/ Open \/ Close
  \/ \E reference \in archive.declared : AddBlob(reference)

BundleNext ==
  \/ RunStep /\ UNCHANGED bundleVars
  \/ ExportStep /\ UNCHANGED runVars
----------------------------------------------------------------------------
\* inspect_bundle returns, and then verify_event_chain.
Inspected == archive.closed /\ DeclaredContents \subseteq archive.blobs
BundleVerified == Inspected /\ archive.row = Len(archive.events)

\* What a replay of an event reads beyond the payloads the event refers to.
ReplayReads(event) ==
  CASE event.kind = "checkpoint" -> ContentsOf(event.manifest)
    [] event.kind = "workspace_delta" -> ContentsOf(event.delta.written)
    [] OTHER -> {}

\* A bundle that inspect_bundle returns holds every file a replay of its events in
\* any mode reads, and every file of every tree the run captured, those that a delta
\* leaves out because they had not changed included; if the count that verify-bundle
\* compares is not that of the events all the same, that is because the row was read
\* before events were added, so that it counts fewer than there are.
BundleReplays ==
  Inspected =>
    /\ \A n \in 1 .. Len(archive.events) :
         LET event == archive.events[n] IN
         /\ ReplayReads(event) \subseteq archive.blobs
         /\ Captures(event) => ContentsOf(CapturedBy(event)) \subseteq archive.blobs
    /\ BundleVerified \/ archive.row < Len(archive.events)

\* The references that captures among some events hold, and those of values.
CapturedReferences(all) ==
  UNION {NestedRefs(InputOf(all[n])) \cup NestedRefs(OutputOf(all[n])) :
           n \in {k \in 1 .. Len(all) : ~IsCall(all[k])}}
MentionedReferences == UNION {ValueReferences(value) : value \in DOMAIN Mentions}

\* Writing fails only on a blob that is lost, or on a reference that no capture holds and
\* a recorded request, a result or a content they name as JSON does: one to a content that
\* was not captured, or one with another size, whoever else names the content.  What was
\* asked or answered can make a trace impossible to export.  That leaves a file at the
\* destination that inspect_bundle refuses; otherwise everything named is there and intact.
ExportFailsExactly ==
  /\ stage = "unwritten" =>
       /\ ~Inspected
       /\ \E r \in archive.declared :
            /\ r.content \notin archive.blobs
            /\ r.content \in lost \/ r \in MentionedReferences \ CapturedReferences(events)
  /\ stage = "exported" =>
       /\ Inspected
       /\ \A r \in archive.declared : r.content \in StoredContents \ lost /\ r.sized
=============================================================================
