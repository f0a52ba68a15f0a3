--------------------------- MODULE ManifestBuild ---------------------------
(***************************************************************************)
(* The manifest of an archive run (build_route_archive_manifest): list     *)
(* every route, select what is archived, cut each group into chunks, drop  *)
(* the chunks whose archive would be too large, cut again, and refuse      *)
(* outputs that would overwrite each other.                                *)
(*                                                                         *)
(* The listing is what S3 answered; nothing changes it while the manifest  *)
(* is built.  A key is a folder, a sequence of names, and the number of    *)
(* its object; objects are numbered in key order.                          *)
(***************************************************************************)
EXTENDS KeyParsers

CONSTANTS NumObjects,  \* objects in the source buckets
          Samples,     \* what an object may be like
          NumRoutes,
          RouteLists,  \* what may be configured as the routes
          SampleLimit, \* PARSER_SAMPLE_LIMIT
          Today,       \* the day on which the run started
          From, To,    \* ARCHIVER_FROM, ARCHIVER_TO
          MaxSource,   \* ARCHIVER_MAX_SOURCE_OBJECT_SIZE_MIB
          MaxBytes,    \* ARCHIVER_ARCHIVE_GROUP_MAX_BYTES
          MaxObjects,  \* ARCHIVER_ARCHIVE_GROUP_MAX_OBJECTS
          MaxArchive,  \* ARCHIVER_MAX_DESTINATION_ARCHIVE_SIZE_MIB
          Block, Fixed \* block size of tar; allowance for the rest of it

Objects == 1..NumObjects
Routes == 1..NumRoutes
Modes == {"direct", "daily_tar_gz", "timestamp_child_tar_gz"}

Skips == {"size", "parser", "incomplete day", "date range", "archive size"}

IsRoute(spec) ==
  /\ spec.path \in Seq(Names) /\ spec.parser \in Parsers /\ spec.mode \in Modes
  /\ spec.destination = None \/ spec.destination \in Seq(Names)

ASSUME ManifestConstants ==
  /\ {NumObjects, NumRoutes, SampleLimit, Today, MaxSource, MaxBytes, MaxArchive, Fixed} \subseteq Nat
  /\ {MaxObjects, Block} \subseteq Nat \ {0}
  /\ \A s \in Samples : IsObject(s) /\ s.size \in Nat
  /\ \A list \in RouteLists : \A r \in Routes : IsRoute(list[r])
  /\ \A text \in {From, To} \ {None} : text \in Seq(Nat) /\ Len(text) \in 1..3
  /\ None \notin Skips

VARIABLES object,   \* each object: bucket, folder, size, and what parsers see
          route,    \* each route: bucket, path, parser, copy mode, destination
          phase,    \* what is done next
          told,     \* what its parser told of each listed route and object
          entries,  \* table entries: pairs of a route and an object
          skipped,  \* table skipped: with the reason
          chunks,   \* table archive_chunks: slices of each group, in order
          left,     \* chunks of each group that the drop has not looked at
          planned   \* history: what was to be in each chunk, before the drop

inputs == <<object, route>>
vars == <<inputs, phase, told, entries, skipped, chunks, left, planned>>

-----------------------------------------------------------------------------
(* Routes and what they select                                             *)

(* Is a folder the path, or below it: key.startswith(route_path_prefix).   *)
Under(path, folder) == Len(path) <= Len(folder) /\ SubSeq(folder, 1, Len(path)) = path

StrictlyNested(path, outer) == Under(outer, path) /\ Len(path) > Len(outer)

(* Mutant: paths nested in another bucket are excluded too.                *)
ExcludedAnywhere(r) ==
  {route[s].path : s \in {s \in Routes \ {r} : StrictlyNested(route[s].path, route[r].path)}}

(* _route_exclusion_prefixes                                               *)
Excluded(r) ==
  {route[s].path : s \in {s \in Routes \ {r} :
     /\ route[s].bucket = route[r].bucket
     /\ StrictlyNested(route[s].path, route[r].path)}}

(* What iter_archive_manifest_items yields a row for.                      *)
Seen(r) ==
  {o \in Objects :
     /\ object[o].bucket = route[r].bucket
     /\ Under(route[r].path, object[o].folder)
     /\ \A path \in Excluded(r) : ~Under(path, object[o].folder)}

(* select_object                                                           *)
Select(e) == Parse(route[e[1]].parser, object[e[2]])
TargetDay(e) == DayOf(told[e].time)

(* source_object_skip_reason                                               *)
Oversized(o) == object[o].size > MaxSource

(* The reason to skip an object, the first that applies, or None.          *)
SkipReason(e) ==
  LET selected == Select(e) IN
  IF Oversized(e[2]) THEN "size"
  ELSE IF selected = None THEN "parser"
  ELSE IF DayOf(selected.time) >= Today THEN "incomplete day"
  ELSE IF ~Includes(From, To, DayOf(selected.time)) THEN "date range"
  ELSE None

-----------------------------------------------------------------------------
(* Groups and chunks                                                       *)

(* relative_archive_root: what a parser has stripped above the route's     *)
(* path stays as it is.                                                    *)
Root(e) ==
  LET root == told[e].root
      path == route[e[1]].path
  IN  IF Under(path, root) THEN SubSeq(root, Len(path) + 1, Len(root)) ELSE root

(* A destination path that is not set is the source path.                  *)
Destination(r) == IF route[r].destination = None THEN route[r].path ELSE route[r].destination

File(kind, time, child, number) == [kind |-> kind, time |-> time, child |-> child, number |-> number]

(* destination_archive_key                                                 *)
DayKey(e) == [dir |-> Root(e), file |-> File("day", TargetDay(e), <<>>, 1)]

(* timestamp_child_archive_key, which keeps only the last name of the root. *)
HourKey(e) ==
  LET root == Root(e)
      child == IF root = <<>> THEN <<"text", 0>> ELSE root[Len(root)]
  IN  [dir |-> <<>>, file |-> File("hour", told[e].time, child, 1)]

BaseKey(e) ==
  LET key == IF route[e[1]].mode = "timestamp_child_tar_gz" THEN HourKey(e) ELSE DayKey(e)
  IN  [key EXCEPT !.dir = Destination(e[1]) \o @]

GroupOf(e) == [route |-> e[1], root |-> Root(e), day |-> TargetDay(e), key |-> BaseKey(e)]

Groups == {GroupOf(e) : e \in {e \in entries : route[e[1]].mode # "direct"}}

Members(g) == {o \in Objects : <<g.route, o>> \in entries /\ GroupOf(<<g.route, o>>) = g}

(* ArchiveChunkSizer.would_overflow, of a chunk that has items.            *)
Overflows(c, o) == c.length >= MaxObjects \/ c.bytes + object[o].size > MaxBytes

Chunk == [offset : Nat, length : Nat, bytes : Nat]

NewChunk(offset, o) == [offset |-> offset, length |-> 1, bytes |-> object[o].size]
Longer(c, o) == [offset |-> c.offset, length |-> c.length + 1, bytes |-> c.bytes + object[o].size]

(* One more object for the chunks of a group.                              *)
AddToChunks(cs, o) ==
  IF cs = <<>> THEN <<NewChunk(0, o)>>
  ELSE LET c == cs[Len(cs)] IN
       IF Overflows(c, o) THEN Append(cs, NewChunk(c.offset + c.length, o))
       ELSE [cs EXCEPT ![Len(cs)] = Longer(c, o)]

(* _iter_group_chunk_metadata: the chunks of a group, in key order.        *)
ChunksOf(g) ==
  LET cs[n \in 0..NumObjects] ==
        IF n = 0 THEN <<>>
        ELSE IF n \in Members(g) THEN AddToChunks(cs[n - 1], n) ELSE cs[n - 1]
  IN  cs[NumObjects]

(* LIMIT c.length OFFSET c.offset over the entries there are now.          *)
Slice(g, c) ==
  {o \in Members(g) : Cardinality({p \in Members(g) : p < o}) \in c.offset..(c.offset + c.length - 1)}

(* What a chunk is read as: SQLiteGroupEntrySequence.                      *)
Entries(g, i) == Slice(g, chunks[g][i])

Padded(size) == Block * ((size + Block - 1) \div Block)
Estimated(S) == Fixed + SumFunctionOnSet([o \in Objects |-> Block + Padded(object[o].size)], S)

Plan == [g \in Groups |-> [i \in 1..Len(chunks[g]) |-> Entries(g, i)]]

-----------------------------------------------------------------------------
(* Where the outputs go                                                    *)

(* archive_chunk_key                                                       *)
ArchiveKey(g, i) == [g.key EXCEPT !.file.number = i]

ArchiveOutputs == {x \in Groups \X (1..NumObjects) : x[2] <= Len(chunks[x[1]])}

DirectKey(e) ==
  [dir |-> Destination(e[1]) \o object[e[2]].folder, file |-> File("object", 0, <<>>, e[2])]

DirectOutputs == {e \in entries : route[e[1]].mode = "direct"}

(* Mutant: archives of one route are taken to differ, as their roots do.   *)
RoutesClash ==
  \/ \E d, e \in DirectOutputs : d # e /\ DirectKey(d) = DirectKey(e)
  \/ \E x, y \in ArchiveOutputs :
       x[1].route # y[1].route /\ ArchiveKey(x[1], x[2]) = ArchiveKey(y[1], y[2])
  \/ \E x \in ArchiveOutputs, e \in DirectOutputs : ArchiveKey(x[1], x[2]) = DirectKey(e)

(* assert_no_duplicate_destinations: the destinations are one bucket.      *)
DestinationsClash ==
  \/ \E d, e \in DirectOutputs : d # e /\ DirectKey(d) = DirectKey(e)
  \/ \E x, y \in ArchiveOutputs : x # y /\ ArchiveKey(x[1], x[2]) = ArchiveKey(y[1], y[2])
  \/ \E x \in ArchiveOutputs, e \in DirectOutputs : ArchiveKey(x[1], x[2]) = DirectKey(e)

-----------------------------------------------------------------------------
TypeOK ==
  /\ object \in [Objects -> Samples] /\ route \in RouteLists
  /\ phase \in {"load", "health", "list", "commit", "filter", "drop", "check", "built", "refused"}
  /\ entries \subseteq Routes \X Objects
  /\ skipped \subseteq Routes \X Objects \X Skips
  /\ DOMAIN left = DOMAIN chunks
  /\ \A g \in DOMAIN chunks : chunks[g] \in Seq(Chunk) /\ left[g] \in 0..Len(chunks[g])

(* validate_route_storage: the routes' source paths differ where they      *)
(* share a bucket, and so do their destination paths, which share one.     *)
StorageApart ==
  \A r, s \in Routes : r # s =>
    /\ route[r].bucket = route[s].bucket => route[r].path # route[s].path
    /\ Destination(r) # Destination(s)

(* _validate_parser_copy_mode                                              *)
ParserFits(r) ==
  route[r].parser = "folder_timestamp_child" <=> route[r].mode = "timestamp_child_tar_gz"

ValidRoutes == StorageApart /\ \A r \in Routes : ParserFits(r)

Empty == [g \in {} |-> <<>>]

Init ==
  /\ object \in [Objects -> Samples]
  /\ route \in RouteLists
  /\ phase = "load" /\ told = Empty
  /\ entries = {} /\ skipped = {}
  /\ chunks = Empty /\ left = Empty /\ planned = Empty

(* load_app_settings_from_config_json                                      *)
Load ==
  /\ phase = "load"
  /\ phase' = IF ValidRoutes /\ IsRange(From, To) THEN "health" ELSE "refused"
  /\ UNCHANGED <<inputs, told, entries, skipped, chunks, left, planned>>

(* _check_route_parser looks at the first objects below the path of a      *)
(* route, those of nested routes included.                                 *)
Sample(r) ==
  LET Listed == {o \in Objects : object[o].bucket = route[r].bucket /\ Under(route[r].path, object[o].folder)}
  IN  {o \in Listed : Cardinality({p \in Listed : p < o}) < SampleLimit}
ParserMatches(r) == Sample(r) # {} => \E o \in Sample(r) : Select(<<r, o>>) # None

(* run_health_check                                                        *)
CheckHealth ==
  /\ phase = "health"
  /\ phase' = IF \A r \in Routes : ParserMatches(r) THEN "list" ELSE "refused"
  /\ UNCHANGED <<inputs, told, entries, skipped, chunks, left, planned>>

(* _stream_routes_into_store                                               *)
List ==
  /\ phase = "list"
  /\ LET Rows == {e \in Routes \X Objects : e[2] \in Seen(e[1])} IN
     /\ told' = [e \in Rows |-> Select(e)]
     /\ entries' = {e \in Rows : SkipReason(e) = None}
     /\ skipped' = {<<e[1], e[2], SkipReason(e)>> : e \in Rows \ entries'}
  /\ phase' = "commit"
  /\ UNCHANGED <<inputs, chunks, left, planned>>

(* A call or a listing fails; nothing of the manifest is kept.             *)
FailToList ==
  /\ phase \in {"health", "list"}
  /\ phase' = "refused"
  /\ UNCHANGED <<inputs, told, entries, skipped, chunks, left, planned>>

Rebuilt == [g \in Groups |-> ChunksOf(g)]

(* commit and assert_no_duplicate_sources                                  *)
Commit ==
  /\ phase = "commit"
  /\ chunks' = Rebuilt
  /\ left' = [g \in Groups |-> Len(Rebuilt[g])]
  /\ phase' = IF \E d, e \in entries : d # e /\ d[2] = e[2] THEN "refused" ELSE "filter"
  /\ UNCHANGED <<inputs, told, entries, skipped, planned>>

(* _archive_size_filter_needed                                             *)
TooLarge(S) == Estimated(S) > MaxArchive

Filter ==
  /\ phase = "filter"
  /\ planned' = Plan
  /\ phase' = IF \E g \in Groups : \E i \in 1..Len(chunks[g]) : TooLarge(Entries(g, i))
                THEN "drop" ELSE "check"
  /\ UNCHANGED <<inputs, told, entries, skipped, chunks, left>>

(* Mutant: the chunks are taken from the first to the last.                *)
DropChunkForward(g) ==
  /\ phase = "drop" /\ left[g] > 0
  /\ left' = [left EXCEPT ![g] = @ - 1]
  /\ LET S == Slice(g, chunks[g][Len(chunks[g]) + 1 - left[g]])
         Gone == IF TooLarge(S) THEN S ELSE {}
     IN  /\ entries' = entries \ {<<g.route, o>> : o \in Gone}
         /\ skipped' = skipped \cup {<<g.route, o, "archive size">> : o \in Gone}
  /\ UNCHANGED <<inputs, phase, told, chunks, planned>>

(* _drop_chunk_if_oversized, for the chunks of a group from the last to    *)
(* the first.  Groups do not touch each other's entries.                   *)
DropChunk(g) ==
  /\ phase = "drop" /\ left[g] > 0
  /\ left' = [left EXCEPT ![g] = @ - 1]
  /\ LET S == Slice(g, chunks[g][left[g]])
         Gone == IF TooLarge(S) THEN S ELSE {}
     IN  /\ entries' = entries \ {<<g.route, o>> : o \in Gone}
         /\ skipped' = skipped \cup {<<g.route, o, "archive size">> : o \in Gone}
  /\ UNCHANGED <<inputs, phase, told, chunks, planned>>

(* Mutant: the chunks are not rebuilt.                                     *)
FinishDropOnly ==
  /\ phase = "drop" /\ \A g \in DOMAIN left : left[g] = 0
  /\ phase' = "check"
  /\ UNCHANGED <<inputs, told, entries, skipped, chunks, left, planned>>

FinishDrop ==
  /\ phase = "drop" /\ \A g \in DOMAIN left : left[g] = 0
  /\ chunks' = Rebuilt
  /\ left' = [g \in Groups |-> 0]
  /\ phase' = "check"
  /\ UNCHANGED <<inputs, told, entries, skipped, planned>>

CheckDestinations ==
  /\ phase = "check"
  /\ phase' = IF DestinationsClash THEN "refused" ELSE "built"
  /\ UNCHANGED <<inputs, told, entries, skipped, chunks, left, planned>>

Next ==
  \/ Load \/ CheckHealth \/ List \/ FailToList \/ Commit \/ Filter \/ FinishDrop \/ CheckDestinations
  \/ \E g \in DOMAIN left : DropChunk(g)

Spec == Init /\ [][Next]_vars

-----------------------------------------------------------------------------
(* Properties                                                              *)

(* The deepest of the routes whose path an object is under.                *)
Owners(o) ==
  LET Around == {r \in Routes : object[o].bucket = route[r].bucket /\ Under(route[r].path, object[o].folder)}
  IN  {r \in Around : \A s \in Around : Len(route[s].path) <= Len(route[r].path)}

(* Every object below a route's path is accounted for exactly once, in the *)
(* manifest or in the skip report of the deepest such route: nested routes *)
(* neither share an object nor leave one out, nor does the drop lose one   *)
(* (_archive_route_manifest.py:191-210, _archive_manifest_drop.py:65-89).  *)
AccountedFor ==
  phase \notin {"load", "health", "list", "refused"} =>
    \A o \in Objects :
      LET E == {e \in entries : e[2] = o}
          S == {s \in skipped : s[2] = o}
      IN  /\ {e[1] : e \in E} \cup {s[1] : s \in S} = Owners(o)
          /\ Cardinality(E) + Cardinality(S) = Cardinality(Owners(o))

Payload(S) == SumFunctionOnSet([o \in Objects |-> object[o].size], S)
WithinLimits(S) ==
  Cardinality(S) \in 1..MaxObjects /\ (Cardinality(S) = 1 \/ Payload(S) <= MaxBytes)

(* The slices that the copy phase will read, offsets into a query, cover   *)
(* every group without overlap and within the limits, also after a drop    *)
(* has changed what the query returns                                      *)
(* (_archive_manifest_group_queries.py:67-98, 180-209).                    *)
ChunksCover ==
  phase \in {"filter", "check", "built"} =>
    /\ DOMAIN chunks = Groups
    /\ \A g \in Groups :
         LET Parts == [i \in 1..Len(chunks[g]) |-> Entries(g, i)] IN
         /\ Members(g) = UNION {Parts[i] : i \in DOMAIN Parts}
         /\ \A i, j \in DOMAIN Parts : i # j => Parts[i] \cap Parts[j] = {}
         /\ \A i \in DOMAIN Parts : WithinLimits(Parts[i])

(* The drop removes the chunks that were too large when it began, whole,   *)
(* and nothing else, though each deletion shifts the offsets after it      *)
(* (_archive_manifest_drop.py:3-8, 31-45).                                 *)
DropsPlannedChunks ==
  phase \in {"check", "built"} =>
    {<<s[1], s[2]>> : s \in {s \in skipped : s[3] = "archive size"}} =
      UNION {{<<g.route, o>> : o \in UNION {S \in {planned[g][i] : i \in DOMAIN planned[g]} : TooLarge(S)}} :
             g \in DOMAIN planned}

(* "Archive groups whose estimated staged tar size is larger than this are *)
(* skipped" (docs/readme-detailed.md:80).                                  *)
NoneTooLarge ==
  phase = "built" =>
    \A g \in Groups : \A i \in 1..Len(chunks[g]) : ~TooLarge(Entries(g, i))

(* That holds where the payload limit is so far below the archive limit    *)
(* (docs/archive-safety.md:75-77) that only a single object can exceed the *)
(* latter; the drop is done once, and what is left may be cut into larger  *)
(* chunks than before (_archive_route_manifest.py:117-118).                *)
PayloadBelowArchive == Fixed + MaxObjects * (2 * Block) + MaxBytes <= MaxArchive
NoneTooLargeAsAdvised == PayloadBelowArchive => NoneTooLarge

(* What is archived lies in the period that the bounds name, which need    *)
(* not tell their days or months, and what is left out for it does not     *)
(* (archive_date_range.py:25-76, docs/readme-detailed.md:150-166).         *)
RangeIsPeriod ==
  LET Within(day) == /\ From # None => Leading(day, Len(From)) >= Leading(Bound(From, "start"), Len(From))
                     /\ To # None => Leading(day, Len(To)) <= Leading(Bound(To, "start"), Len(To))
  IN  /\ \A e \in entries : Within(TargetDay(e))
      /\ \A s \in skipped : s[3] = "date range" => ~Within(TargetDay(<<s[1], s[2]>>))

(* Taking the longest suffix that looks like a time, again and again,      *)
(* leaves the shortest folder that any reading of the names as times would *)
(* leave (parsers/filename_timestamp.py:87-96, 227-240).                   *)
RootIsShortest ==
  \A e \in entries : route[e[1]].parser \in {"filename_timestamp", "folder_timestamp"} =>
    LET f == object[e[2]].folder
        Times(i, n) == \/ n = 1 /\ IsStamp(f[i])
                       \/ n = 3 /\ LooksLikeDay(f, i)
                       \/ n = 4 /\ LooksLikeDay(f, i) /\ HasHour(f, i)
        Reads[i \in 1..(Len(f) + 1)] ==
          i = Len(f) + 1 \/ \E n \in {1, 3, 4} : i + n <= Len(f) + 1 /\ Times(i, n) /\ Reads[i + n]
    IN  told[e].root = SubSeq(f, 1, Min({i \in 1..(Len(f) + 1) : Reads[i]}) - 1)

(* No object's copy and no archive takes the place of another one of the   *)
(* run, though an archive's key leaves out part of its root                *)
(* (_archive_manifest_builder.py:239-244).                                 *)
OutputsApart ==
  phase = "built" => \A d, e \in entries :
    LET Goes(x) == IF route[x[1]].mode = "direct" THEN {DirectKey(x)}
                   ELSE {ArchiveKey(GroupOf(x), i) : i \in {i \in 1..Len(chunks[GroupOf(x)]) :
                           x[2] \in Entries(GroupOf(x), i)}}
    IN  /\ Cardinality(Goes(d)) = 1
        /\ Goes(d) \cap Goes(e) # {} /\ d # e =>
             GroupOf(d) = GroupOf(e) /\ route[d[1]].mode # "direct"

-----------------------------------------------------------------------------
(* The invariant behind these properties                                   *)

(* What is listed has come through the checks of the settings.             *)
InputsAccepted ==
  phase # "load" /\ (phase = "refused" => entries # {} \/ skipped # {}) =>
    ValidRoutes /\ IsRange(From, To)

NothingListed ==
  phase \in {"load", "health", "list"} => entries = {} /\ skipped = {} /\ chunks = Empty /\ left = Empty

Row(s) == <<s[1], s[2]>>

(* Entries and skipped objects are what their parser made of them.         *)
SelectedSound ==
  /\ \A e \in DOMAIN told : told[e] = Select(e)
  /\ \A e \in entries : e \in DOMAIN told /\ SkipReason(e) = None
  /\ \A s \in skipped :
       /\ Row(s) \in DOMAIN told
       /\ s[3] # "archive size" => s[3] = SkipReason(Row(s))

(* Each object below the routes has one row, in one of the two tables.     *)
RowsSound ==
  phase \notin {"load", "health", "list", "refused"} =>
    /\ entries \cup {Row(s) : s \in skipped} = {e \in Routes \X Objects : e[1] \in Owners(e[2])}
    /\ \A s \in skipped : Row(s) \notin entries
    /\ \A s, t \in skipped : Row(s) = Row(t) => s = t

ChunksCurrent ==
  /\ phase \in {"filter", "check", "built"} => chunks = Rebuilt
  /\ phase = "filter" => \A g \in DOMAIN chunks : left[g] = Len(chunks[g])

DropsLast == phase \in {"commit", "filter"} => \A s \in skipped : s[3] # "archive size"

(* Has the drop removed chunk i of a group, of those that were planned?    *)
Dropped(g, i) == (phase = "drop" => i > left[g]) /\ TooLarge(planned[g][i])

IsPart(g, S) ==
  /\ S # {} /\ S \subseteq Objects /\ WithinLimits(S)
  /\ \A o \in S : <<g.route, o>> \in DOMAIN told /\ GroupOf(<<g.route, o>>) = g

(* The planned chunks of a group are parts of it that do not overlap.      *)
PlannedParts(g) ==
  /\ g.route \in Routes /\ route[g.route].mode # "direct"
  /\ \A i \in DOMAIN planned[g] : IsPart(g, planned[g][i])
  /\ \A i, j \in DOMAIN planned[g] : i # j => planned[g][i] \cap planned[g][j] = {}

Keeps(g, o) == \E i \in DOMAIN planned[g] : o \in planned[g][i] /\ ~Dropped(g, i)
Loses(g, o) == \E i \in DOMAIN planned[g] : o \in planned[g][i] /\ Dropped(g, i)

(* What is left of a group is the planned chunks that were not dropped,    *)
(* and what was dropped is in the skip report.                             *)
PlanSound ==
  phase \in {"drop", "check", "built"} =>
    /\ Groups \subseteq DOMAIN planned
    /\ \A g \in DOMAIN planned :
         PlannedParts(g) /\ \A o \in Objects : o \in Members(g) <=> Keeps(g, o)
    /\ \A r \in Routes, o \in Objects :
         <<r, o, "archive size">> \in skipped <=> \E g \in DOMAIN planned : g.route = r /\ Loses(g, o)

(* While the drop is at work, the slices still to be looked at follow one  *)
(* another and hold what was planned for them.                             *)
DropSound ==
  phase = "drop" =>
    /\ DOMAIN chunks = DOMAIN planned
    /\ \A g \in DOMAIN planned :
         /\ DOMAIN planned[g] = 1..Len(chunks[g])
         /\ \A i \in 1..left[g] : Slice(g, chunks[g][i]) = planned[g][i]
         /\ \A i, j \in 1..Len(chunks[g]) :
              i < j => chunks[g][i].offset + chunks[g][i].length <= chunks[g][j].offset

NoneClash == phase = "built" => ~DestinationsClash

BuildInv ==
  /\ TypeOK /\ InputsAccepted /\ NothingListed /\ SelectedSound /\ RowsSound
  /\ ChunksCurrent /\ DropsLast /\ PlanSound /\ DropSound /\ NoneClash
=============================================================================
