---------------------------- MODULE EventSchedule ----------------------------
(***************************************************************************)
(* Event schedules: make_region_event_schedule, which the compiler uses,   *)
(* and make_event_schedule, where a task is one output tile and waits only *)
(* for the tiles its own inputs overlap.                                   *)
(*                                                                         *)
(* A graph may carry tile maps in g.regions (TileMaps); g.tiles and        *)
(* g.reads are then theirs.  A schedule is [tasks, prerequisites]: a       *)
(* sequence of [region, worker, tiles] in the common order, and a set of   *)
(* pairs of a consumer task and the set of tasks it waits for.  Tasks go   *)
(* by their place in the order.  One event stands for each distinct set of *)
(* producers and triggers at its size, so the set names the event.         *)
(***************************************************************************)
EXTENDS Workspace, TileMaps

Events(schedule)      == {p[2] : p \in schedule.prerequisites}
Waits(schedule, t)    == {p[2] : p \in {q \in schedule.prerequisites : q[1] = t}}
Releases(schedule, t) == {e \in Events(schedule) : t \in e}

TasksOf(tasks, r) == {t \in DOMAIN tasks : tasks[t].region = r}

(* The tasks a worker walks, in the common order.                          *)
WorkerTasks(tasks, worker) ==
  Ascending({t \in DOMAIN tasks : tasks[t].worker = worker})

-----------------------------------------------------------------------------
(* Region events. *)

(* One task for each phase and worker.  The tiles are those the device     *)
(* loop deals the worker, round robin.                                     *)
RegionTasks(s, workers) ==
  [t \in 1 .. Len(s.order) * workers |->
     LET r == s.order[(t - 1) \div workers + 1]
         c == (t - 1) % workers
     IN  [region |-> r,
          worker |-> c,
          tiles  |-> Ascending({i \in 0 .. s.graph.tiles[r] - 1 : i % workers = c})]]

(* Every task of a region waits for every task of each prerequisite.       *)
MakeRegionEventSchedule(s, workers) ==
  LET tasks == RegionTasks(s, workers)
  IN  [tasks |-> tasks,
       prerequisites |->
         UNION {{<<t, TasksOf(tasks, p)>> : p \in Prerequisites(s.graph, tasks[t].region)} :
                  t \in DOMAIN tasks}]

-----------------------------------------------------------------------------
(* Tile events. *)

TileTasks(s, workers) ==
  LET tiles == FlattenSeq([i \in DOMAIN s.order |->
                 [k \in 1 .. s.graph.tiles[s.order[i]] |-> <<s.order[i], k - 1>>]])
  IN  [t \in DOMAIN tiles |->
         [region |-> tiles[t][1], worker |-> (t - 1) % workers, tiles |-> <<tiles[t][2]>>]]

TileMap(g, r) == MakeTileMap(g.regions[r])

(* _logical_tiles_overlap, split: whether boxes of one view can be compared*)
(* at all, and whether they meet.                                          *)
Comparable(a, b) == a.view = b.view

Overlap(a, b) ==
  \A d \in DOMAIN a.origin :
    Max({a.origin[d], b.origin[d]})
      < Min({a.origin[d] + a.extent[d], b.origin[d] + b.extent[d]})

(* The box of value v that an access names: its first load of v.           *)
ReadBox(access, v) ==
  access.inputs[Min({l \in DOMAIN access.inputs : access.inputs[l].value = v})].box

(* _tile_dependency: the axis along which the producer's tiles start at    *)
(* the most places; the first of several.                                  *)
Places(boxes, d) == Cardinality({box.origin[d] : box \in boxes})
Rank(boxes)      == Len((CHOOSE box \in boxes : TRUE).origin)

SeparatingAxis(boxes) ==
  Min({d \in 1 .. Rank(boxes) : \A e \in 1 .. Rank(boxes) : Places(boxes, d) >= Places(boxes, e)})

(* The producer tiles that start in a window in front of the end of a box. *)
Window(boxes, read, axis, longest) ==
  {box \in boxes : /\ box.origin[axis] >= read.origin[axis] - longest + 1
                   /\ box.origin[axis] < read.origin[axis] + read.extent[axis]}

(* The producer tiles whose overlap with a consumer's box is looked at:    *)
(* those in the window along that axis, or all of them if the ranks differ.*)
Candidates(boxes, read, axis) ==
  IF Len(read.origin) # Rank(boxes) THEN boxes
  ELSE Window(boxes, read, axis, Max({box.extent[axis] : box \in boxes}))

(* The record of a producer and a reader of its value: the producer tiles  *)
(* concerned, and whether the analysis gave up on telling.                 *)
DependencyRecord(outputs, examined) ==
  IF \A pair \in examined : \A box \in pair[2] : Comparable(box, pair[1])
    THEN [conservative |-> FALSE,
          producers |-> UNION {{box \in pair[2] : Overlap(box, pair[1])} : pair \in examined}]
    ELSE [conservative |-> TRUE, producers |-> outputs]

ExaminedBoxes(outputs, reads, axis) == {<<read, Candidates(outputs, read, axis)>> : read \in reads}

RecordOf(outputs, reads) ==
  DependencyRecord(outputs, ExaminedBoxes(outputs, reads, SeparatingAxis(outputs)))

TileDependency(g, p, r) ==
  RecordOf({entry.output : entry \in Range(TileMap(g, p))},
           {ReadBox(access, p) : access \in Range(TileMap(g, r))})

(* _tile_prerequisites, for one reader tile and one value: the producer    *)
(* tiles it overlaps; all of them if that cannot be told.                  *)
TilesMet(conservative, producers, read) ==
  {u[1] : u \in IF conservative \/ \E v \in producers : ~ Comparable(v[2], read) THEN producers
                ELSE {v \in producers : Overlap(v[2], read)}}

OverlappingTasks(g, tasks, t, p) ==
  TilesMet(TileDependency(g, p, tasks[t].region).conservative,
           {<<u, OutputTile(g.regions[p], tasks[u].tiles[1])>> : u \in TasksOf(tasks, p)},
           ReadBox(TileMap(g, tasks[t].region)[tasks[t].tiles[1]], p))

(* Pairs of regions in a storage-order dependency, which keeps no tiles.   *)
StorageOrder(g) ==
  {d \in Regions(g) \X Regions(g) :
     /\ d[1] < d[2]
     /\ StorageWritten(g, d[2]) \cap (StorageWritten(g, d[1]) \cup StorageRead(g, d[1])) # {}}

MakeEventSchedule(s, workers) ==
  LET g     == s.graph
      tasks == TileTasks(s, workers)
  IN  [tasks |-> tasks,
       prerequisites |->
         UNION {{<<t, OverlappingTasks(g, tasks, t, p)>> : p \in g.reads[tasks[t].region] \ {0}} :
                  t \in DOMAIN tasks}
         \cup UNION {{<<t, TasksOf(tasks, p)>> :
                           p \in {q \in Regions(g) : <<q, tasks[t].region>> \in StorageOrder(g)}} :
                  t \in DOMAIN tasks}]

-----------------------------------------------------------------------------

(* _verify_event_schedule: every event has producers, all of them in front *)
(* of its consumers in the common order.                                   *)
VerifyEventSchedule(schedule) ==
  \A p \in schedule.prerequisites : p[2] # {} /\ Max(p[2]) < p[1]

(* The dependency records, which look at a window of producer tiles, and   *)
(* the prerequisites, which look at all, name the same tiles.              *)
RecordsMatchPrerequisites(s, schedule) ==
  \A r \in Regions(s.graph) : \A p \in s.graph.reads[r] \ {0} :
    LET waited == UNION {OverlappingTasks(s.graph, schedule.tasks, t, p) :
                           t \in TasksOf(schedule.tasks, r)}
    IN  TileDependency(s.graph, p, r).producers
          = {OutputTile(s.graph.regions[p], schedule.tasks[u].tiles[1]) : u \in waited}

(* What a task must not start before, by the elements it touches: the      *)
(* tasks that write an element one of its tiles reads, and, where it       *)
(* writes storage in place, the earlier tasks that use that storage.       *)
Touches(g, consumer, producer) ==
  LET region == g.regions[consumer.region]
  IN  \E l \in DOMAIN region.loads :
        /\ region.loads[l].value = producer.region
        /\ \E i \in ToSet(consumer.tiles), k \in ToSet(producer.tiles) :
             ElementsRead(region, region.loads[l], i)
               \cap Elements(OutputTile(g.regions[producer.region], k)) # {}

Needs(g, tasks) ==
  [t \in DOMAIN tasks |->
     {u \in DOMAIN tasks : \/ Touches(g, tasks[t], tasks[u])
                           \/ <<tasks[u].region, tasks[t].region>> \in StorageOrder(g)}]

=============================================================================
