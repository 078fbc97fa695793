------------------------------ MODULE TileMaps ------------------------------
(***************************************************************************)
(* planner.make_tile_maps: the tiles a region's body computes, and the box *)
(* of each input that a tile reads.                                        *)
(*                                                                         *)
(* A region is [shape, partition, size, rows, loads]: the shape of its     *)
(* output; how its body cuts it ("elements": runs of at most size          *)
(* elements; "rows": a reduction, with size 1 along the axes in rows;      *)
(* "cta": tiles of the shape size); and a sequence of loads.  A load is    *)
(* [value, view, axes]: the value it reads, the shape it sees it in, and   *)
(* one axis for each dimension of that view.  Coordinates count from zero. *)
(***************************************************************************)
EXTENDS Integers, Sequences, FiniteSets, SequencesExt

Product(sizes) == FoldLeft(LAMBDA a, b : a * b, 1, sizes)

(* The axes of a load.  An affine axis has one term here: the coordinate   *)
(* divided, reduced where the modulus is not zero, scaled, and offset.     *)
OutputAxis(dimension) == [kind |-> "output", dimension |-> dimension]
ReducedAxis(extent)   == [kind |-> "reduced", extent |-> extent]
FixedAxis(position)   == [kind |-> "fixed", position |-> position]
DataAxis              == [kind |-> "data"]
AffineAxis(dimension, divisor, modulus, scale, offset) ==
  [kind |-> "affine", dimension |-> dimension, divisor |-> divisor,
   modulus |-> modulus, scale |-> scale, offset |-> offset]

Term(axis, coordinate) ==
  LET quotient == coordinate \div axis.divisor
      reduced  == IF axis.modulus = 0 THEN quotient ELSE quotient % axis.modulus
  IN  axis.offset + reduced * axis.scale

-----------------------------------------------------------------------------
(* Output tiles. *)

(* _row_major_tile_shape: whole trailing dimensions for as long as the     *)
(* element limit lasts.                                                    *)
RowMajorTileShape(shape, limit) ==
  LET Step(state, d) ==
        LET extent == Min({shape[d], state.remaining})
        IN  IF state.full
              THEN [sizes     |-> [state.sizes EXCEPT ![d] = extent],
                    remaining |-> state.remaining \div extent,
                    full      |-> extent = shape[d]]
              ELSE state
  IN  FoldLeft(Step, [sizes |-> [d \in DOMAIN shape |-> 1], remaining |-> limit, full |-> TRUE],
               Reverse([d \in DOMAIN shape |-> d])).sizes

(* _output_tile_shape                                                      *)
OutputTileShape(region) ==
  CASE region.partition = "rows"     -> [d \in DOMAIN region.shape |->
                                           IF d \in region.rows THEN 1 ELSE region.shape[d]]
    [] region.partition = "elements" -> RowMajorTileShape(region.shape, region.size)
    [] region.partition = "cta"      -> region.size

(* TileGrid: tiles in row-major order, by their origins.                   *)
Counts(shape, size) ==
  [d \in DOMAIN shape |-> (shape[d] + size[d] - 1) \div size[d]]

TileCount(region) == Product(Counts(region.shape, OutputTileShape(region)))

TileOrigin(counts, size, tile) ==
  LET Inner(d) == Product(SubSeq(counts, d + 1, Len(counts)))
  IN  [d \in DOMAIN counts |-> ((tile \div Inner(d)) % counts[d]) * size[d]]

Origin(region, tile) ==
  TileOrigin(Counts(region.shape, OutputTileShape(region)), OutputTileShape(region), tile)

(* _logical_tile: a box, clipped to the shape it lies in; the shape goes   *)
(* with it.                                                                *)
LogicalTile(shape, origin, size) ==
  [view   |-> shape,
   origin |-> origin,
   extent |-> [d \in DOMAIN shape |-> Min({size[d], shape[d] - origin[d]})]]

OutputTile(region, tile) ==
  LogicalTile(region.shape, Origin(region, tile), OutputTileShape(region))

-----------------------------------------------------------------------------
(* Input tiles. *)

(* _affine_bounds: the values at the two ends of the output tile.          *)
AffineBounds(axis, first, last) ==
  LET ends == {Term(axis, first), Term(axis, last)}
  IN  <<Min(ends), Max(ends)>>

(* The part of a view's extent between two bounds: <<origin, size>>.       *)
ClippedSpan(bounds, extent) ==
  IF bounds[2] < 0 \/ bounds[1] >= extent THEN <<0, 1>>
  ELSE <<Max({bounds[1], 0}), Max({bounds[2] - Max({bounds[1], 0}) + 1, 1})>>

(* _input_tile, one dimension: <<origin, size>> of what an output tile     *)
(* at an origin reads along an axis.                                       *)
InputSpan(axis, extent, origin, size) ==
  CASE axis.kind = "data"    -> <<0, extent>>
    [] axis.kind = "fixed"   -> <<axis.position, 1>>
    [] axis.kind = "output"  -> <<origin[axis.dimension], size[axis.dimension]>>
    [] axis.kind = "reduced" -> <<0, axis.extent>>
    [] axis.kind = "affine"  ->
         ClippedSpan(AffineBounds(axis, origin[axis.dimension],
                                  origin[axis.dimension] + size[axis.dimension] - 1), extent)

SpannedTile(view, span) ==
  LogicalTile(view, [d \in DOMAIN view |-> span[d][1]], [d \in DOMAIN view |-> span[d][2]])

InputTile(load, origin, size) ==
  SpannedTile(load.view, [d \in DOMAIN load.view |->
                            InputSpan(load.axes[d], load.view[d], origin, size)])

(* _make_tile_map: each tile with the box it writes and the boxes it reads.*)
MakeTileMap(region) ==
  [tile \in 0 .. TileCount(region) - 1 |->
     [output |-> OutputTile(region, tile),
      inputs |-> [l \in DOMAIN region.loads |->
                    [value |-> region.loads[l].value,
                     box   |-> InputTile(region.loads[l], Origin(region, tile),
                                          OutputTileShape(region))]]]]

-----------------------------------------------------------------------------
(* What the boxes stand for: the elements a tile really touches, numbered  *)
(* in row-major order so that two views of one value compare.              *)

Points(box) ==
  {point \in [DOMAIN box.view -> 0 .. Max(ToSet(box.view))] :
     \A d \in DOMAIN box.view : point[d] \in box.origin[d] .. box.origin[d] + box.extent[d] - 1}

Element(view, point) ==
  FoldLeft(LAMBDA sum, d : sum * view[d] + point[d], 0, [d \in DOMAIN view |-> d])

Elements(box) == {Element(box.view, point) : point \in Points(box)}

(* The coordinates along a dimension that the element at point reads;      *)
(* those an affine axis takes out of the array are masked.                 *)
Coordinates(load, point, d) ==
  LET axis == load.axes[d]
  IN  (CASE axis.kind = "data"    -> 0 .. load.view[d] - 1
         [] axis.kind = "fixed"   -> {axis.position}
         [] axis.kind = "output"  -> {point[axis.dimension]}
         [] axis.kind = "reduced" -> 0 .. axis.extent - 1
         [] axis.kind = "affine"  -> {Term(axis, point[axis.dimension])})
      \cap 0 .. load.view[d] - 1

ElementsRead(region, load, tile) ==
  UNION {{Element(load.view, source) :
            source \in {s \in [DOMAIN load.view -> 0 .. Max(ToSet(load.view))] :
                          \A d \in DOMAIN load.view : s[d] \in Coordinates(load, point, d)}} :
         point \in Points(OutputTile(region, tile))}

=============================================================================
