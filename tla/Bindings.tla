------------------------------ MODULE Bindings ------------------------------
(***************************************************************************)
(* Which tensor stands behind each value of a plan: memory.assign_storage  *)
(* gives every value a binding, compiler._RuntimeState resolves bindings   *)
(* to tensors on every call, in full or from the pointers of a few roots.  *)
(*                                                                         *)
(* A graph g has values g.values; sequences g.inputs and g.outputs; the    *)
(* inputs that are parameters or are written in place, g.parameters and    *)
(* g.mutated; regions, a sequence of [reads, writes], sequences of values. *)
(* g.alias[v] is the value v is a view of, or v; g.offset[v] its place in  *)
(* the storage of the value its views go back to; g.place[v] its place in  *)
(* the workspace, which Workspace.tla is about.                            *)
(*                                                                         *)
(* A tensor is [storage, start], where its data begin; one a caller passes *)
(* also has an id, for the object it is.  An address is <<storage, place>>,*)
(* a storage a pair of a name and the call that made it, or 0.             *)
(***************************************************************************)
EXTENDS Integers, Sequences, FiniteSets, SequencesExt

Pointer(tensor) == <<tensor.storage, tensor.start>>

(* The entries of f, and those of g that f has none for.                   *)
Over(f, g) == [x \in DOMAIN f \cup DOMAIN g |-> IF x \in DOMAIN f THEN f[x] ELSE g[x]]

(* The views from v upward, as far as there can be any.                    *)
Upward(g, v) ==
  LET up[k \in 0 .. Cardinality(g.values)] == IF k = 0 THEN v ELSE g.alias[up[k - 1]]
  IN  up

(* A value that is no view of another is its own.                          *)
IsTop(g, v, n) ==
  LET up == Upward(g, v)
  IN  g.alias[up[n]] = up[n] /\ \A k \in 0 .. n - 1 : g.alias[up[k]] # up[k]

Height(g, v) == CHOOSE n \in 0 .. Cardinality(g.values) : IsTop(g, v, n)

(* Views v goes back to, v among them, nearest first.                      *)
Ancestry(g, v) == LET up == Upward(g, v) IN [k \in 1 .. Height(g, v) + 1 |-> up[k - 1]]

(* _storage_root *)
StorageRoot(g, v) == Upward(g, v)[Height(g, v)]

-----------------------------------------------------------------------------
(* The bindings of a plan. *)

(* _aliases_boundary: v, or a value it is a view of, is passed in or out.  *)
AliasesBoundary(g, v) == ToSet(Ancestry(g, v)) \cap (ToSet(g.inputs) \cup ToSet(g.outputs)) # {}

(* _output_storage_roots: values that lie behind an output.                *)
OutputStorageRoots(g) ==
  UNION {ToSet(Tail(Ancestry(g, v))) : v \in ToSet(g.outputs)}

Binding(v, kind) == [value |-> v, kind |-> kind]

(* assign_storage: values a region makes for other regions.                *)
RegionBindings(g) ==
  LET Made(r) == SelectSeq(g.regions[r].writes, LAMBDA v : ~ AliasesBoundary(g, v))
      Kind(v) == IF v \in OutputStorageRoots(g) THEN "output" ELSE "workspace"
      Of(r)   == [i \in DOMAIN Made(r) |-> Binding(Made(r)[i], Kind(Made(r)[i]))]
  IN  FlattenSeq([r \in DOMAIN g.regions |-> Of(r)])

(* _boundary_bindings: inputs, parameters once more as such, outputs, and  *)
(* the views of them that regions read or write.                           *)
BoundaryBindings(g) ==
  LET InputKind(v) == IF v \in g.mutated THEN "state" ELSE "input"
      made  == UNION {ToSet(g.regions[r].writes) : r \in DOMAIN g.regions}
      ports == ToSet(g.inputs) \cup ToSet(g.outputs)
      read  == FlattenSeq([r \in DOMAIN g.regions |->
                 SelectSeq(g.regions[r].reads, LAMBDA v : v \notin made \cup ports)])
      bound == ports \cup ToSet(read)
      written == FlattenSeq([r \in DOMAIN g.regions |->
                   SelectSeq(g.regions[r].writes,
                             LAMBDA v : v \notin bound /\ AliasesBoundary(g, v))])
      Each(values, KindOf(_)) == [i \in DOMAIN values |-> Binding(values[i], KindOf(values[i]))]
  IN     Each(g.inputs, InputKind)
      \o Each(SelectSeq(g.inputs, LAMBDA v : v \in g.parameters), LAMBDA v : "parameter")
      \o Each(g.outputs, LAMBDA v : "output")
      \o Each(read, LAMBDA v : "alias")
      \o Each(written, LAMBDA v : "alias")

(* _deduplicate_bindings: the first of several of one value and kind.      *)
MakeBindings(g) ==
  FoldLeft(LAMBDA unique, binding :
             IF binding \in ToSet(unique) THEN unique ELSE Append(unique, binding),
           <<>>, RegionBindings(g) \o BoundaryBindings(g))

(* Each binding has a slot of the address table, and behind the slots each *)
(* phase has a column for every operand, which repeats the address of the  *)
(* operand's slot; rows of fewer operands are padded.                      *)
(* _tensor_name: a value's first slot.                                     *)
Slot(bindings, v) == SelectInSeq(bindings, LAMBDA b : b.value = v)

None == 0

Columns(g, bindings) ==
  LET Operands(r) == g.regions[r].reads \o g.regions[r].writes
      width == Max({Len(Operands(r)) : r \in DOMAIN g.regions})
      Row(r) == [c \in 1 .. width |->
                   IF c <= Len(Operands(r)) THEN Slot(bindings, Operands(r)[c]) ELSE None]
  IN  FlattenSeq([r \in DOMAIN g.regions |-> Row(r)])

(* What the device table of a plan is made of, and the places of it that   *)
(* are sent to the kernel anew on every call; the others are uploaded when *)
(* they change.                                                            *)
MakePlan(g) == [graph |-> g, bindings |-> MakeBindings(g), columns |-> Columns(g, MakeBindings(g))]

Places(p) == 1 .. (Len(p.bindings) + Len(p.columns))
ColumnPlaces(p) == {Len(p.bindings) + c : c \in {k \in DOMAIN p.columns : p.columns[k] # None}}

(* The slot a place repeats; padding repeats the first.                    *)
SlotAt(p, place) ==
  IF place <= Len(p.bindings) THEN place
  ELSE LET slot == p.columns[place - Len(p.bindings)] IN IF slot = None THEN 1 ELSE slot

DynamicKinds == {"input", "state", "output", "alias"}
DynamicPlaces(p) ==
  {place \in DOMAIN p.bindings \cup ColumnPlaces(p) :
     p.bindings[SlotAt(p, place)].kind \in DynamicKinds}

-----------------------------------------------------------------------------
(* One full binding. *)

(* _alias_storage_offset and as_strided: the view v of a tensor that backs *)
(* base.                                                                   *)
View(g, v, base, tensor) ==
  [storage |-> tensor.storage, start |-> tensor.start + g.offset[v] - g.offset[base]]

(* The nearest value of known that v is or is a view of, if there is one.  *)
Nearest(g, v, known) ==
  LET views == Ancestry(g, v)
      k == SelectInSeq(views, LAMBDA base : base \in known)
  IN  IF k = 0 THEN <<>> ELSE <<views[k]>>

(* _internal_alias: the bound value v is taken from, the one whose storage *)
(* it lies in or else the nearest it is a view of.                         *)
InternalAlias(g, v, known) ==
  IF StorageRoot(g, v) \in known \ {v} THEN <<StorageRoot(g, v)>> ELSE Nearest(g, v, known \ {v})

(* _boundary_alias: the input it is taken from.                            *)
BoundaryAlias(g, v, inputs) == Nearest(g, v, DOMAIN inputs)

(* The workspace tensor of a value, and an output made for this call.      *)
WorkspaceTensor(g, v) == [storage |-> <<"workspace", 0>>, start |-> g.place[v]]
Allocated(v, call)    == [storage |-> <<v, call>>, start |-> 0]

(* The tensor of a binding, given those of the values bound before it.     *)
TensorOf(g, inputs, call, values, b) ==
  LET internal == InternalAlias(g, b.value, DOMAIN values)
      boundary == BoundaryAlias(g, b.value, inputs)
  IN  CASE b.kind = "workspace" -> WorkspaceTensor(g, b.value)
        [] b.kind \in {"input", "parameter", "state"} -> inputs[b.value]
        [] b.kind \in {"alias", "output"} /\ internal # <<>> ->
             View(g, b.value, internal[1], values[internal[1]])
        [] b.kind \in {"alias", "output"} /\ internal = <<>> /\ boundary # <<>> ->
             View(g, b.value, boundary[1], inputs[boundary[1]])
        [] OTHER -> Allocated(b.value, call)

IsAllocated(g, inputs, values, b) ==
  /\ b.kind = "output"
  /\ InternalAlias(g, b.value, DOMAIN values) = <<>> /\ BoundaryAlias(g, b.value, inputs) = <<>>

NothingBound == [values |-> <<>>, allocated |-> {}]

Bind(g, inputs, call, state, b) ==
  [values    |-> Over([v \in {b.value} |-> TensorOf(g, inputs, call, state.values, b)], state.values),
   allocated |-> state.allocated
                   \cup (IF IsAllocated(g, inputs, state.values, b) THEN {b.value} ELSE {})]

(* _refresh_values: after k bindings, a tensor for each value bound and the*)
(* outputs that were allocated.  (An alias that is none raises.)           *)
Refreshed(g, bindings, inputs, call) ==
  LET state[k \in 0 .. Len(bindings)] ==
        IF k = 0 THEN NothingBound ELSE Bind(g, inputs, call, state[k - 1], bindings[k])
  IN  state

RefreshValues(g, bindings, inputs, call) ==
  Refreshed(g, bindings, inputs, call)[Len(bindings)]

-----------------------------------------------------------------------------
(* Binding from roots. *)

(* _prepare_table_rebind, for one value: the root tensor its storage is    *)
(* that of, an input, an allocated output or the workspace.                *)
Root(g, bindings, bound, v) ==
  LET workspace == {b.value : b \in {c \in ToSet(bindings) : c.kind = "workspace"}}
      index     == ToSet(g.inputs) \cup bound.allocated
      root      == StorageRoot(g, v)
  IN  CASE {v, root} \cap workspace # {} -> <<"workspace">>
        [] {v, root} \cap workspace = {} /\ v \in index -> <<v>>
        [] {v, root} \cap workspace = {} /\ v \notin index /\ root \in index -> <<root>>
        [] OTHER -> <<>>

RootPointer(bound, root) ==
  IF root = "workspace" THEN <<<<"workspace", 0>>, 0>> ELSE Pointer(bound.values[root])

(* Values that have a root which shares their storage.                     *)
Traced(g, bindings, bound) ==
  \A v \in {b.value : b \in ToSet(bindings)} :
    LET root == Root(g, bindings, bound, v)
    IN  root # <<>> /\ RootPointer(bound, root[1])[1] = bound.values[v].storage

(* No call has bound anything yet.                                         *)
Unbound == [traced |-> FALSE]

(* What the runtime state keeps of a full binding: the objects it was made *)
(* from, the call, whether later calls can go by roots, each root's        *)
(* pointer, and each slot's root, distance and address.                    *)
FullRebind(g, bindings, inputs, call) ==
  LET bound == RefreshValues(g, bindings, inputs, call)
      traced == Traced(g, bindings, bound)
      RootOf(i) == Root(g, bindings, bound, bindings[i].value)[1]
      roots == ToSet(g.inputs) \cup bound.allocated \cup {"workspace"}
      Start(i) == bound.values[bindings[i].value].start
  IN  [inputs    |-> inputs,
       call      |-> call,
       traced    |-> traced,
       allocated |-> bound.allocated,
       pointers  |-> [root \in roots |-> RootPointer(bound, root)],
       slots     |-> IF traced THEN [i \in DOMAIN bindings |->
                       [root |-> RootOf(i), distance |-> Start(i) - RootPointer(bound, RootOf(i))[2]]]
                     ELSE <<>>,
       addresses |-> [i \in DOMAIN bindings |-> Pointer(bound.values[bindings[i].value])]]

(* Fault: a tensor is taken for the earlier one if its storage is.         *)
RereadNewStorage(known, inputs) ==
  [root \in DOMAIN known.pointers |->
     IF root \in DOMAIN inputs /\ inputs[root].storage # known.inputs[root].storage
       THEN Pointer(inputs[root]) ELSE known.pointers[root]]

(* The pointers of inputs passed as new objects are read again.            *)
Reread(known, inputs) ==
  [root \in DOMAIN known.pointers |->
     IF root \in DOMAIN inputs /\ inputs[root].id # known.inputs[root].id
       THEN Pointer(inputs[root]) ELSE known.pointers[root]]

(* _fast_table_rebind: new pointers for such inputs and for outputs, the   *)
(* known distances for the rest.                                           *)
FastRebind(known, inputs, call) ==
  LET read == Reread(known, inputs)
      pointers == [root \in DOMAIN read |->
                     IF root \in known.allocated THEN Pointer(Allocated(root, call)) ELSE read[root]]
      Address(i) == LET slot == known.slots[i]
                    IN  <<pointers[slot.root][1], pointers[slot.root][2] + slot.distance>>
  IN  [inputs    |-> inputs,
       call      |-> call,
       traced    |-> known.traced,
       allocated |-> known.allocated,
       pointers  |-> pointers,
       slots     |-> known.slots,
       addresses |-> [i \in DOMAIN known.slots |-> Address(i)]]

(* rebind *)
Rebind(g, bindings, known, inputs, call) ==
  IF known.traced THEN FastRebind(known, inputs, call)
  ELSE FullRebind(g, bindings, inputs, call)

-----------------------------------------------------------------------------

(* Where a value is, by what it means: at its place in the storage of the  *)
(* value its views go back to.                                             *)
OwnerTensor(p, owner, inputs, call) ==
  IF owner \in DOMAIN inputs THEN inputs[owner]
  ELSE IF Binding(owner, "workspace") \in ToSet(p.bindings) THEN WorkspaceTensor(p.graph, owner)
  ELSE Allocated(owner, call)

Meant(p, v, inputs, call) ==
  LET owner  == StorageRoot(p.graph, v)
      tensor == OwnerTensor(p, owner, inputs, call)
  IN  <<tensor.storage, tensor.start + p.graph.offset[v] - p.graph.offset[owner]>>

-----------------------------------------------------------------------------
(* What a plan has to be like for its values to be bound where they are    *)
(* meant to be.                                                            *)

(* No value is a view of itself through others, and inputs are of nothing. *)
GraphSound(g) ==
  /\ IsFiniteSet(g.values) /\ "workspace" \notin g.values
  /\ g.alias \in [g.values -> g.values]
  /\ g.offset \in [g.values -> Int] /\ g.place \in [g.values -> Int]
  /\ \A v \in g.values :
       \E n \in 0 .. Cardinality(g.values) : g.alias[Upward(g, v)[n]] = Upward(g, v)[n]
  /\ ToSet(g.inputs) \subseteq g.values /\ \A v \in ToSet(g.inputs) : g.alias[v] = v

Kinds == {"input", "parameter", "state", "workspace", "alias", "output"}

(* An alias or output is in the storage of an input or of a value bound    *)
(* before it, or is an output of its own; a workspace value that is a view *)
(* is placed in what it is a view of.                                      *)
BindingSound(p, i) ==
  LET v     == p.bindings[i].value
      kind  == p.bindings[i].kind
      owner == StorageRoot(p.graph, v)
  IN  /\ kind \in {"input", "parameter", "state"} => v \in ToSet(p.graph.inputs)
      /\ kind = "workspace" =>
           /\ Binding(owner, "workspace") \in ToSet(p.bindings) /\ owner \notin ToSet(p.graph.inputs)
           /\ p.graph.place[v] = p.graph.place[owner] + p.graph.offset[v] - p.graph.offset[owner]
      /\ kind \in {"alias", "output"} =>
           /\ Binding(v, "workspace") \notin ToSet(p.bindings)
           /\ \/ owner \in ToSet(p.graph.inputs)
              \/ owner # v /\ \E j \in 1 .. i - 1 : p.bindings[j].value = owner
              \/ owner = v /\ kind = "output"

(* Operands are in slots that are sent with every call or never change.    *)
PlanSound(p) ==
  /\ GraphSound(p.graph)
  /\ p.bindings \in Seq([value : p.graph.values, kind : Kinds]) /\ p.bindings # <<>>
  /\ ToSet(p.graph.inputs) \subseteq {p.bindings[i].value : i \in DOMAIN p.bindings}
  /\ \A i \in DOMAIN p.bindings : BindingSound(p, i)
  /\ p.columns \in Seq({None} \cup DOMAIN p.bindings)
  /\ \A k \in DOMAIN p.columns :
       p.columns[k] # None => p.bindings[p.columns[k]].kind \in DynamicKinds \cup {"workspace"}

=============================================================================
