# Phylanx in TLA+

Phylanx turns Python functions into PhySL, an expression language, compiles
PhySL into trees of *primitives*, and evaluates the trees with HPX tasks, on one
locality or on many.  This directory holds TLA+ modules for the parts of it that
keep state, configurations that model-check them, and proofs.  Paths below are
relative to the repository.

## The system and its parts

| component | state | operations | interacts with | hard behaviour | correct when |
|---|---|---|---|---|---|
| variables and storage (`src/execution_tree/primitives/variable.cpp`, ...) | two values of every variable, the arrays they own or refer to | define, evaluate, store, sliced store | every expression; other tasks between the operands of an expression | references that outlive what they refer to, tests made before an operand is evaluated and used after | variables behave as independent values |
| slicing (`slice_node_data_*.hpp`) | none, writes through views | read and assign slices | variables | in-place normalization of indices, boundary indices | reading does not write, bounds are respected |
| functions and contexts (`primitive_argument_type.hpp`, `lambda.cpp`, `function.cpp`, ...) | stack of variable frames, captured contexts | get_var, set_var, call, capture | variables, compiler | dynamic scoping, captured frames, evaluation on another locality, concurrent insertion | a search ends at the definition the compiler found, a global is visible everywhere |
| primitive components (`primitive_component_base.cpp`) | counters, direct-execution state | eval, queries of counters | HPX scheduler, performance counters | plain counters shared by tasks, reset between a test and a division, timers that move into continuations | the division is guarded, nothing is counted twice |
| compiler (`compiler/*.cpp`) | environments, numbering of parameters, snippets | define, look up, compile | contexts, function values | parameters numbered through nested functions, arguments kept by function values | names resolve to the definition in scope, parameters read what was given |
| distributed data (`phylanx/util/distributed_*.hpp`) | a part per site, names in AGAS, cached part ids | construct, fetch, destroy | AGAS, collectives, distributed operations | sites drift apart, names are reused, data goes out of scope | a fetch returns the part of its own evaluation |
| distributed operations (`plugins/dist_matrixops`) | tiles of the operands, barriers | dot, inverse, retile, gather, ... | distributed data, annotations | remote reads against local updates | every site computes its tile of the result of the whole operation |
| annotations (`*annotation*.cpp`) | localities, tiles, generation | gather, validate, project | distributed operations | overlapping and empty tiles, a site that refuses alone | the annotation fits the data, tiles cover the array |
| control primitives (`plugins/controls`) | none, futures in flight | fold, map, loop, parallel block | functions, contexts | order of asynchronous results | results in the order of the elements |
| values and lists (`ir/*.cpp`, `plugins/listops`) | arrays, references, ranges | copy, refer, iterate, cut, insert, slice | everything | references, negative steps, a representation that depends on history | a list holds what was put there, and as much as its size says |
| Python runtime (`python/src/init_hpx.cpp`) | the runtime pointer | start, stop | GIL, HPX | two threads starting at once | one runtime at most |
| front end, parser, numerical kernels, I/O | none to speak of | | | | not modelled |

`PROJECT.json` lists the components with their files, the hazards with the line
where each bites, and the properties that watch over them.

## Modules

### Variable, ValueStore

`Variable` models the `variable` primitive with `define`, `define_global`,
`store` and slices of vectors.  `operand0`, `bound_value` and `value_set` are
the members `operands_[0]`, `bound_value_` and `value_set_`; `heap` holds the
Blaze arrays that variables own.  A value is owned (`Own`), a raw reference
(`Ref`, what `extract_ref_value` makes) or a primitive still to be evaluated.
`ops` is what the expressions of a task have evaluated and not yet used, and
`pending` the sliced stores whose index is being evaluated (`store1dslice`
evaluates the index between its test and its use).  Actions are named for the
operation and its outcome: `DefineNil`, `DefineLiteral`, `DefineExpression`,
`RebindExpression` and `RebindValue` (a global declared again),
`StoreInitial`, `Store`, `SliceStoreBegin`, `SliceStoreEnd`, `SliceVariable`,
`SliceOperand`, and the refusals, which unwind the task.  A step is code without
a suspension point: an HPX task can be replaced by another where it evaluates an
operand, nowhere else in these functions.  Reading a freed array is undefined, so
`Read` of a dangling reference may return any array.

`ValueStore` is what a program may expect: variables with values of their own,
without storage.  `Variable` implements it (`BehavesAsValues`): `value` is the
array a variable evaluates to and `updating` the sliced stores in progress.

Runs: `storage` (two tasks, two variables, one of them global; arrays of one
element, since sharing and freeing do not depend on the content), `values`
(arrays of one or two elements over {0, 1}, every index).  `MaxOps` and
`MaxPending` bound the operands and the sliced stores in progress of all tasks
together: with two of each, a task can nest a sliced store in the index of
another one, or two tasks can have one each.  Each variable owns two
arrays at most, so there are four cells; a step that needs a fifth, when both own
two, is not in the instance, but the same step is when the other variable owns
one.
Symmetry is over cells and tasks, which are interchangeable; `values` has one
task, whose steps are the ones the refinement is about, and symmetry there is
over cells only, which the mapped state does not mention.

Run `slice_read` ends in a counterexample: a negative index variable is rewritten
by being used.  Out-of-range indices are refused as `check_index` does it with
`PHYLANX_DEBUG`; without it Blaze refuses them, after all indices have been
normalized, which differs only if one of them is negative.

### DistributedData

Models `distributed_vector` and `distributed_matrix` as the operations of
`plugins/dist_matrixops` use them.  A site evaluates one operation after the
other (`round`), each on a vector of its own: `Construct` creates the part and
registers it under the operand's name, `FetchCached`, `FetchUnknown`, `Resolve`
and `Emplace` are `get_part_id` with its unlocked wait, `Serve` is the remote
`fetch_part`, `Arrive` and `Leave` are the collective (or barrier) at the end,
`Destroy` unregisters, and `Return` ends the life of the operand the part refers
to.  AGAS and the collectives belong to HPX and are modelled from their use: a
name is found when it is registered, and a collective lets a site go on when all
have arrived.  Constants choose the names of successive operands (`BaseName`)
and whether the operation ends in a collective (`Synchronised`).

Run `dist_drift`: two sites, two concurrent fetches each, three evaluations of
which the first two share a name and the third has its own.  With two
evaluations, a site can be ahead of or behind another; with three, also by more
than one if the collective did not hold it.  `CHECK_DEADLOCK FALSE` because
sites stop after the last evaluation; that they get there is `FetchesComplete`.
Fairness (`FairSpec`) is weak, for the steps of each site and for each fetch: HPX
schedules every ready task and delivers every parcel.

Two runs end in a counterexample: `dist_stale` (with one name for two
evaluations, as `annotation_.name_` without its generation is, a fetch returns
data of the other evaluation) and `dist_scope` (without a final collective, as
`dot1d1d` with a local left operand, a part goes out of scope while it is read).

### DistInverse

Models `dist_inverse_operation.cpp`: a Gauss-Jordan elimination of a square
matrix whose columns are divided among the sites.  Every site updates its
columns of the operand (`lhs`, the code's `lhs_data`) and of what becomes the
inverse (`inverse`, `invMatrix`).  A pass of one of the three loops (`loop`)
fetches a column, or one element, from the owner of that column, waits at a
barrier, and updates a row: `FetchPivot` and `FetchFactor` are the fetch,
`Swap`, `Throw`, `Divide`, `Eliminate` and `Substitute` what follows the barrier
(`Released`), with the step to the next pass.  `entered` counts, per barrier, how
often a site has come to it.  The arithmetic is exact, modulo the prime `P`, so
that "is the inverse" has a meaning without tolerances; a zero pivot needs a
swap there as in floating point.

There is no barrier between the update and the next fetch.  An owner that has
been released is updating its columns, so `Fetch` lets every element come from
before or after its write (`late`); `raced` (history) records that a fetch has
met a write to what it fetched.  A site that has thrown keeps its data in the
model, where the code's owner frees it while others may fetch.

Run `inverse`: two sites, one with two columns and one with one, all 3 by 3
matrices over {0, 1}, modulo 2.  Unless a fetch has met a write, the tiles make
up the inverse, or no site refuses a regular matrix (`InverseUnlessRaced`), and
whenever the sites are at one point, the result so far takes the operand to what
is left of it (`ResultTracksOperand`).  Each site decides for itself, from what it
has fetched in its own time, whether to divide, to swap or to throw, and the code
exchanges none of these decisions; `DecideTogether` says that the sites at one
barrier have fetched the same, and that where one throws all do, so that none waits
at a barrier for one that has left.  The only fetches that race are those of a pivot
and the last one of the substitution (`RacesAtPivots`).  Both sites come to an end unless
there was a race (`AllFinish`), with weak fairness for each site: HPX runs every
ready task, and a site waits for the barriers only.  `CHECK_DEADLOCK FALSE`
because the operation ends.  Three columns are the least that give one site
several, a division with a remainder, and a swap that is followed by further
steps.  Run `inverse_race` ends in a counterexample with two columns: with the
races, a regular matrix is refused or the result is wrong.

### EvalContext

Models `eval_context` and `variable_frame`, and the primitives that use them.  A
frame is a record of the frames it reaches over `nextframe_` (`chain`), the last
of these (`outermost`) and the instances of variables in it.  `scope` is what the
compiler knew: the chain of environments the code was compiled in, as the frames
of the enclosing functions.  A search for a name (`GetVar`) goes through the
chain; `Find` is the definition in the scope.  `stack` is the evaluation of one
task.  `DefineBegin`, `DefineGlobalFound`, `DefineGlobalNew` and `DefineEnd` are
`define` and `define_global`, split where the expression is evaluated, which may
call and define anything; `Store` and `Unbound` are an assignment and a name
that is not found, which unwinds the program; `CallFunction` calls a function
that has captured nothing, `CallReference` one that has captured its context;
`EvalRemote` evaluates on another locality, with what `serialize` sends;
`Return` leaves a function.

`loose` (history) marks frames of code that has lost the context it was defined
in: nested functions without bound arguments, which the variable factory does
not wrap, and everything on another locality.  The properties are about all
other frames: a search ends at the definition the compiler found
(`LookupIsLexical`), functions agree about globals (`GlobalsVisible`), and a
local variable is written from within its function only (`LocalsPrivate`).

Frames are numbered as they are made and never freed (they are shared pointers,
held by what can reach them).  Part "contexts" of run `parts`: one local and one global name,
four frames, two instances, a stack of four: a function value can outlive its
call, be called from another function, and define a variable of the name its
caller has or is defining.  (With three instances, 2.3 million states, the same
holds.)  `CHECK_DEADLOCK FALSE` because a program may end.  No name is both
local and global in it.  If one is (`Globals = {g, x}`), `LookupIsLexical` fails
with three frames: a function called by another one sees the other's local `x`
instead of the global `x` it was compiled for.  The code does that (the search
is through the frames of callers); the assumption of the theorems names it.
Run `remote_context` ends in a counterexample: a frame is serialized without
`nextframe_`, so a global defined on another locality is not defined in the
outermost frame of the program.

### FunctionCalls

How arguments reach parameters.  The compiler numbers the parameters of a
function after those of the functions around it (`compile_body`, `compile_lambda`
in `compiler.cpp`); a function made while another runs keeps that one's arguments
and puts them in front of its own.  `lambda.cpp`, `function.cpp`,
`variable_factory.cpp`, `call_function.cpp`, `target_reference.cpp`,
`access_function.cpp` and `access_argument.cpp` decide by the mode of an
evaluation (`eval_mode`) whether they keep arguments, call, or hand out a value.
A function value is a record of its code and of the arguments it keeps;
`calls` holds the calls so far with the parameters they were given (`params`) and
what the program meant them to be (`meant`, history).  The text of the program is
a constant: functions and lambda expressions, which of them are in which, with
how many parameters and defaults, which are returned, passed on, named by an
alias or given to `fmap`.  Which call of the text is executed next is left open.

`ParametersReadArguments`: every parameter a call can name reads the argument of
that call, its default, or that of the enclosing call.  `OnlyCallsEvaluate`: a
function runs because it is called, not because it is mentioned.  The properties
are about what works; the code does not do the following, and TLC shows each when
the exception is taken out of the property:

1. If an enclosing function was called without an argument that has a default,
   the parameters after it move up (`FullyCalled`); the tests of defaults
   (`tests/unit/execution_tree/compiler.cpp:811-827`) have no nested functions.
2. A lambda in a lambda that is reached through `target_reference.cpp:90`, which
   evaluates with `eval_default`, runs instead of being returned.
3. A function that keeps arguments, or a lambda, passed as an argument is called
   when the parameter is accessed (`access_argument.cpp:188`).

`define(h, g)` in a function with parameters puts the outer arguments in front
(`define_variable.cpp:131`), and `fmap` of a named function of a function does
too: aliases are at program level and `fmap` is given lambda expressions in the
instance.  Names are distinct and a function with functions in it has a required
parameter, so that finding them is not in question; that is `EvalContext`'s
subject.

Part "calls" of `parts`: functions three deep, lambdas two deep, four calls
including the program.  Three levels are the least in which kept arguments are
themselves put behind kept arguments.

### DirectExecution

`primitive_component_base.cpp` measures how long a primitive takes and, after
`EcThreshold` evaluations, executes it directly if it is quicker than `Lower` and
as a task if it is slower than `Upper`.  Its counters are plain integers, shared
by the tasks that evaluate the primitive and the queries of HPX's performance
counters, so loads and stores are steps of their own and updates get lost: `DoEval` loads
what `Count` stores, `ScopeEnd` or `Continuation` what `AddDuration` stores
(`reg` is the register).  `timer` says where the `scoped_timer` is: in `do_eval`,
or moved into the continuation of a result that is not ready.  `ResetCount`, `ResetDuration`, `ResetDirect` and
`Reinit` are queries.  `resets`, `begun`, `spent` and `timed` are history.

`DividesByZeroOnlyAfterReset`: the division at line 562 is safe unless a query
has reset the count between the comparison and the load, which is possible and
stops the process (`trapped`).  `NothingCountedTwice`: neither counter exceeds
what evaluations have contributed, and a timer that has moved adds once.
`PinnedStaysPinned`: a query that resets the decision before the threshold is
reached disables measurements, so the primitive never decides again.

Part "direct execution" of `parts`: two evaluations at a time, three in total,
two queries, threshold one; the interesting races need two evaluations and one
query between them, and the decision needs one evaluation more than the
threshold.

### Tiling, TiledArrays, TiledAnswers, WholeArray

`Tiling` translates the pure calculations: how a dimension is divided into tiles
(`tile_calculation_helper.hpp`), the tile of a site by tiling type ("row",
"column", "page", "sym"), overlaps, and the two calculations that say which piece
of one tile is in another (`index_calculation_helper.hpp`).  It has no state.

`TiledArrays` has one array (`cur`) and one the program keeps (`kept`), each with
the tile of every site (its annotation) and the data every site holds; `request`
and `verdict` are the last operation and whether it was carried out.  Operations
are `constant_d` and `annotate_d` (`NewArray...`), `retile_d` with a number of
tiles and an overlap or with tiles the user lists, `transpose_d` and `diag_d`.
An operation is one step of all sites: each computes its tile from the tiles of
all (`Retiled` with what it fetches from whom), and operands are not changed
while they are fetched from.  That the fetch finds the right part is
`DistributedData`'s subject, with its own interleavings.  A site that throws is
not only refused: annotating a result is a collective exchange, so the others
wait for it (`verdict = "stuck"`).

`WholeArray` is the abstract specification: one array, a partial function from
indices to values, and what each operation does to it.  `TiledArrays` implements
it (`ActsAsOneArray` in `TiledAnswers`) with the array the tiles make up together.
`TilesAgree` is what makes that map a function: sites that hold the same element
hold the same value.  `NobodyWaits`: the sites refuse an operation together or not
at all, if there are tiles for all and the overlap is not larger than the
smallest tile (a larger overlap fits some tiles and not others).

`TiledAnswers` adds what is computed from an array without changing it:
`argmax_d`, `argmin_d`, `dot_d`, `all_gather_d`, rows and columns, and the store of
a vector into a row.  They are functions of a state, so `AnswersAgree` is an
invariant: the sites answer as one site would that has the whole array.  Where
the code is good for some tilings only, the property says for which (`Regular`,
`InOrder`, `DimTiled`).  Two tests are off by one and are exceptions in
`SlicesAgree`: the end of a tile is taken for its last line, so that a site at
whose end the line is throws (`slice_node_data_2d.hpp:1249` and `1330`), and a
row at which a tile begins is not stored into (`1540`).  The value stored is a row
of an array on the same sites; the overload for a value that is not distributed
counts rows from the tile's first one and is not modelled.

Part "tiled arrays" of `parts`: three sites, arrays of one, two and three
dimensions, two operations in a row, every tiling the system chooses and six a
user lists.  Three sites give tiles of different sizes, a site in the middle
with neighbours on both sides, and fetches from several.  The elements are
different enough to tell columns and rows apart and have equal ones among them,
for which argmax and argmin must choose the same index on every site.

### Lists

A list is a vector of values, an integer range, or a pair of iterators into
either (`ir/ranges.cpp`); which of them it is depends on the operations it has
been through, and every operation has code for each.  The state is one `list` in
its representation and, as history, the sequence the program takes it for
(`contents`), whether the last operation was an error (`senseless`), and whether
all of them were of those the code gets right (`regular`).  Actions are
`make_list`, `range`, reading a list from a variable (which makes a reference of
it), `cdr`, `append` and `prepend`, slices by up to three numbers or by a range,
and stores into slices.

`ListHoldsItsElements` and `RefusesOnlyNonsense` compare the representation with
Python's lists after every sequence of operations.  Both are about `regular`
behaviours.  Not regular, and each shown by TLC to be different in the code:

- ranges with a negative step that does not divide the distance: `size()` is one
  too small (`ranges.cpp:357`);
- ranges that lead away from their stop, which are iterated for ever (the
  description in `range_operation.cpp` says that range works like Python's);
- slices backwards through what `cdr` leaves of a range: inverting its iterator
  reads `stop()`, which it has not got, as the step (`ranges.cpp:32`);
- slices backwards from behind the list, which are empty;
- slices with step 1 that begin behind their end, which reserve a negative size.

Indices out of bounds are not checked by the code and not given by the model
(`Granted`).  A list stored into a single element (a nested list) is not modelled.

Part "lists" of `parts`: three operations on lists of up to three elements, eight
ranges with steps of both signs, seventeen slicings with parts left out.  Three
operations reach each representation through another one (a list, referred to,
cut) before it is looked at.

### PythonSession

`python/src/init_hpx.cpp` starts HPX from a Python thread and stops it again;
`hpx_main` waits in a worker thread on the members of the manager (`mtx_`,
`cond_`, `rts_`) and takes the global interpreter lock at its begin and end.
`phylanx/core/config.py` and `bindings/binding_helpers.cpp` are how Python gets
there.  `pc` is where a thread is, `gil` who holds the lock, `rts` the global
pointer, `objects` and `freed` the managers made and deleted, `main` where
`hpx_main` is and `task` the evaluation of each thread, which runs on one of
`Workers` worker threads and blocks that worker while it waits for the lock.  The
tests of pointers and flags are steps of their own, since the lock is given up
between them.  HPX is external: it refuses to be started twice, which ends the
process, and it stops when `hpx_main` has called `finalize` and no task is left.

`ManagerOutlivesMain`: a manager is not deleted while its `hpx_main` uses it.
`RunsWhilePointedTo`: when no call is under way, HPX runs exactly if the global
pointer is set.  `CallsReturn`: every call comes back to Python, with one worker
thread.

Run `session`: two threads, both evaluating, one of which starts and stops the
runtime twice.  Fairness (`SessionFairness`): weak for steps that
stay possible (threads run, HPX runs every ready task), strong for those that
wait for the lock or a worker, which others can take in between: CPython hands
the lock on to whoever waits, and a free worker runs what is ready.
`CHECK_DEADLOCK FALSE` because calls are bounded.

Run `session_two`, in which both threads may start the runtime, ends in a
counterexample to `StartedOnce`: both call `PhylanxSession.init`, as any first use
of a decorated function does (`python/phylanx/ast/physl.py:440`).  The pointer and
`is_initialized` are tested with the lock held and set after the start, for which it
has been released; the second thread passes both tests and starts HPX again, where
"PhylanxSession can initialized only once" (`exceptions.py:19`).  `ManagerOutlivesMain`
and the types are proved for any number of such threads; `RunsWhilePointedTo` is
about a single one.

### MCParts

`EvalContext`, `DirectExecution`, `TiledAnswers`, `FunctionCalls` and `Lists` do
not share state, so one run, `parts`, checks them side by side: a behaviour is of
the part it begins in, and the variables of the other parts stay as they are
initially.  Its states are the sum, not the product, of those of the parts, and
each property is about its part.  `CHECK_DEADLOCK FALSE` because programs end.

## What is proved

`VariableProofs`: `Invariant` shows that `IInv`, the conjunction of the type,
`StorageInv` and `PendingInv`, is inductive; `TypeCorrect`, `Storage` and
`PendingStoresSafe` follow.  `StorageInv` leaves out `ValuesLive`, which follows
from the rest.  `PendingInv` says that the variable of a sliced store in progress
would still not be refused; it is preserved because no step makes a variable
that accepts slices refuse them (`Firm`).  Assumptions: `VariableAssumption`
only, so any number of variables, tasks, cells and any array length.
`ValueInv` adds to `IInv` that a bound value exists only where `operand0` does
(`DefinedFirst`); with it every step is one of `ValueStore`, or a stutter: what a
step does to a variable other than the one it is about is nothing, because the
cells it writes or frees are not those another variable reads (`StorageInv`).
`VariablesAreValues` is the refinement, `StoredValues` and `SliceReadsOnly` the
action properties.  The refinement and `SliceReadsOnly` assume `NonNegative`, that
slices count from the start: with a negative index, `slice_read` shows that a slice
writes the variable its index is in, and a slice that is then refused leaves it
written.

`DistributedDataProofs`: `TypeCorrect`; `DriftBounded` (if operations end in a
collective, a fetch is at most one evaluation off, whatever the names), from
`InStep` (no site has left a collective at which another has not arrived) and
`NamesCurrent` (a registered part is of the evaluation its site is in);
`OwnNames` (an evaluation whose name no other evaluation has fetches from its
own parts, while their arrays exist).  The two conditions are what the
counterexamples of `dist_scope` and `dist_stale` show to be needed.

`DistInverseProofs`: `OwnerHoldsColumn` and `ColumnHasOneOwner` (the formula for
the owner of a column agrees with the ones for the bounds of a tile, and the
tiles partition the columns, for any number of columns and sites);
`TypeCorrect`.
`FactorsDoNotRace` needs to know where sites are relative to one another.  As long
as nothing has raced (`Agreed`), two sites are in the same pass, or one is in the
pass the other goes to when it leaves the barrier (`Paced`: where that is follows
from what the other has fetched).  What a site at a barrier has fetched is what
those still to come will find, also when sites a pass behind have made their updates,
since each changes its own columns only (`FindsTheSame`, `UpdatesElsewhere`); so all
have fetched the same (`SitesFetchTheSame`), and go to the same pass.  What follows a pass
in which a site throws is that the others do (`SitesDecideTogether`).  A site that
comes to fetch what another is writing follows right behind it, and unless a pivot
or the end of the substitution is near, it fetches from another row.

`ResultTracks` and `InverseFound` (`ResultTracksOperand`, `InverseUnlessRaced`) say
that the elimination is right: what the sites return is the inverse, and they throw
only for a singular operand, unless a fetch met a write.  While some sites have made
an update that others are late for, no array holds a matrix the algorithm passes
through.  `CaughtUp` is that matrix: the late ones' columns with their updates made.
It changes only when the first site makes an update, and then by one operation on
whole rows (`UpdateCaughtUp`, `RowsUpdated`), the same for operand and result.  Three
facts about it are kept (`Eliminated`): the product of the result with the operand
is what is left of the operand (`TracksInput`); what is left takes no vector to zero
that the operand does not (`KeepsKernel`); and the sites in front are where the form
of the matrix says (`Staged`: upper triangular up to the pivot, zero below it as far
as the rows are eliminated, zero above as far as they are substituted).  At the end
the matrix is the unit; where a site throws, back substitution gives a vector that
shows the operand singular (`StageThrown`).  The lemmas about sums and products
modulo the prime need induction, over sets of indices and over rows: they take a
least counterexample (`LeastExists`, `SubsetInduction`).  Assumptions of all these:
`DistInverseAssumption`, so any number of rows and sites, and any prime.

`FunctionProofs`, on `EvalContext`: `Invariant` shows that the type, `Shape` (how the chain of a
frame lies against its scope: the frames the code does not know come between the
outermost one and those it does) and `Named` (which names are being defined
where) are inductive.  If no name is both local and global, `Bindings` (globals
are in the outermost frame, locals are not) is preserved too, and
`LexicalLookup` and `GlobalsSeen` follow.  `LocalsStayPrivate` needs in addition
that an instance has one name (`OneName`), and is in one frame of the program or
in a definition that has not ended (`Unshared`).  Assumptions:
`EvalContextAssumption`, so any names, and any number of frames, instances and
calls.

`RuntimeProofs`, on `DirectExecution`: the type, from which place a timer may be in; then
`DivisionGuarded` (an evaluation that is about to divide has seen a count that only
a reset can have lowered to zero, `DivisionInv`), `CountedOnce` (`CountInv`: the
count and every register are at most the evaluations begun; `TimerInv` and
`DurationInv`: what is still to be added and what has been is at most what was
spent), and `StaysPinned`.  Assumptions: any evaluations at a time, any
durations and thresholds.

`RuntimeProofs`, on `PythonSession`: `SessionInvariant` shows the type and `ManagerInv` (which manager
`hpx_main` runs on and who may delete it) to be inductive, for any number of
threads that start and stop; `MainUsesLiveManager` follows.  With a single starter
(`Starters = {t}`), `PhaseInvariant` says what the pointer, HPX and `hpx_main` are
at each place of that thread; `PointerTells` follows.

`TiledArraysProofs` begins with arithmetic, without state.  `TilesPartition` (for
any extent and number of tiles, each index is in exactly one), `OverlapFits`,
`TileOfEachDimension` and `PieceIsFound` (the two index calculations agree, and
copy exactly the indices both tiles have).  Then `TiledInv` says of every array
that its annotation fits its data and that sites agree about the elements they
share.  An operation preserves it because each element of a result is a function
of its index in the whole array, whoever computes it: `AnnotationFits` and
`OverlapsAgree`, for any number of sites, shapes, tilings and sequences of
operations.  `NobodyIsLeftWaiting` follows from the bounds in `Tiling`.

`SitesActAsOneArray` is the refinement of `WholeArray`, with `TiledInv`: what each
operation leaves is an array whose value at an index is a function of that index
(`HasValues`), which is the one `WholeArray` states, and nothing is lost where it
says so, because the tiles of all places make up the array (`TilesMakeUpArray`: an
index is in the tile whose number has the digits of the index's tiles; an overlap
only adds to a tile).  The spans a user lists are exchanged into the order of the
dimensions for each of the orders of two or three names (`SortedTwo`,
`SortedThree`); transposition is a bijection of the indices (`ForthAndBack`), of
which there are finitely many.  Assumptions on the constants: the spans a user lists
for two or three dimensions name each of them (the code throws otherwise,
`retile_annotations.cpp:168-328`), and arrays are created with numbers, none of
which is `Junk`, the mark of memory that nothing was written to.

`TiledAnswersProofs`: `AnswersAreThoseOfTheWhole` is `AnswersAgree` for any number of
sites, arrays, tilings and sequences of operations, from `TiledInv` and `NumbersInv`
(what an array holds is a number or `Junk`: every element of a result is one a site
found, or 0).  It is put together from a theorem for each answer.

- `ArgOfWhole`.  `First` picks the least candidate of a total order (`NotAfter`).  A
  tile's row-major order is that of the array (`SameOrder`), so a site's answer is the
  first of its candidates; a reduction in any order has the first of what it has seen
  (`AllReduceIsFirst`, over the first i sites); and the first of the firsts is the
  first of all (`FirstOfParts`), whether tiles overlap or not, since sites agree about
  an element.
- `DotOfWhole`.  The model sums with `SumFunction`, a fold.  `SumIsUnique` and
  `SumExists` say that the fold is the sum, by taking the smallest set for which it
  is not; sums can then be split, shifted and put together (`SumOfUnion`,
  `SumIsShifted`, `SumOfSums`).  The product of two tiles is the sum over the indices
  both have (`PartialProductIs`).  Each index is on one site of the right hand side,
  so all of its tiles give the sum over a tile of the left hand side
  (`LocalProductIs`), and all of those the whole sum (`DotAtIs`).  `DotIsDone`: with
  regular tilings no site refuses or adds up alone.
- `GatherOfWhole`.  Disjoint intervals that cover 0 .. D - 1 and are in order follow on
  each other (`IntervalsInOrder`), so the sizes of the tiles before one add up to where
  it begins (`SizesAddUp`), which is where the code looks for it.
- `SliceOfWhole`, `StoreOfWhole`.  The sites' parts of a line, some of them empty, make
  up the vector of its elements (`SliceIsVector`), and a site that needs a part of such
  a vector finds it (`VectorFound`), whether it has it, another has, or several do.

The numbers are integers, so the order in which they are added does not matter; that
sums of floating-point numbers depend on it by rounding is not part of the model.

`FunctionProofs`, on `FunctionCalls`: the numbers of parameters are well defined because
functions are nested, so that any set of them has an outermost one (`BaseArgNumDef`;
the recursive definition is unfolded once, by that argument, and never again).
`CallInv` is inductive: a call names earlier calls only, which name nothing it
does not, and begins with what they keep (`Enclosed`, `InPlace`); its own arguments
follow (`Given`), as many as were numbered (`Counted`); a function value, wherever it
is, keeps what the call it was made in keeps (`IsFunction`); a call whose mode
keeps arguments or evaluates lambda expressions is one of a lambda expression or of a
function that was passed on (`Moded`, `Argued`).  What holds of a call does not
depend on later ones (`MadeStays`), and each action either notes a function
(`StepNotes`) or begins a call from a value that is one (`Evaluates`).
`TypesOfCalls` and `ReadsArguments` hold for every text that satisfies `KeepsOnce`:
only the program itself defines variables by the name of a function, and a lambda
expression passes and returns lambda expressions only.  Otherwise the
named function keeps the arguments at hand a second time, and TLC finds
`CallsTypeOK` and `ParametersReadArguments` violated as soon as one such mention is
added to the instance.  `EvaluatesCallsOnly` needs `MentionsOnly` too: the program
passes and returns no lambda expression of its own, and a function that is passed on
and is not a lambda expression returns none; these run where they are mentioned,
which TLC shows in the same way.  Assumptions about the constants say what a text is:
functions are nested, and a lambda expression, which has no name, is passed by the
code it stands in.

`DistributedDataProofs` also has `FetchesUseOnePart`: the cache of part ids only
grows in an evaluation, and a fetch uses what is in it (`FromCache`), also if
another fetch has filled it in while this one waited without the lock.

`ListsProofs`: `ListsInvariant` shows `LInv`, which says of the list that it is one
of the four the code makes (`ListType`: a vector, a range, a pair of iterators into
either), and, in regular behaviours, that it is `Exact`, with the contents the
program takes it for.  A list is exact if it is a vector or part of one, or if its
iterators are a whole number of steps apart (`ExactLike`); then iterating over it
from either end, its size and whether it is empty agree (`Reads`), except that part
of a range cannot be gone through backwards.  The rest is arithmetic: division that
rounds towards zero gives the numbers of a range that leads to its stop
(`ExactWhole`, `ExactRest`); what Python lists, which `Lists` states as a set of
numbers put in order, is an arithmetic progression (`ListedProgression`, by counting
the numbers below each); and the indices a slice finds before the first that is not
there are all those that are indices of the list (`WithinIs`).  `ListsTypes`,
`ListsHoldElements` and `ListsRefuseNonsense` follow, for any literals, ranges,
slicings and lengths.  Nothing is assumed but `ListsAssumption`: steps of ranges are
not 0, and nil is not a number.

Every invariant and action property of the passing runs, and both refinements, is
the subject of a theorem.  Only model-checked is what is about liveness
(`FetchesComplete`, `AllFinish`, `CallsReturn`), which is out of the prover's reach.

## Plan

Done: variables and storage, slices of vectors; distributed data; the distributed
inverse; contexts; direct execution; the session; tilings and distributed arrays;
function calls; lists; theorems about all safety properties.

Left, in this order:

1. Stores with two and three indices and basic slices of arrays in `Variable`
   (`slice_node_data_2d.hpp`, `_3d.hpp`): the in-place normalization is the same,
   the views differ.
2. Concurrent blocks (`parallel_block_operation.cpp`) that insert into one frame
   of `EvalContext`, and block scopes.
3. The compiler's patterns and keyword arguments in `FunctionCalls`.
4. `dist_cannon_product.cpp`: rotating tiles, with `DistributedData`'s fetches.
5. Proofs: what `AnswersAgree` leaves out, as theorems of their own: for which tilings
   `dot_d` and `all_gather_d` are wrong, and which lines cannot be sliced.

## Not modelled

The parser, the Python front end, numerical kernels (matrix operations,
arithmetics, statistics, neural networks), file access and output: code without
state of its own, whose results are floating-point data or text, and most of the
source.  See the components of `PROJECT.json` for the
reason of each.  Within the modelled parts:

- variables: stores with two and three indices, dictionaries, the value a variable
  keeps that was defined as nil (`variable.cpp:295`);
- slices: of arrays of more than one dimension, masks, the single negative index
  of `slicing_size` (`slicing_helpers.cpp:294`);
- functions: block scopes, keyword arguments, slices of arguments, the lifetime
  of frames in function values (`target_reference.cpp:62`), two names created at
  once by `variable_factory.cpp:106`, a factory on another locality
  (`define_variable.cpp:164-181`, which enters a global variable as a local one);
- distributed data: the byte counts, whose callback captures `this`
  (`distributed_vector.hpp:277`), tensors, and the older `distributed_object.hpp`,
  which registers its name without waiting (line 328);
- distributed operations: Cannon's algorithm, random numbers, the identity,
  products with local operands; the generation that is given to collectives
  (`dist_dot_operation_impl.hpp:198`), since the collectives are HPX's; whether
  the tiles a user lists fit together (`retile_annotations.cpp:562` tests each by
  itself); axes of a three-dimensional transposition that are not a permutation
  (`dist_transpose_operation.cpp:112`);
- the session: the state the bindings create at the first call
  (`python/phylanx/__init__.py`, `binding_helpers.cpp`), the conversion of values;
- performance counters: their registration (`register_counters.cpp`), of which
  the first query fills a list that others may read.
