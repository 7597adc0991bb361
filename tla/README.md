# A TLA+ verification of KleidiCV

KleidiCV is a library of image-processing kernels for Arm CPUs. The kernels
exist in several backends (Neon, SVE2, SME, SME2); a resolver picks one per
function when the library is loaded. A second library, `kleidicv_thread`, runs
the kernels on several threads through a scheduler that the application
supplies, and shares the few SME units of the machine between those threads.
The OpenCV adapter is such an application.

This directory holds TLA+ modules translated from the source, TLC
configurations that check them on small instances, and TLAPS proofs of the
results that should hold for every instance. `PROJECT.json` maps each
definition to the lines it models and lists the components, runs, mutants,
hazards, findings and theorems.

## The system

| Part | State it keeps | Operations | Hard behaviour | What makes it correct |
|---|---|---|---|---|
| SME slot limiter (`sme_thread_limiter.{h,cpp}`) | one atomic counter per SMCU domain | `try_to_run`, the acquire loop, the guard's release | lock-free, relaxed atomics, any number of threads | no slot is lost or handed out twice; a refusal has a cause; slots come back |
| SMCU topology detection (`sme_thread_limiter.cpp`, `heap_array.h`) | CPU ids, register values, domains under construction | read the online list, read registers, build domains, apply the core policy | malformed files, failing reads and allocations, size overflow | the result is a consistent topology or none; domains group exactly the CPUs that share a unit |
| Batch scheduler (`kleidicv_thread.cpp`, `kleidicv_hal.cpp: parallel`) | task range, per-call result, running batches | cut a call into tasks, run ranges on threads, SME or CPU, collect errors | interleaving, partial failure, tails, task counts beyond `int` | every item exactly once; errors reported; calls return |
| Dispatch (`dispatch.h`, `kleidicv_thread.cpp`) | function pointers, limiter, batch dispatch pointer | dynamic initialisers, calls | initialisation order between translation units | never null, never an unsupported backend, SME only under a slot |
| Row loops (`operations.h`, `utils.h`) | position in a row | unrolled vectors, single vectors, a scalar or overlapping rest | in-place rows whose last vector overlaps the one before | every element once, from its own source |
| Arithmetic and colour kernels (`arithmetics/`, `conversions/`) | none | one computation on several code paths | lane order, narrowing, wrapping, chroma shared by rows and stripes | all paths agree with one definition; every sample in its place |
| Minimum and maximum (`min_max_loc_neon.cpp`, `kleidicv_thread.cpp`) | best value and vector number per lane; one slot per row when threaded | vector, scalar and block steps; fill, run, reduce | numbers limited by the element type, tails, batches that fail or store nothing | the first extreme; the same as single-threaded |
| Flip, transpose, rotate, padding (`transform/`, `flip/`, `add_padding`) | the image, shared by the threads | exchange or copy blocks and tiles | in place, by several threads; border index maps | every pixel arrives once; threads never meet |
| Resize (`resize/`) | rows of the destination, constants of a row | fixed factors, any ratio, a quarter | rows at stripe boundaries, windows at the end of a row | the interpolation the geometry names, stored once |
| Remap and warp (`transform/remap_*`, `warp_perspective_*`) | none | look up source pixels by coordinates | ends of 16- and 32-bit coordinates, offsets, borders | the pixel or the weighted neighbours of each coordinate |
| Separable filters, blur and downsample, Sobel, Scharr (`filters/`, `workspace/`) | one buffer row per stripe | vertical and horizontal pass | borders, narrow images, stripes, sums at the width of a register | each element from its own window, rounded once |
| Morphology (`morphology/workspace.h`, `morphology_neon.cpp`) | wide row, double-buffered rows, pointer table | fill rows, vertical pass, swap, iterate | source and destination are the same image from the second iteration on | every output row comes from the right input rows |
| Median blur (`filters/median_blur_*`, `filter_2d_*`) | histograms of a moving window, or none | sorting networks, small and large histograms | histograms that are partly out of date, patches of columns, borders | the median of each window |
| Canny (`canny_neon.cpp`, `containers/stack.h`) | edge map, stack of pixels in linked blocks | push, pop, promote | block boundaries | stack is a stack; the result is reachability from strong edges |
| Optical flow | pyramids of images | build levels, iterate | failing allocations | see "What is not modelled" |
| OpenCV HAL (`adapters/opencv`) | none but `parallel` | argument translation | see the batch scheduler | |

The limiter is created from the detected topology during static
initialisation; the dispatch pointer decides whether batches may ask it for a
slot; the scheduler's batches call it; the kernels run inside the batches, on
the stripe of the image that a threaded operation's callback computes from the
batch's range.

## The modules

Definitions keep the names of the code where they can; `PROJECT.json` gives the
lines of each. Definitions marked "Mutant" are faulty variants of the one after
them. They are not part of the model: each shows that a property notices the
mistake it names.

Two kinds of module model kernels. Where an operation has state that several
steps or threads share (images, buffers, tables), its module is a state
machine. Where it is a computation with several code paths, its module defines
each path as an operator, and a module of calls (`...Calls`) has one action per
kernel: it picks arguments and stores, in `result`, what every path computes for
them (module **KernelCall** declares the two variables); the properties compare
the paths with one another and with a reference. Pixels are what the property
needs and no more: a place in the source, a set of source pixels with weights,
or a number where the arithmetic is the point.

### Scheduling and dispatch

* **SmcuTopology** - the read-only topology: `domain_for_cpu`,
  `is_cpu_allowed`, `has_allowed_cpu`, `slot_count`, and what a well-formed
  topology is (`IsTopology`).
* **SmeSlots** - abstract specification: a pool of slots per domain. A thread
  takes one where one is left and gives it back.
* **SmeThreadLimiter** - `SmeThreadLimiter`. Each counter is the sequence of
  values it has had (its modification order), and each thread remembers how far
  in that order it has seen: a relaxed load may return any value from there on,
  a read-modify-write appends to the end. One action per atomic operation
  (`Load`, `ExchangeSucceeds`, `ExchangeFails`, `Release`), plus `TryToRun` with
  any CPU number `sched_getcpu` may return, -1 and numbers beyond the topology
  included, and `Reject`. `compare_exchange_weak` may fail spuriously. The
  constructor may fail to allocate the counters.
* **SmcuTopologyDetect** - `SmcuTopology::detect`, `from_registers` and
  `create_sme_thread_limiter`: the two passes over the online CPU list, the
  register files, domain construction CPU by CPU, and the core policy. Every
  read and every allocation may fail; sums wrap at `SizeMax` unless the code
  checks.
* **ParallelBatches** - `parallel_batches`, its batch callback,
  `parallel_batches_hybrid` and the adapter's `parallel`. `HandOut` and
  `HandOutEmpty` are the application's scheduler (external): it may cut the task
  range anywhere. A batch tries for a slot (those of `SmeSlots`), runs on either
  backend, succeeds or fails, and reports. Several application threads may be in
  calls at once.
* **Dispatch** - the function pointers of `dispatch.h` and the static objects of
  `kleidicv_thread.cpp`: dynamic initialisers in any order, with batches that run
  before, between and after them.

### Single pixels

* **RowLoop** - `apply_operation_by_rows` over `LoopUnroll`, and `LoopUnroll2`
  with and without the avoided tail, over rows of every length, in place or not.
  The value of an element is the number of times the operation has been applied
  to it.
* **Lanes** - the vector instructions: narrowing, widening, saturation,
  interleaving, table lookups, with integer types as records of their bounds.
* **ArithmeticCalls** - the element-wise kernels (saturating
  arithmetic, absolute difference, comparison, threshold, range, scale, float
  conversion, exp) per path, and the calls at the values where they saturate,
  round and wrap.
* **Channels**, **Yuv**, **ConversionCalls** - moves of
  channels with the index tables of the code; the fixed-point encoders and
  decoders, their lane orders, and the chroma rows that pairs of rows and stripes
  share.
* **Extrema**, **MinMaxLoc**, **ThreadedMinMax** - what the first minimum and
  maximum are; the vectorised search under `RowBasedBlockOperation`; the threaded
  reductions on top of a correct single-threaded function.

### Moving pixels

* **Flip**, **FlipRows** - validation, work items and the blocks of pixels that
  concurrent threads load and store, in place and out of place; how one row is
  reversed with vectors, tables and predicates.
* **Transpose** - transpose and rotate by tiles, in registers or through the ZA
  array, out of place in stripes or in place across the diagonal.
* **Padding** - `add_padding_by_copy`: strategies, index maps per border type,
  rows filled by stripes in any order, the failing allocation.
* **Resize** - enlarging by 2, 4 and 8 with the stripes of the threaded call; a
  destination pixel is the set of its source pixels with integer weights.
* **ResizeCalls** - any ratio (coordinates
  with their widths, windows, index vectors) and halving.
* **Remap**, **RemapCalls** - integer and fixed-point maps, and the coordinates of
  float maps and of perspective warps, as quarters with the ends of `int32_t`.

### Neighbourhoods

* **Borders** - the offset tables of the border headers, the index vectors of the
  generic border, and the index map of the histogram medians. The rule stated for
  the tables was compared with every table that the headers write out.
* **FilterRows**, **SeparableFilter** - the two passes of a filter over a row, by
  the elements each loads and stores; the workspaces, buffers, stripes, and
  validation of Gaussian blur, separable convolution, Sobel, and blur and
  downsample.
* **FilterCalls** - what the filters compute from a window
  with the widths of their registers, and windows where the sums are extreme; the
  generated Gaussian kernels; a row of Scharr.
* **MorphologyWorkspace** - `MorphologyWorkspace::process` and `dilate`/`erode`:
  wide row, `DoubleBufferedIndirectRows` with its pointer table, the two counters
  of remaining rows, the swap, and the iterations. Columns are abstracted; the
  value of a row is the term that computes it, so equal values mean that the same
  rows were combined in the same way.
* **MedianBlur** - validation, the choice of a kernel, and a stripe of rows under
  each of them. For the networks a stored element is the window it was loaded
  from. For the histograms it is a number: `SmallFill` and `SmallRow` slide the
  histogram of a column, or the interleaved ones of the lanes of a vector, down
  the stripe; `LargePatch`, `LargeFill` and `LargeRow` do so for a patch of columns
  with the running sum `H` and the table `luc`. Memory the code does not clear
  holds `Residue`. The second half of the module has the comparators of the 3x3,
  5x5 and 7x7 medians, in the order of the code. They only take minima and maxima,
  so a network that is right for zeroes and ones is right for all values: all
  zero-one columns, all zero-one rows as far as the next stage reads them, and all
  zero-one windows with sorted rows and columns are run; that is every input of
  every stage, where 2^49 windows would be out of reach. Permutations go through
  the stages together.
* **BlockStack**, **LifoStack**, **Canny** - the stack of linked blocks as
  operators on a record, the abstract stack, and hysteresis over a buffer of
  addresses.

### Composition

`ParallelBatches` uses the pool `SmeSlots`, which `SmeThreadLimiter` implements;
`SmcuTopologyDetect` produces what `IsTopology` asks for and the limiter assumes;
`Canny` works on `BlockStack`, which implements `LifoStack` there;
`ThreadedMinMax` and `MinMaxLoc` share the reference in `Extrema`; `Resize`,
`Transpose`, `Padding`, `SeparableFilter` and the conversions are cut into
stripes anywhere a scheduler may cut them (`Padding` into three at most, so that
one has neighbours on both sides).

**MCSme**, **MCPixels**, **MCGeometry** and **MCFilters** each put related
components into one model, with the instances' constants. A behaviour is about
one component, the others rest in an initial state, and the properties keep the
names they have in their modules; a property that several parts share is their
conjunction, with one line per part. The modules that theorems are about are
extended, not instantiated, so that runs and proofs use the same definitions; where
several of them meet, definitions with common names have a prefix (`DetectInit`,
`DispatchNext`, `LocationInit`, `PaddingInit`, `ThreadedSpec`, `MorphologyNext`).

The theorems are in **SmeProof** (limiter and dispatch),
**SmcuTopologyDetectProof**, **ParallelBatchesProof**, **PixelsProof** (row loops,
threaded reductions and the search of `min_max_loc`), **GeometryProof** (flip and
padding), **CannyProof** and **MorphologyProof**, each of which extends the modules it is about. **NumberLemmas** has what several of
them need of the natural numbers: least elements, functions defined by recursion,
quotients and remainders.

## What the runs check

| Run | Properties | Instance and why it is enough |
|---|---|---|
| `sme` | Limiter: `TypeOK` (bounds of every access), `SlotConservation`, `RejectedByAnother` (a refused thread read a zero that another thread wrote), `ImplementsPool`, `SlotsComeBack`. Detection: `IdsFitAllocation`, `DomainsMatchSharing`, `ResultIsTopology`. Dispatch: `BackendSupported`, `SmeOnlyWithSlot` | three threads, four attempts in all, on a topology with two domains, an absent and a disallowed CPU, and on single domains with one and two slots: contention, stale reads, spurious failures and repeated attempts all occur. Lists with empty, reversed, malformed and overflowing ranges; three CPUs with every combination of the register values the code distinguishes. One function per kind of registration, every combination of CPU features and vector lengths |
| `batches` | `ItemsAtMostOnce`, `OkMeansComplete`, `BatchesWellFormed` (running batches are disjoint and have the documented shape), `ErrorsReported` | one call, three threads, counts below, at and above batch sizes 1 to 3, `IntMax` of 4 so that the serial path is taken, two errors, one empty range before the end of the task range |
| `batches_shared` | `SlotsOfRunningBatches`, `CallsReturn` (all calls return and leave no slot) | two calls share a worker and one slot, or have no slots at all |
| `pixels` | `RowsProcessed` (every element once, no access outside the row); `ArithmeticExact`; `LanesInOrder`; `ColourOnEveryPath`; `ChromaPaired`; `FindsFirst`; `SameAsSingleThreaded` | rows of every length up to three vectors and a bit, under each kind of loop; kernels on the values around each bound of each type and each rounding; vectors of two lengths for SVE, and of all five from 128 to 2048 bits for lane orders and index tables; colour rows of odd and even width around one to four vectors, heights of every remainder modulo 4; shapes with several blocks and a tail, several rows and empty images; all images up to 2x3 with padding cut into batches in every way, ended in every order, with null sources and failing allocations |
| `geometry` | `Flipped`, `ItemsIndependent` (threads never share a pixel), `RowsFlipped`, `ResizedBilinear`, `GenericInterpolates`, `Turns`, `ArrivedStays` (a pixel that has arrived is not moved again), `Padded`, `PlacesRemapped`, `NeighboursWeighed` | two threads; widths and heights around one, two and three vectors or tiles, single rows and columns; all modes and border types, borders wider than the image; padding in up to three stripes; resizing between widths of 3 to 65 and 2 to 48 pixels, with vectors of 128 to 2048 bits; coordinates at the corners, around them and at the ends of the integer types, images one pixel wide or high, and with the largest sizes and strides the code accepts |
| `filters` | `EdgesFound` (exactly what is connected to a strong pixel), `ImplementsLifo`, `RowsCorrect` (after every step, every row of the destination is what the reference gives for its pass), `RowsFiltered` (each element from its window through the border, no stale buffer element, every row once), `WindowSumsExact`, `MediansFound`, `CallsEnd` | edge maps of a 3x3 image with one strong pixel or without weak ones (`HysteresisExact` covers the others): the centre has eight neighbours, and rows are next to each other in memory; blocks of two pixels, so that boundaries are crossed both ways. Heights around one, two and four blocks of rows, every anchor, all borders, in place or not, two iterations. Filters from images one column too narrow on, over one and two vectors, all kernel classes and border types, channels 1 to 4, cut into stripes. Medians with 4 bins instead of 16, vectors of 4 lanes and patches of 28 columns, so that an image has several of each; values that change between coarse bins from column to column, that wander, that leave a bin for longer than a window, and that stay in one; empty stripes before, in and behind the image |
| `batches_tail`, `threaded_min_max_null`, `scale`, `resize_stride`, `gaussian_right_border`, `gaussian_kernel_sum` | one property each | expected violations, see Findings |

Deadlock checking is off where a finished call is the end of the behaviour.

**Fairness.** Safety properties need none. `sme`: a thread inside `try_to_run`
is scheduled and its callback returns (weak fairness); `compare_exchange_weak`
does not fail spuriously for ever and a relaxed load eventually returns the last
value (strong fairness on the exchange), which the C++ standard asks for and Arm
hardware provides. `batches_shared`: a thread with a batch runs it, and the
scheduler hands out every task, as `doc/threading.md` demands; empty ranges are
finitely many (`MaxEmptyRanges`). `filters`: hysteresis and morphology are
sequential, the call runs in the caller's thread until it returns (weak
fairness).

## What is proved

For every value of the constants that satisfies the named assumptions:

* **SmeProof**, limiter (any number of threads, any well-formed topologies).
  `TypeCorrect`: no counter is indexed out of bounds, and what a thread has seen
  lies within the modification order. This is inductive and the base of the rest.
  `SlotsConserved`: the last value of a domain's counter plus the callbacks under
  its slots is its slot count. `SlotConservation` is inductive relative to
  `TypeOK`: a successful exchange reads the last value and moves one slot to its
  thread, a release moves it back, and no other step writes.
  `LimiterImplementsPool`: under the mapping "a thread holds a slot while its
  callback runs", every step is a step of `SmeSlots` or invisible; that an
  exchange finds a slot follows from conservation, not from the (perhaps stale)
  value the thread had loaded. `RejectionsCausedByOthers`: a thread never gives
  up because of a zero of its own or the initial value. This is not inductive;
  `WriteHistory` adds three things: whatever a thread may still read of its own
  writes is positive unless it is in the callback it took that slot for, the
  initial values are positive, and a thread about to exchange holds the value at
  the position it has seen.
* **SmcuTopologyDetectProof** (any list of online CPUs, any register values, any
  width of `size_t`, any failing read or allocation). `IdsFit`: the second pass
  over the list stores exactly as many ids as the first counted, and never beyond
  the allocation. The passes add up what nothing but they compute, so
  `PassesAgree` carries the partial sums of the first pass as a function that the
  second runs along. `SharingIsExact`: two CPUs share a domain exactly when their
  registers name the same shared units, and the domain has the slots they report.
  It needs that a CPU's registers are read once (`RegistersRead`), that shared
  domains have different affinities (`DomainsMade`) and that a domain of its own
  has one CPU (`CpusPlaced`). `DetectsTopology`: what is created satisfies
  `IsTopology`. That is the limiter's assumption on its topologies, so the two
  proofs meet. Assumed: the widths of the register fields, and an online file
  that holds numbers of type `size_t`.
* **SmeProof**, dispatch (any set of functions, any backends each was built with, any
  machine, any order of initialisers and calls). `BackendIsSupported` and
  `SmeNeedsSlot` are about the batch that runs, the invariant about the pointers
  it may use: each is always Neon or a feature of the machine, the default
  pointers are not SME unless that is preferred, and the hybrid batch is installed
  only with a limiter. Assumed: SME2 implies SME, which `is_sme2_supported` checks.
* **ParallelBatchesProof** (any number of calls, workers, items and domains, any
  batch size and `IntMax`, any cut of the task range, any interleaving and any
  failures). `ErrorsAreReported`, `SlotsBelongToBatches` and `BatchesUseSlots`
  hold whatever the scheduler does. The last says that the batches take and give
  back slots as `SmeSlots` allows, and `LimiterImplementsPool` that the limiter
  offers no more: scheduler and limiter fit. `BatchesAreWellFormed`,
  `ItemsProcessedAtMostOnce` and `OkIsComplete` assume `~EmptyRangeAtEnd`, that
  the scheduler does not hand out the empty range at the end of the tasks; run
  `batches_tail` shows that they are false without it. The invariant `CallsInv`
  ties threads, batches, calls and slots together and follows each error from the
  batch to `shared_result`. `ItemsInv` adds that ranges of running batches are
  apart (`RangesApart`) and that an item below `next` is processed or in a running
  batch, never both, as long as nothing failed (`ItemsAccounted`). The remaining
  items belong to the task that ends at `TaskCount`; `Bound` maps tasks to items
  so that this is one case and not a second argument.
* **PixelsProof**, row loops (any length of a row, any number of lanes, any combination of
  the traits). `RowsAreProcessed`: every element is processed exactly once from
  its own source, and no access leaves the row. The loop that avoids a tail steps
  back and computes some elements again; that is harmless only because the source
  still has its old value, so the invariant says that in place exactly the elements
  behind the position were touched. It is assumed that no operation with a loop of
  single vectors that avoids its tail works in place: without that, TLC finds
  elements that are processed twice. In the code those are the filters,
  morphology, remap, warp, rotate and transpose out of place, and YUV conversions,
  whose loops store to another buffer than they load from. The conversion to
  semi-planar YUV, which `kleidicv.h` documents as in place, asks to avoid the tail
  too but has no loop of single vectors, so it never steps back.
* **PixelsProof**, threaded reductions (any image, strides, number of threads and
  cut into batches, ended in any order). `ThreadedSameAsSingle`: a call that
  succeeds returns what the single-threaded function returns for the whole image.
  A slot holds what it was filled with or the result of a batch that starts with its
  row (`SlotsOK`), and the batch of every row that was taken has left its result
  (`TakenRowsDone`). The argument is then about one pixel, the first extreme of the
  image: the batch that has its row finds it, no slot refers to a better one, and the
  slots in front of that batch's refer to worse ones or to the same. That a sequence
  of pixels has a first extreme at all follows from the least element of a set of
  numbers.
* **PixelsProof**, the search of `min_max_loc` (any image, stride, number of lanes and
  limit on the vectors of a block). `SearchFindsFirst`: what is returned are the
  indices of the first minimum and the first maximum. `Covered` says that every
  element met so far is no better than the best of the vectors or the best of the
  single elements, nor in front of it if equal. `VectorsOK` says that the lanes that
  hold the best of the vectors all have it from the block whose index is kept: a
  block that improves any lane improves on all that are not updated, so a stale
  offset is never chosen. `CursorOK` keeps the numbers of vectors below the wrap.
* **GeometryProof**, flip (any image size, mode, vector length and set of threads).
  `WorkItemsIndependent`: two threads of a flip never load or store a common
  pixel. The inductive invariant `ItemsOwned` says that items in the hands of
  threads are distinct, in range and not in the pool; distinct items have
  distinct rows because an in-place item is below the middle.
  `EveryPixelFlipped`: when the call returns, every pixel is where the mode puts
  it. `ThreadsInItems` says how far each thread has come in its item and that the
  pixels in its registers are those its block had; `ImageFollows` gives the value
  of every pixel from that alone: moved if its item is done or its block is behind
  the thread, unmoved otherwise. A store can keep it only because of `ItemsOwned`.
* **GeometryProof**, padding (any sizes, border type, number of lanes and cut
  into up to three stripes). `PaddingCorrect`: when the stripes are done every place holds the pixel
  its border type gives it, a refused call has stored nothing, and the maps lead
  inside the source. The reference mirrors or shifts a position until it is inside;
  `BounceIs` shows, by the distance from the middle of the image, that this ends and
  gives what `wrap_index`, `reflect_index` and `reverse_index` compute with one
  remainder. `CopyReversed` shows that both kernels store a run of pixels backwards
  whatever a pair of vectors leaves over, and `RowIs` that every strategy, the fast
  paths under their conditions and the lookup otherwise, makes the same row. `StripeIs` says
  that a stripe stores at each row what a single stripe would, wherever it begins;
  the inductive invariant `PaddingInv` adds that a row no stripe has left is right.
* **CannyProof** (any image size, any edge map, any capacity of a block).
  `HysteresisExact`: when the stack is empty the pixels that are strong are those
  that a chain of edge pixels connects to one that was strong at first. `Promoted`
  makes the result closed: a strong pixel is on the stack, or has no weak
  neighbour but those still to be looked at. `NothingElse` makes it the smallest:
  every closed set with the strong pixels contains it, which replaces an induction
  over chains. `MarginIsZero` lets the eight neighbours be read without bounds
  checks, and needs a margin of at least one pixel. `BlocksAreStack`: the blocks
  implement `LifoStack`, proved from what one push and one pop do to the sequence
  of elements at each kind of block boundary. A block's `Values` are the addresses
  of the buffer, or more.
* **MorphologyProof** (any height, kernel height, anchor, border type, number of
  iterations, in place or not). `MorphologyCorrect`: after every step of
  `MorphologyWorkspace::process`, every row that a pass has stored is what the
  reference makes of the image the pass started from. The rows of the extended
  image (borders included) are followed from the wide row through the double buffer
  to the destination: `BufferOK` says which row of which pass every slot holds,
  counted from the half that is read next, so that the swap of the halves changes
  nothing; `PointersOK` that the pointer table leads to those slots; `CountersOK`
  how the two counters of remaining rows are related at each point of the loop. In
  place, a row of the image is overwritten only when every row made from it is in
  the buffer.

The provers have no induction over data. Where a reference is recursive, its values
are shown to exist, or to have a property, by the least counterexample: `Least` in
`NumberLemmas` comes from the well-foundedness of the natural numbers, which the
library states without an operator parameter. Everything else is an induction over
steps: what a loop has done so far is part of the invariant.

Only model-checked:

* liveness under fairness (`SlotsComeBack`, `CallsReturn`, `CallsEnd`), which the
  provers do not handle;
* the kernels that are computations over data (`ArithmeticExact`, `LanesInOrder`,
  `ColourOnEveryPath`, `ChromaPaired`, `RowsFlipped`, `GenericInterpolates`,
  `PlacesRemapped`, `NeighboursWeighed`, `WindowSumsExact`, `MediansFound`): they
  compare sums, tables, sorting networks or folds with a reference, and what those
  compute for every input is out of the provers' reach;
* `Turns` and `ArrivedStays` (the tiles of a call are a concatenated list),
  `ResizedBilinear` and `RowsFiltered`: nothing rules out a proof, none has been
  done.

## Findings

Each has a run that TLC ends with a counterexample, and an entry in
`PROJECT.json` that quotes the text it disagrees with.

* `batches_tail`: the contract of `kleidicv_thread_callback` allows the empty
  range `task_count .. task_count`. The batch callback takes every range that
  ends at `task_count` for the one that owns the remaining items, so such a range
  processes them a second time, or has its end before its begin. The
  scheduler and its batches tolerate an empty range elsewhere (run `batches`); what
  an operation does with the empty stripe that comes of it is its own matter, see
  the median blur below. The OpenCV adapter passes none.
* `threaded_min_max_null`: the threaded `min_max_loc` reads the source in
  `reduce_offset` although its batches refused it as null; the single-threaded
  call returns the error.
* `scale`: the vector path of `scale_u8` for small images keeps the low 16 bits
  of a product before it saturates, so a product beyond 65535 wraps.
* `resize_stride`: enlarging by four on NEON copies an edge row with its whole
  stride and overwrites the bytes behind the next row.
* `gaussian_right_border`: with three channels and a kernel of 13 or more that
  has no class of its own, `load_right` fills two elements from the wrong channel.
* `gaussian_kernel_sum`: a generated half kernel may round two weights up and add
  up to 257/256, so that a white area does not stay white.

Observations made while modelling, without a run of their own. The first six are
in the bounds of a passing run, whose property states where and how the code
departs from the rule, in an operator or a condition of its own: with that
exception dropped, TLC finds the property violated.

* Semi-planar 4:2:0 to RGB in a row of odd width (`ChromaMissed`): on NEON the last
  vector of a row longer than one begins in the middle of a pair, where u and v
  change places; on SVE2 the last pixel's v is not loaded.
* Planar 4:2:0 to RGB at heights of 3 modulo 4 (`PlanesSequential`): every other
  row of the V plane is taken from a place before its own, by the padding of a row.
* RGBA to 4:4:4 with vectors of 1024 bits (`WidensSamples`): the table of two
  registers has an element 255, so that the high bytes of the lanes are not zero.
* The generic resize on SVE2 and SME (`GenericInterpolates`, `WindowsInRow`):
  indices have 8 bits and reach no further than 256 bytes of a window
  (`Addressable`: three registers of 1024 bits, two or three of 2048); with three
  channels and vectors of 256 bits one lane of three vectors is left out of the
  window at ratios near a third, as from 65 to 22 pixels (`LeftOutOfWindow`); and
  rows shorter than the window are read behind their end when they are enlarged
  to more than two vectors (`WindowBehindRow`, `resize_linear_generic_sc.h:131`).
* The fixed-point remap of 8-bit pixels of one channel on NEON reads behind a
  source that is one pixel wide or high, at negative coordinates
  (`BehindSinglePixel`, `remap_s16point5_neon.cpp:56-57`); the weight is zero.
* Median blur of an empty stripe (`RowsStored`, `LeaveImage`), which the scheduler's
  contract allows: the histogram medians store its row `y_begin` all the same,
  behind the image when the stripe is; and for 3x3 windows the bound `y_end - 1`
  wraps when the stripe ends with row 0 (`process_filter_2d.h:85`), so that pairs
  of rows are stored until they leave the image.
* Chroma of planar and of semi-planar output is rounded differently.
* `remap_s16` assumes that the source has a column; the images of the model do.
* Float to integer conversion of NaN differs between scalar and vector paths.
* The comment on `DoubleBufferedIndirectRows` and the workspace's allocation count
  3 times depth pointers, the constructor stores 4 times depth (`types.h:421`);
  the model lets the buffer rows overwrite the surplus, and `RowsCorrect` holds
  because it is never read.
* `parallel_min_max` stores its reduction also when the batches failed
  (`kleidicv_thread.cpp:689`); the single-threaded functions leave the results
  alone.
* The large-histogram median does not check its allocation; a failing allocation
  in the border of an optical-flow level is not reported.
* A thread that holds a slot may migrate to another domain
  (`sme_thread_limiter.h:85`): it then runs on one domain under the slot of
  another, which nothing in the program observes.

## What is not modelled

* Optical flow: its levels are filled by blur and downsample, Scharr and padding,
  which are modelled; the iteration is floating-point arithmetic, which TLC does
  not have. The same holds for the polynomial of exp, the accuracy of float
  products and the division of `warp_perspective`.
* Canny's classification of directions and non-maxima suppression, `sum`,
  `count_nonzeros` and `bitwise_and`.
* 16-bit convolution has the passes of the 8-bit one; its products exceed TLC's
  integers.
* The OpenCV argument translation and the declarations of the API headers:
  stateless. Tests, benchmarks and scripts are read as evidence of intent only.

## Plan

Done: limiter, detection, scheduler, dispatch; row loops, arithmetic and colour
kernels, minimum and maximum; flip, transpose, rotate, padding, resize, remap and
warp; separable filters, Scharr, median blur, morphology, Canny hysteresis and
stack; proofs for the limiter, detection, dispatch, the scheduler, row loops,
threaded reductions, `min_max_loc`, flip, padding, morphology and Canny. What could be proved next:

1. `SeparableFilter`: the part of `RowsFiltered` about stripes, buffers and rows
   that are stored once.
2. `Resize`: that the stripes of a call store each destination row once.
