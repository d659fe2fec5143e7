# Frovedis, specified in TLA+

Frovedis is a C++ library for data analytics on clusters. A program runs as
MPI processes ("ranks"): rank 0 runs the user's code, and every other rank sits
in a loop serving requests that rank 0 broadcasts. On that stand distributed
variables (one piece of data per rank under one id), the containers `dvector`,
`node_local`, `dunordered_map` built on them, and the numerical library. A
frovedis *server* is such a program whose rank 0 serves requests of other
processes (Python, Spark, C++ clients) over TCP.

This directory holds TLA+ modules that model the parts of it where order,
failure and sharing matter, the TLC configurations that check them, and proofs
checked by TLAPS. Paths below are relative to the repository.

## Running

    tlc -workers 2 -config MpiRpc_chunks.cfg MpiRpc.tla     # a model-checking run
    tlapm MpiRpc_proofs.tla                                 # a proof module

The runs, the source lines each definition translates, mutations of
definitions that each property must catch, findings and hazards are listed in
`PROJECT.json`.

## Inventory

| Component | State | Operations | Hard because | Right if |
|---|---|---|---|---|
| MPI RPC engine, `src/frovedis/core/mpi_rpc.cc` | position of every rank in the sequence of MPI collectives | `send_bcast_rpcreq` on rank 0, `handle_one_bcast_req` on workers, `finalizefrovedis` | two copies of one protocol; the path depends on lengths, votes and rounds; ranks run at any speed; any of them may throw | all ranks enter the same collectives in the same order; each request is run once everywhere; the reply is made of that request's outcomes; calls return; finalize ends all |
| Chunked collectives, `mpihelper.cc` | what is still to be sent per rank | `large_bcast`, `large_gatherv`, `large_scatterv`, `large_alltoallv` | rounds, different lengths, zero lengths, elements cut in two | counts of sender and receiver match in each round; the data arrives in order; all ranks end together |
| Distributed variables, `DVID.hpp`, `node_local.hpp`, `dvector.hpp` | `dvid_table` on every rank, `current_dvid`, the C++ objects with id, `is_view`, cached sizes | construct, copy, move, assign, view, destroy, map, mapv, filter, sizes, get/put, head/tail, align, sort | shared ids, caches, exceptions on some ranks only | objects behave like vectors; one owner per id; nothing leaks; caches are fresh |
| Point-to-point data, tree reduction (`DVID.hpp`) | messages under way | `send_data_helper`, `receive_data_helper`, `reduce` | partner may have thrown; reduction order | each message has its receiver; reduction in rank order |
| `dunordered_map.hpp` | as dvector, keyed | `map_values`, `reduce_by_key` ... | routing of keys | a key lives on one rank |
| `zipped_*` | ids of several containers | zipped `map` | lengths must agree | as dvector |
| `split_context.hpp`, `.cc` | stacks of communicators, tables, counters | `push_context`, `pop_context`, `split_context_execution`, `_broadcast` | an engine within the engine, entered and left by each rank at its own time; exceptions inside | ranks never meet in a wrong collective; ids mean one variable; exceptions come out; nothing is left over |
| `shared_vector.cc` | MPI shared windows per machine | construct, `share`, free | memory shared by processes | writers and readers separated by barriers |
| exrpc, `src/foreign_if/exrpc` | connection pool and mutexes of the client process, byte streams, the server's pool of accepted connections | `exrpc_async`/`get`, `exrpc_oneway`, `exrpc_oneway_noexcept`, raw send and receive, finish; accept, select, serve | threads share a stream; replies carry no number; mutex taken in one function and given back in five others; servers end | each reply reaches its call; a free connection is clean; calls end |
| Parallel exrpc | listening sockets on every rank | `prepare_`, `get_..._nodes`, `wait_parallel_exrpc(_multi)` | relies on the order of a call nobody waits for | every rank serves as many calls as announced |
| Server start-up | two sockets | `invoke_frovedis_server`, `init_frovedis_server` | 5 s timeout | both sides agree whether there is a server |
| Raw and shared memory, exposed functions, archives | | | hardware, generated code, formats | |
| Models: `src/foreign_if/server/model_tracker.*`, `exrpc_model.hpp`; Python `exrpc/server.py`, `mllib` | the server's tables of models registered, under training, deleted; the client's server and number generators, and the number, server id and element type in each object | fit, load, query, release, `generate_rules`, `__del__`; start, shut down, `reset` | the number is all that ties object and model; servers come and go; unchecked cast; busy waiting in a sequential server | a request meets its own model, of the type it expects; the server never spins; no model without an object that can release it |
| Sorting, partitioning, set operations on arrays | none | pure functions | vectorised loops, boundaries | equal to their simple definitions |
| Matrices, ML, dataframes, text, clients | | numerical code and bindings | | not modelled |

They interact so: a client's call (exrpc) makes rank 0 of the server run a
function, which uses dvectors and node_locals; each of their operations is one
or a few `bcast_rpc` calls; each of these is a dozen MPI collectives. Ranks
share nothing but those collectives and point-to-point messages; client
threads share the pool and its mutexes.

## Modules

| Module | Models |
|---|---|
| `RpcService` | abstract: what a caller of `bcast_rpc` relies on |
| `MpiRpc` | the engine, collective by collective; implements `RpcService` |
| `MpiRpc_proofs` | theorems about `MpiRpc`: types, agreement |
| `MpiRpc_service` | theorems about `MpiRpc`: what the ranks hand each other; it implements `RpcService` |
| `DistValues` | abstract: containers as independent values |
| `Layouts` | what `dvector` computes from the layout: `locate`, `head_sizes`, `alltoall_size` ... |
| `Layouts_proofs` | theorems about `Layouts`, and the laws of sums they rest on |
| `DVector`, `MCDVector` | ids, tables, objects, caches, with `Layouts`; implements `DistValues`; the instance for TLC |
| `DVector_proofs` | theorems about `DVector` |
| `Sorting` | what sorting numbers comes to |
| `GlobalVector` | abstract: a dvector as one vector |
| `Exchange` | the elements of a dvector on their way between ranks, with `Layouts`; implements `GlobalVector` |
| `Exchange_proofs` | theorems about `Exchange`; it implements `GlobalVector` |
| `Contexts`, `MCContexts` | engines within engines: `split_context_execution` and `_broadcast`; the instance for TLC |
| `Contexts_proofs` | theorems about `Contexts` |
| `Exrpc` | client threads, pooled connections, server nodes |
| `MCExrpc` | instances of `Exrpc` for TLC |
| `Exrpc_proofs` | theorems about `Exrpc` |
| `Models`, `MCModels` | models on the server and the Python objects that name them; the instance for TLC |
| `Models_proofs` | theorems about `Models` |

An operator whose name is another one's with a suffix (`CopyCtor_shallow`) is
that operator with a plausible slip in it. It is part of no specification;
replacing the original by it must make a property fail.

### MpiRpc

A collective on a communicator has no name: MPI pairs the k-th one of each
rank. So the state is `calls[r]`, the sequence of collectives rank r has
entered, with the value r contributes (`val`) and, as history, the request and
position (`req`, `pos`) the code is at. A step `Leave...` of r is the code from
the return of one collective to the entry of the next, so it contains the call
of the wrapper `wpt` between the argument and the vote; `LeaveHdr`/`LeaveArg`
are the two `MPI_Bcast`s of header and argument (`large_bcast`, in chunks of
`MaxCount` = `mpi_max_count`), `LeaveAllreduce` the vote whether anybody
threw, `LeaveGather` the sizes, `LeaveGatherv`/`LeaveDone` the rounds of
`large_gatherv`. `Issue` is the user's program calling the engine. The two
copies of the protocol (root and worker) coincide line by line in what they
enter; where they differ (`EndRequest`, `LeaveGather`, `LeaveGatherv`,
`Finalize`) the action has a case for the root.

When a collective lets a rank go on is MPI's choice. `Awaited` says what MPI
guarantees (an allreduce needs everybody, a broadcast its root, a gather at the
root everybody, elsewhere nobody). The function called contains no collectives
of its own: that is an assumption, and a hazard listed in `PROJECT.json`.

- `MpiRpc_chunks` (2 ranks, 2 requests, arguments of up to two chunks, results
  of up to two rounds): `TypeOK`, `GatherCountsMatch` (sender's and root's
  counts agree in each round), `ExitsServed` (no rank exits owing a request).
- `MpiRpc_ranks` (3 ranks, of which any subset throws, one request):
  `CollectivesAgree`; `ImplementsService`, every step is a step of `RpcService`
  or none; `CallsReturn` and `FinalizeEndsAll`. Fairness: weak, of a
  rank's step out of a collective that all ranks have entered (`AllIn`): only
  then does MPI owe the return, earlier it may let a rank go or not. Functions
  called end. The user's program is not assumed to call anything.

Two ranks suffice for chunks since rounds only relate each rank to the root;
the third rank distinguishes "one of the workers" from "all the workers". Two
requests are needed so that a request meets what the one before left.

### DVector

`RpcService` promises that a `bcast_rpc` has been run by every rank when it
returns, and rank 0 issues one at a time, so an operation of a container is one
step of `DVector`. State: `objs` (C++ objects in the user's program), `table`
(`dvid_table` of each rank; of the data only the number of elements is kept),
`current_dvid`, and `process`, which records that a destructor threw
("terminated") or that an exchange read beyond its data ("crashed"). A helper
that reads an id throws on ranks that do not have it (`Missing`), and with
`Faults` on any others too (`Failing`): user functions, allocation. What was
stored on the remaining ranks stays there.

`MapvPartitions` is `mapv_partitions`, and `mapv` of a `node_local`: the function
gets the data by reference and may leave more or less of it, and the cached
sizes stay as they were. Which objects a program resizes so is a constant,
`Resized`, and whether it does while their sizes are cached another, `SizedToo`;
the server, which empties labels in this way (`exrpc_ml.hpp:110`), does so
whether they are or not.

- `DVector_values` (2 objects, 2 ranks, up to 2 elements per rank, 4 ids; no
  exceptions, views, sort or self-assignment; one of the objects is resized, while
  its sizes are not cached): the caches are right (`CacheFresh`), nothing leaks,
  destructors are safe, and the whole refines `DistValues` (`BehavesAsValues`), in
  which only the objects of `Resized` are ever edited where they are. States
  that differ only in sizes that are not valid, and so not read, count as one
  (`View` of `MCDVector`).
- `DVector_faults` (1 element per rank, 3 ids; everything allowed, resizing both
  objects at any time included): ids have one owner
  (`SingleOwner`), an owner's data is on all ranks or none (`OwnedAlike`), and
  data never appears under a name somebody still holds (`NamesNeverRebound`).
  The program stops when a destructor throws, so deadlock is not checked.
- `DVector_sort_sizes` (up to 2 elements per rank, 3 ids) allows `sort`, resizes
  nothing, and fails; see Findings.

Two objects are all that any operation names; three ids let an id be made,
replaced and still be held by a view. A function that changes the arguments of
another call, which also come by reference, counts as one of `mapv_partitions`
and then another. Ids of temporaries inside an operation
are not counted (they are gone when it returns), and exceptions inside `sort`
and `align_as` are left out, since their helpers exchange data among themselves.

### Exchange

One `dvector` with its elements, of which `DVector` only has the number. `data[r]`
is what rank r holds, `op` the operation rank 0 is in. `Scatter`, `Align`, `Sort`
begin one: a rank's part until its exchange (`sort_local_sort`, the draw of
candidates, `partitioners`; `align_as_calc_alltoall_sizes`) is one step, as
`RpcService` allows. Then each rank goes through the rounds of
`large_alltoallv`, or `large_scatterv`, at its own speed: `Begin` and `LeaveVote`
enter a round with at most `mpi_max_count / N` bytes for each rank
(`local_max_count`), `LeaveRound` takes what arrived and enters the vote
whether all are done; `Arrived` puts elements together again and, in `sort`,
merges the sorted pieces (`multimerge`). A byte is an element and a place in
it, so that a round may cut an element. `Finish` is the id of the result given
to the dvector. `put`, `head`, `tail`, `clear` exchange nothing and are single
steps.

- `Exchange` (3 ranks, up to 3 elements of two values, 3 bytes each, rounds of
  2 bytes a pair): `CountsMatch` (the two ends of a pair, counting separately,
  never differ), `DisplsFit` (no int overflows), `LaidOutAsAsked`,
  `ImplementsVector` (the whole refines `GlobalVector`: nothing is lost, doubled
  or out of order, whatever the candidates drawn), `ExchangesEnd` under weak
  fairness of each rank's step in an exchange and of `Finish`.

Three ranks let a piece swallow another whole, which takes one between the
first and the last; 3 bytes in rounds of 2 cut every element, and a piece of
two elements, or of three, takes 3 or 5 rounds. Equal keys occur (two values, three
elements), duplicates of a partitioner among them. `sizes()` is taken to be
right here, which is `CacheFresh` of `DVector`; no helper throws in the middle
of an exchange; elements are keys, so whether `sort` is stable does not show.

### Contexts

Engines within engines. `ctx[r]` are the globals of rank r (`frovedis_comm_rpc`,
`dvid_table`, `current_dvid`), `saved[r]` the stacks of `push_context`, `act[r]`
the engines r is inside of, and `log[c]` the collectives entered on communicator
c. The engine is reduced to the header and the vote, which `MpiRpc` shows is
enough to know what all ranks do next. `LeaveHdr` serves a request: for a split
it is `init_split_context_execution` up to `MPI_Comm_split`; `LeaveSplit` makes
the new communicator, gives the arguments ids in the new table, and the lowest
rank of a colour becomes the root of the group. `UserAsks`, `UserDrops`,
`UserThrows`, `UserEnds` are the program of a context, `HelperAsks` is
`split_context_broadcast_helper`, `EndContext` is `pop_context` and the way
back into the request of the outer engine.

- `Contexts` (4 ranks, 2 requests at the outermost level, 1 in a context, none
  in a context within it; equal blocks and an interleaved colouring; rank 2's
  functions may throw): `CollectivesPair`, `IdsMeanOneVariable`,
  `BroadcastReachesRoots`, `ExceptionsSurface`, `NothingLeftOver`, and
  `SplitReturns` under weak fairness of every rank inside a call and of the
  functions run in contexts, which are assumed to end.

Four ranks are the least that give two groups of two, so that a group has a
worker and can be split again; rank 2 is the root of one group under blocks
and a worker under stripes, so it throws in both roles. Functions that leave
their variables' destructors to the end of the context, as C++ does, are
assumed: `UserEnds` waits for `own` to be empty. The colour rides with the request
(in the code it is scattered by one before it).

### Exrpc

Threads (`pc`, `req`, `node`, `got`) of client processes share `managing`
(`send_management_lock`), `pool` and `locked` (the mutex of each connection); a
connection is two streams (`up`, `down`); a server node has connections it has
not accepted (`backlog`), the pool it selects from in order of age
(`accepted`), the one it is reading from (`serving`), and may be gone
(`alive`). `Connect` is `handle_exrpc_connect_pooled` up to the mutex of the
connection, `Send` from taking it to the end of `send_exrpcreq` (and the unlock
of calls that read nothing), `Get`/`Read`/`ReadFails` are
`exrpc_result::get`, the reading ends of `exrpc_oneway`, `exrpc_rawsend`,
`exrpc_rawrecv`; `Accept`/`Select` are `handle_exrpc_accept_pooled` and
`Process` is `handle_exrpc_process`. A reply is a sequence of parts, as many as
a reader takes one at a time. Bytes, sizes and the called functions' own
effects are abstracted: a call has an outcome, "value", "exception" or
"not_exposed".

- `Exrpc_calls` (two threads in one process, one of which makes two calls, a
  thread of another process, one server that may be shut down or killed by an
  exception): a call reads its own reply (`RepliesMatch`), a free connection
  is clean, calls of one thread are handled in order, and `StreamInv` (the
  inductive invariant, which also says that one call at a time is on a
  connection).
- `Exrpc_live` (two threads, two servers that stay): each call ends
  (`CallsEnd`), and no mutex is held when none is under way
  (`LocksReleased`). Weak fairness of threads and servers: they run on. Strong
  fairness of `Send`: a mutex that is free again and again is given to each
  waiter in the end, which pthreads leave to the scheduler. The program calls
  `get()` on each result before it calls that node again.
- `Exrpc_stale` adds a `oneway_noexcept` call of a function that is not
  exposed, and fails; see Findings.

Clients stop after `MaxCalls` calls and servers may end, so deadlock is not
checked. One connection with three users is where streams can be confused; a
second node matters only for waiting, and is in `Exrpc_live`. Clients do not
die, and `MAX_CONNECTION` is not reached.

### Models

`obj[o]` is the number and the server id in a Python object, `mtype` the element
type an estimator was last given, `fitted`, `held` and `rule` what else the
client knows; `server` is the server process with
`model_table`, the deleted-model tracker and the tracker of models under
training; `inst`, `sids`, `mids` are `FrovedisServer.__instance` and the two
generators. Three ways of keeping a model: an estimator (`LogisticRegression`)
has one number for life, `FPGrowth` takes a new one at each fit, and `FPRules`
are made by `generate_rules`, which keeps a reference, or loaded. An action is
a method of an object with the requests it makes; Python's reference counts
decide when `__del__` runs (`Dropped`, `Delete`). Servers are shut down, die,
are forgotten by `reset`, and are started by the next object that needs one.

A model has a type, and every request casts what it finds to the type the object
stands for: `FPM`, `FPR`, or `logistic_regression<T>` for the element type T of the
last fit or of the file loaded (`TypeOf`). A refit is the exception. It goes on
training the model under the number, through a pointer to the type of the *new*
input (`frovedis_lr`), and an object keeps its number, so floats and then doubles
make it cast a model to another type. What follows is undefined: in `FitEstimator`
the refit may succeed, fail, or take the server down.

- `Models` (one estimator, two element types, one `FPGrowth`, two `FPRules`, two
  servers, four numbers): `RequestsReachOwnModel` (what is under an object's number
  is its own model, and if the object is fitted, of the type its requests cast it
  to, after a refit with another type too; the cast in such a refit itself is not
  claimed to be right), `NeverSpins`, `HeapOwned` (every model of
  FPGrowth or FPRules has an object that can release it), `UsableUntilReleased`.
- `Models_refit` (the same): an object fitted with a server that is gone cannot
  be fitted with the next one; see Findings.

Two servers are needed for an object to outlive one; four numbers for a fit,
its rules, and both again; two types for a refit to change them. Rules are
interchangeable, and so are types (`Symmetry` of `MCModels`). One client makes synchronous calls, as the library
does; the start of a server does not fail; ids do not wrap; a shell left by a
C++ move is not counted as a model.

## Findings

- `dvector::sort` (`dvector.hpp:2407`) keeps the sizes cached before it
  (`DVector_sort_sizes`).
- An `FPGrowth` or `FPRules` object fitted with a server that is gone fails at
  its next fit, which asks the new server to release a model it never had
  (`fpm.py:169`, `Models_refit`).
- `inform_no_exposed_function` answers calls that read no answer
  (`exrpc.cc:619`), and the next call on that connection reads it
  (`Exrpc_stale`).

Met while modelling, and listed as hazards with the
restriction under which the properties hold: `sort` drops the ids of the data it
replaces; self-assignment of a `dvector` or `node_local` deletes the data, and
the destructor then throws; the second release of an estimator only warns, and
its model stays on the server; `split_context_broadcast` called from a context
without the world's rank 0 brings the payload to no root; ids of shared memory
are not among what `push_context` saves; `mapv_partitions` leaves the sizes of
what it resizes in the cache, and `sizes()`, of which `manual_cpp.md:832` says that
it returns the size of each local vector, answers from it; a refit of
`LogisticRegression` with another element type casts its model to a wrong type,
though `warm_start` (`logistic_regression.md:137`) is to reuse or erase the
previous solution whatever the input.

## Proofs

`MpiRpc_proofs`, for every number of ranks, chunk size not below it, set of
lengths and bound on requests:

- `TypeCorrect`: `Spec => []TypeOK`.
- `EngineAgrees`: `Spec => []CollectivesAgree`. That all ranks agree so far is
  not inductive: a rank that has not moved yet must be known to move the same
  way. `AgreeInv` adds `Chained` (what follows a rank's k-th collective is
  `NextLabel` of it, a function of the issued requests, the votes of all ranks
  in it and the root's `done`, all of which are fixed once the collective is
  over for one rank, `Passed`), `RootCalls` (the root broadcasts the header it
  issued), `Serving` (a rank works from the header of the request it is at)
  and `RootTurn` (where the root stands between calls). Agreement at k+1 then
  follows from agreement at k.

`MpiRpc_service`, with the same assumptions, on `AgreeInv`:

- `RanksLeaveServed` (`ExitsServed`). `ServiceInv` says what a vote and a size
  are of: what a rank puts into an allreduce or a gather is about the request
  the collective belongs to (`Votes`), where each rank stands in its request
  (`Phase`), what the root received (`Received`), and that a rank that left owes
  no request (`Account`).
- `EngineImplementsService`: every step of the engine is a step of `RpcService` or
  none. The step that matters is the root's return: all ranks have run the
  request, because it has their sizes or their votes.
- `ChunksMatch` (`GatherCountsMatch`): the chunks the ranks send in a round of
  `large_gatherv` are those the root expects. `Chunks` is what each rank has
  still to send; `Rounds` relates the root's count of it to each rank's, which may
  be a round behind the root or one collective ahead of it.

`Layouts_proofs`, for every number of ranks and all layouts. `Layouts` sums with
the folds of the community modules; that a fold does not depend on the order
(`SumTakesOut`) is proved by induction on finite sets, which is obtained from the
library's well-founded orders as the absence of a smallest counterexample. From
the laws of sums: `AlignArrives` and `AlignLeaves` (what `alltoall_size` makes
the ranks send each other is, for each receiver, the layout asked for, and for
each sender what it has), and bounds on `head_sizes`, `tail` and `align_block`.

`DVector_proofs`, for every number of ranks and objects and all layouts. With
views, sort, self-assignment and helpers that throw anywhere:

- `UniqueOwner` (`Spec => []SingleOwner`) and `NeverRebound` (`Spec =>
  NamesNeverRebound`). Neither holds of a state by itself: an object that named
  an id not yet handed out would come to share it. `OwnerInv` adds that every id
  an object names is below `current_dvid` (`Named`); every step then either
  leaves an object its id, takes it away, hands it over, or gives one object a
  new one (`HandOver`, `ChangeStep`), and stores data only under ids that are
  new or already hold data (`NewDataFresh`).
- `TypeCorrect` and `AllOrNothing` (`OwnedAlike`), together in `SizesInv`. The
  sizes stay within `MaxSize` because no operation makes more elements than it
  takes (`Bounded`), for which the sums are needed.

What happens after an exception, a sort, a self-assignment or the resizing of
what has its sizes cached is among the findings and hazards: data leaks, caches go stale, a destructor throws. The other
properties therefore hold under provisos, each theorem's own, and each false
without them:

- `NothingLeaks` (`NoLeak`) with no exceptions and no `sort` (which drops the ids of
  the data it replaces), by `LeakInv`.
- `NoTermination` (`DestructorsSafe`) with no exceptions, views or
  self-assignment, also with `sort` and whatever is resized.
- `CachesFresh` (`CacheFresh`) and `LikeValues` (`BehavesAsValues`, the refinement of
  `DistValues`) without `sort` as well, and without `SizedToo`: functions given to
  `mapv_partitions` may resize any object of any set `Resized`, but not while its
  sizes are cached (`Stale` stands for the two). The invariant of the three is `ValueInv`: every
  object names data that all ranks hold (`Backed`), and its cache, if valid, is of
  that data (`Fresh`). For the refinement, each action is shown to be one of the
  abstract operations on the values (`Constructs`, `Copies`, `Moves`, `Removes`,
  `Realigns`, `Rewrites`, `Drops`) or to leave all values (`ValuesStay`).

`Exchange_proofs`, for every number of ranks, size of an element, `mpi_max_count`
not below the number of ranks, set of elements and layout:

- `Invariant`: `Spec => []ExchangeInv`. Bytes sent and received are no invariant by
  themselves: that a rank's part of a round is what its partner expects must
  follow from where both are. So `ExchangeInv` says that an exchange follows
  its plan (`Planned`: what the operation asks for, in terms of the vector), and
  that for each rank the k-th round in its log is the k-th chunk of what it has
  for each partner (`LogInv`), that it has sent and received the chunks of the
  rounds it entered and left (`SentInv`, `HereInv`), and that a vote says no
  more than is so.
- From it `TypeCorrect`, `CountsAgree` (`CountsMatch`), `DisplacementsFit`
  (`DisplsFit`) and `AsAsked` (`LaidOutAsAsked`).
- `IsVector` (`ImplementsVector`), the refinement. A vector is determined by its
  length and by where each rank's elements are in it (`IsGlobal`). When all ranks
  are through, what has arrived is put together element by element: the source of
  a scatter (`ScatteredIs`), the vector an `align_as` began with (`AlignedIs`, where
  the parts of `alltoall_size` must lie end to end on both sides), and for `sort`
  the sorted vector (`SortedIs`): `multimerge` merges (`MultimergeIs`, its
  recursive function has a solution by `MergesExist`), nothing is lost or doubled
  (`SortedCounts`, a sum over ranks taken both ways), and ranks ascend because
  partitioners do, whichever candidates were drawn (`RanksAscend`). `put` finds its
  element (`PutIs`), `head` and `tail` leave what they say (`HeadIs`, `TailIs`).

`Exrpc_proofs`, for all sets of threads, processes and nodes and all calls:

- `TypeCorrect`, and under `OnlyKnown` (no call that does not wait names a
  function that is not exposed, the case of `Exrpc_stale`): `StreamsOwned`,
  `NoStaleReply`, `FreeIsClean`, `Exclusive`. The inductive invariant
  `StreamInv` says that between taking a mutex and giving it back a call is
  alone on its streams: either its request is the last one going up, behind
  requests that are not answered, and nothing comes down (`Asked`), or what
  comes down is exactly the rest of its reply (`Answered`). `CleanWhenFree`
  hands that on to the next call.
- `InOrder` (`HandledInOrder`), without any proviso. The requests of a thread are
  numbered below the one it is at (`Numbered`), travel on the connection of its
  process (`Routed`), and wait in it in order and behind what was handled
  (`InLine`).
- `NothingHeld` (`LocksReleased`) under `NoneEnds`: no call ends the server. The
  reply of a server that ended never comes, and the caller keeps the mutex.

`Models_proofs`, for any estimators, `FPGrowth`s and `FPRules`, any set of element
types and any bounds on servers and model numbers:

- `TypeCorrect`, `OwnModel` (`RequestsReachOwnModel`), `NoSpin` (`NeverSpins`),
  `Owned` (`HeapOwned`) and the action property `StaysUsable`
  (`UsableUntilReleased`). None is inductive: a number must first be known to be in
  one object only (`Numbers`), rules to belong to one `FPGrowth` (`References`),
  what is under an object's number to be its own even when nobody can reach the
  object (`Own`), a marked number that is still in an object to have its model
  (`Marks`, so that the loop is not reached), and a model with an owner never to
  have been released under its number (`Kept`: a number in
  `deleted_model_tracker` is not released a second time, so it would stay). A
  method changes these in several steps, a release, the rules that go with it, a
  new number, a new model; `ModelInv` is therefore stated of given values and
  followed through the middle of the methods (`Starts`, `Loses`, `GivesUp`,
  `Moves`, `Numbered`, `Trained`). For the types, `Typed` adds that the model of a fitted estimator is of the type the
  object keeps; it survives a fit that fails only because the object is then no
  longer fitted. `StaysUsable` follows from the numbers being one
  object's each: a release takes away only what is under the number released.

`Contexts_proofs`, for every number of ranks, any bounds on what programs do, any
colours and whoever throws:

- `InvInvariant`: `Spec => []Inv`. What a rank does next depends on a log that others
  write and on engines it left behind, so no property above is inductive. `Inv`
  says of each communicator (`CommOK`) that its log has at most three entries not
  everyone has gone past, each following from the one before (`Shape`); that
  each member is in the entry its engine says, and owes the request its root has
  sent or does not (`Serves`, `Owing`); that the tables hold what the root knows
  of, before that request or after it (`MemberOK`, `Before`); and what the votes
  say. A member is seen from outside too: about to make the communicator, inside, or
  back in the vote (`View`), since ranks go in and out each at its own time.
  Between communicators it says that the one another was split from is in the
  split or past it (`UpOK`), and that whoever has not made its part makes it with
  all its ranks (`Orphans`); and of each rank, that its engines and its stacks fit
  (`LevelOK`). `CommOK` is a predicate of given values, so that a step is first
  followed on the one log it changes (`EnterAny`), then on one communicator, then
  on two for `LeaveSplit` and `EndContext`.
- From it `TypeOKHolds`, `CollectivesPairHolds`, `IdsMeanOneVariableHolds`,
  `ExceptionsSurfaceHolds` and `NothingLeftOverHolds`.
- `BroadInvariant`: `Spec => []BroadInv`, on top of `Inv`, for
  `split_context_broadcast`. The argument must be on the first rank of each colour
  when the call returns, though it went there in requests of a context that is
  over by then, and though any rank may since have dropped variables of contexts
  within. `BroadInv` says that a program owns what was made on its communicator and
  has only such variables dropped (`Home`, `Clean`), so that nothing below the
  outermost communicator takes away a payload made on it; and it follows the helper of
  rank 0 through its three requests (`Helper`): once it has sent the move, a rank
  of its group has the payload or has not served the move yet, and its finalize comes
  after all have. From there the end of the context hands that on to the request
  that made it (`Brought`), and the vote to the call that returns.
- `BroadcastReachesRootsHolds`: with it, since the lowest rank of a colour is one of
  those `heads_color` gives the colour 0 (`HeadsRoots`).

Only model-checked: liveness, which is beyond TLAPS. Every invariant and every safety
property of a passing run is proved. The assumptions on constants are the named
`ASSUME`s of each module, which TLC evaluates in the runs.

## Plan

Done, in this order, each on what stood: `MpiRpc`, `DVector` (which uses only
`RpcService`), `Exrpc`, `Contexts` (engines of `MpiRpc` inside its requests),
`Exchange` (under `DVector`), `Models` (on `Exrpc`'s synchronous calls). Next:

1. A `wpt` that runs collectives and may throw before them, which leaves the
   ranks in different collectives; `get`/`put` with a partner that throws; the
   tree of `DVID::reduce` against a fold in rank order.
2. A finer `Exrpc.Connect`, with the look-up outside the lock, several
   unfetched results per thread, and clients that die.
3. `ParallelExrpc`: `Exrpc` between clients and each rank, started by a call
   nobody waits for, with the counts of `wait_parallel_exrpc_multi`.
4. The start of a server (invoke/init handshake with its timeout), on which
   `Models` stands.
5. Routing of keys in `dunordered_map`, `shared_vector`, and the array
   algorithms as functions against reference definitions.

## Not modelled

Matrices, machine learning, dataframes and text are numerical and column code
over local arrays: no order or failure of their own beyond the `dvector`
operations they call, and values beyond TLC. The server functions are thin
wrappers around them, one for each call of a client. Serialization, archives and
logging are formats and output; the VE variants of raw transfer are hardware
interfaces. Point-to-point requests of the engine (`send_rpcreq`,
`handle_one_req`) have no caller. `zipped_*` hold several ids and delegate to
`DVID::map`. Spark's client, and the Python objects that keep matrices and
dataframes, keep numbers in the ways `Models` has, with other trackers. The rest is
in the plan; `PROJECT.json` says for each part how far it is modelled.
