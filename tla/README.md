# unbound4j in TLA+

A verification development for unbound4j, the JNI library that makes asynchronous
reverse DNS lookups through libunbound. The modules are translated from the code
under `src/`; line numbers below are of that code.

## The system

| Part | Source | State | Operations |
|---|---|---|---|
| Context registry | `jni/src/unbound4j.c` 38-221, `unbound4j.h` | `g_contexts`, `g_ctx_lock`, `g_cfg_lock`, `ub4j_context` objects | `ub4j_init`, `ub4j_create_context`, `ub4j_delete_context`, `ub4j_free_context`, `ub4j_destroy` |
| Reverse lookups and query tracking | `unbound4j.c` 223-349 | `g_queries`, `g_query_lock`, `ub4j_query` objects | `ub4j_reverse_lookup`, `ub_reverse_lookup_callback` |
| Processing thread, one per context | `unbound4j.c` 351-442 | `stopping`, `tv_now`, `rfds` | the select loop, the expiry pass, the clean-up |
| libunbound | not in the repository | the asynchronous queries of each `ub_ctx` | `ub_resolve_async`, `ub_process`, `ub_cancel`, `ub_ctx_delete` |
| JNI bridge | `unbound4j_jinterface.c`, `jniutils.c` | `g_java_refs`, callback contexts, global references, futures | load and unload, the four native methods, the callback |
| Reverse domain names | `dnsutils.c` | none | the IPv4 and the IPv6 builder |
| Wire-format names | `sldns.c` | none | scan of a dname, printing into a fixed buffer |
| Hash table | `uthash.h` (third-party) | buckets and the list in order of insertion | find, add, delete, iterate |
| Logging | `log.c` (third-party) | settings | `log_log` |
| Load driver | `main.c` | `done`, the address generator | twelve threads that look up and one that waits |
| Java API | `java/src/main` | the id of a context, the configuration | `newContext`, `reverseLookup`, `close`, loading of the native library |

How they interact: a Java call enters through the JNI bridge, finds its context in
`g_contexts` (read lock, released at once), then under the write lock of
`g_query_lock` submits the query to libunbound and adds it to `g_queries`. The thread
of the context polls libunbound, which calls `ub_reverse_lookup_callback`; that calls
the delegate (the bridge completes a future) and takes the query out of `g_queries`.
The same thread looks at the head of `g_queries`, and cancels and calls back what has
expired. Closing takes the context out of `g_contexts`, tells the thread to stop,
joins it (it calls back everything left in `g_queries`) and frees.

What is hard: `g_queries` is one table for all contexts, while the numbers of the
queries and `ub_cancel` belong to one context; answers may come before the query is
tracked; a context pointer is used after its lock was released; expiry relies on the
order of the table and on the wall clock; a lock is held while user code is called, in
the middle of a loop over the table; `ub4j_destroy` joins threads while it holds a
lock; `select()` changes the set it waits for. `PROJECT.json` lists every such place with its line.

What makes each part correct: a lookup is refused at once or called back exactly once,
whatever libunbound does (tracking); a time-out has a cause and silences libunbound
(processing thread); memory is released once nobody uses it and every call returns
(registry); a future is completed once and its callback context freed once (bridge);
different addresses give different names (reverse names); the printed name is the
labels that were there, within the buffer (wire names); the list and the chains hold
the same items, in order, while loops delete from them (hash table); an answer and a
stop are noticed in bounded time (select loop).

## Modules

| Module | What it is |
|---|---|
| `Libunbound` | External: what the calls of `unbound4j.c` do to libunbound's queries. `ub[q]` says what became of query `q`, `ubCtx`/`ubId` are the context it was submitted to and its number there. |
| `ContextRegistry` | `phase[c]` follows one `ub4j_create_context` ... `ub4j_free_context`; `heap[c]` is what of it is allocated; `tpc[c]` the program point of its thread. Each action is a stretch of code between two points where another thread can look. |
| `Unbound4j` | The whole of `unbound4j.c`: `g_queries` as the sequence `HASH_ITER` visits, `queryLock` the writer of `g_query_lock`, `lpc[q]` the program point of the lookup that allocates `q`, `current[c]` and `tvNow[c]` the locals of the thread. |
| `LookupService` | The abstract specification: refused or accepted, told once, a time-out only with a cause. |
| `Unbound4jProperties` | The properties, the refinement mapping and the inductive invariants. |
| `MCUnbound4j` | Instances for TLC. |
| `TableLemmas` | Adding to and deleting from a sequence without repetition; induction and recursion over places. |
| `Unbound4jProofs` | Proofs for any use of the library, callbacks that call it and a clock that is set back included. |
| `SequentialProofs` | Proofs for contexts used one after the other, and that `Unbound4j` then implements `LookupService`. |
| `ClockSetBack` | `Unbound4j` under a wall clock that is set back; `back` counts by how much. |
| `MCClockSetBack` | An instance of it for TLC. |
| `Reentrancy` | `Unbound4j` with callbacks that call the library: `doing[c]` is what the callback on the thread of context `c` is doing (running, looking up, closing, freeing, waiting). A lookup or close is the one of `Unbound4j`, step by step, on that thread. |
| `MCReentrancy` | Instances of it for TLC. |
| `OrderedTable` | The abstract table: append, delete, and a loop that deletes what it visits. |
| `Uthash` | The macros of `uthash.h` that `unbound4j.c` expands: `next`/`prev`/`tail` are the list, `tbl` the buckets with their chains and the counters that decide on expansion, `el`/`tmp` the variables of `HASH_ITER`, `order` the history the list must agree with. |
| `MCUthash` | An instance of it for TLC. |
| `UthashProofs` | The list is always in order and the macros implement `OrderedTable`; the chains hold the items of the list and stay bounded through every expansion. |
| `SelectLoop` | The wait of `context_processing_thread`, tick by tick: `rfds`, `tv`, `ret` and the answers in the pipe; `waited`, `stopWait` and `slept` are history. |
| `SelectLoopProofs` | How long an answer and a stop may wait. |
| `JniBridge` | `unbound4j_jinterface.c` and `jniutils.c` on top of `LookupService`: `java[c]` is what Java knows of a context, `native[q]` where a `reverse_lookup` is, `future[q]` and `cbctx[q]` its future and callback context, `cpc[c]` where the thread of `c` is in `callback()`. |
| `MCJniBridge` | Instances of it for TLC. |
| `JniBridgeProofs` | Proofs about the bridge. |
| `Dname` | `sldns.c` as `ub_reverse_lookup_callback` uses it: `pos` is how far the scan is in the record data, `out` the buffer (`text`, `room`, whether it is terminated) and, as history, everything `printed`, whose length is what the functions return. |
| `MCDname` | Instances for TLC, and the bound on a text that the comment at the buffer gives. |
| `DnameProofs` | The scan stays in the data and the printing in the buffer; a reader gets the name back from its text. |
| `ReverseDomain` | `dnsutils.c`: the names of IPv4 and IPv6 addresses as sequences of labels. |
| `MCReverseDomain` | An instance of it. |
| `ReverseDomainProofs` | The name determines the address, and the documented examples get their names. |

A lookup and the query object it allocates have one name, as have a context, its
`ub_ctx` and its thread. A critical section in which no other thread can observe an
intermediate state is one action; the sections in which callbacks run or libunbound is
called are several, with the lock held in between (`queryLock`). A use of released
memory sets `fault` and ends the behaviour: nothing is claimed of what follows.
`JniBridge` does not repeat the table, the locks and libunbound: its actions use those of
`LookupService`, which `Unbound4j` is shown to implement, so a callback may come at
any moment after a lookup was accepted, before the native call has returned too. Those
promises hold of contexts used one after the other (`SequentialUse`), so the bridge is
modelled for that use only: `MayCreate` lets a context be created when no other one is
alive, `MayClose(c)` lets `c` be closed when no native call on it executes, as
`InterfaceTest.java` does. An expiry pass or a clean-up calls back whatever the shared table
holds (`unbound4j.c:399-408`, `427-435`); accordingly `CallbackBegin` lets any running
thread time out any lookup, and that the thread is always that of the lookup's own
context is proved (`OwnThreadCallsBack`). With overlapping contexts another context's
thread may take a lookup over and its cancel may miss (`overlapping_cancel`); what futures
and callback contexts then suffer is not modelled. What the bridge assumes beyond
`LookupService` is named: `Quiet(c)`, that a joined thread has called everything back, is
`CloseKillsOutstanding` with `AcceptedIsCalledBack`.

Two modules join the code at an interface. `Unbound4j` sees a table as the sequence
`HASH_ITER` visits; `OrderedTable` states what it needs of one, `Uthash` is shown to
provide it (`ImplementsTable`) and `Unbound4j` to ask for no more
(`UsesTableAsSpecified`: nothing is added or deleted from outside while a loop runs,
which would leave the loop with a remembered item that is gone). `SelectLoop` details
the wait that `Unbound4j` abstracts to `ThreadWake`.

In `Reentrancy` a lock call of a thread that holds the lock, and a join that would make
threads wait for each other, return an error (glibc's EDEADLK). What else a callback does
blocks its thread, with `g_query_lock` held when it was called because of a time-out or a
close.

`tvNow[c]` is set to 0 where `tv_now` goes out of use, so that states that differ
only in a dead local coincide.

Names such as `HASH_ADD_AtHead` or `Joined_NoWait` are versions of an operator with a
plausible slip in it. No specification uses them; putting one in the place of its
original makes a property fail, which shows that the property watches that code.

## Runs

| Run | Checks | Instance |
|---|---|---|
| `sequential_safety` | `TypeOK`, `CalledBackOnce`, `NoUseAfterFree`, `HeadExpiresFirst`, `CancelSilencesLibunbound`, `CloseKillsOutstanding`, `ThreadsAndTableHaveContexts`, `ImplementsService` | two contexts used one after the other, three lookups |
| `sequential_liveness` | `AcceptedIsCalledBack`, `CloseReturns`, `DestroyReturns`, `LookupReturns`, `LateByTheSetBack` | one context, two lookups, a clock that may be set back by two seconds, fairness |
| `any_use` | `OneConfigLoadAtATime`, `TableHoldsLiveQueries`, `AnsweredIsInTable`, `OneTableWriter`, `UsesTableAsSpecified`, `UnderWayGoesOn`, `StandstillNeedsWaitingCallback` | two contexts that may overlap and be closed under executing lookups, two lookups, callbacks that look up, close and wait |
| `bridge` | `CallbackContextLife`, `CompletionFindsPending`, `FutureTellsOutcome`, `DetachedBetweenCallbacks`, `StringsReleased`, `FutureCompletes` | two contexts used one after the other, two lookups, a JVM that may fail for one context, fairness |
| `hash_table` | `HashTypeOK`, `ListInOrder`, `ChainsHoldItems`, `ChainsBounded`, `ImplementsTable` | five items, three keys of which two collide, one bucket to begin with and up to eight |
| `select_loop` | `AnswerWithinASecond`, `StopWithinASecond`, `TimeOutSleeps` | three ticks a second, two answers, two failing calls |
| `dname` | `DnameTypeOK`, `ReadsInside`, `BufferHoldsBeginning`, `TextTellsName` | every record of up to five bytes of six kinds, buffers of 6 and 32 |
| `reverse_domain` | `NamedAsDocumented`, `QuestionsDiffer` | every pair of 515 addresses |
| `dname_long` | `NameFits`, violated | the longest name, of unprintable bytes |
| `overlapping_cancel` | `CancelSilencesLibunbound`, violated | two open contexts |
| `close_calls_back` | `NoCallbackOnceClosed`, violated | one context at a time |
| `reentrant_close` | `JoinedBeforeFreed`, violated | one context, a callback that closes it |

The sequential runs take the library as `main.c` and `InterfaceTest.java` use it: one
context at a time (`OverlappingContexts = FALSE`), closed when its lookups have
returned - not when they have been answered (`CloseDuringLookup = FALSE`). There the
code does what it should. With overlapping contexts it does not: `overlapping_cancel`
shows that a query may be cancelled in the wrong Unbound context (the comment at
`unbound4j.c:403` says it is silenced). `close_calls_back` shows that, even with one
context, closing does call back, which `Unbound4jContext.java:20` denies.

The expiry pass looks at the head of the table alone, which is right while the table is
ordered by expiry (`HeadExpiresFirst`). A clock that is set back and contexts with
different time-outs break that order; `LateByTheSetBack` says by how much: an expired
query waits behind the head for at most the set-back and what the context of the head
waits longer.

Callbacks that call the library (`any_use`, `reentrant_close`) run on the processing
thread. From a time-out or a close they run under `g_query_lock` in a loop over the
table, and a nested lookup is refused by the lock: a retry of a lookup that timed out,
made where the time-out is reported, always fails. That refusal is what keeps the loop
on a sound table; `Refused_Again`, a lock that its holder may take again, violates
`UsesTableAsSpecified`. A callback that closes its own context frees it under the thread
it runs on (`reentrant_close`, against the comment at `unbound4j.c:208`).
`UnderWayGoesOn` says that nothing else waits in a circle: while a lookup, a creation, a
close, `ub4j_destroy` or a pass of a thread is under way, one of them can go on
(`SomethingReady`), without a new call, an answer, a time-out or a return from `select()`
to help it, unless a callback waits (`CallbackWaits`): for another lookup, for another
thread's end, or, looking up or closing, for `g_ctx_lock`, which `ub4j_destroy` holds
while it joins the thread the callback runs on. `SomethingReady` is written in the guards
of the actions; `StandstillNeedsWaitingCallback` compares it with ENABLED: where nothing
at all can step, nothing is ready, and a callback waits.

`hash_table` shows that an item is found after every expansion, that chains stay within
the limit of their bucket until the table gives expansion up, and that the loops of
`ub4j_destroy`, the expiry pass and the clean-up come to every item, the last too, whose
deletion frees the table. `select_loop` shows that an emptied `rfds` costs latency only:
an answer waits a second at most, and one more for each failing call, because a time-out
is treated like an answer (`MayRead_Only` is the loop that does not).

`bridge` shows that no callback works on a freed callback context though callbacks race
the native calls, that a future gets one result, which says what became of the lookup (a
time-out is an exception, never the null that means "no name"), and that every early exit
of `callback()` and `create_context` cleans up what it should. For the contexts in
`JvmFails` the processing thread may not be attached, or a string or exception not made,
and the future then stays pending for ever; `FutureCompletes` is claimed for the others,
before or after a context that fails. It needs the sequential use: without `MayCreate` the
thread of the failing context may time out a lookup of the other one and leave its future
pending, and TLC finds that. The model also records what is
never released: the global reference of every future, and the callback context of a
refused lookup.

The name runs show that the text of a well-formed name gives the name back and that no
input, well-formed or not, leads the scan out of the data or the printing out of the
buffer. libunbound hands over well-formed names only; the function is modelled for any
bytes. `dname_long` shows that the buffer is not as large as the comment at
`unbound4j.c:229` takes it to be: escapes make a name up to four times as long. A text
that is as long as its buffer is also left without a terminator when a plain character
fills the last byte (`Store`; `out.ended` is then false); `NameFits` is what would exclude
it, and `TextTellsName` claims a terminated text only of a buffer larger than the text.

Bounds. `Horizon` is the last second in which a lookup starts and `MaxClock` the last
second of the clock, late enough for everything to expire. Two lookups are enough for
an answer to race a time-out of another query, three for a deletion in the middle of
the table; two contexts for one to be opened after another, or next to it. Time-outs
of 1 and 0 seconds (a sub-second time-out is rounded down by
`Unbound4jConfig.withRequestTimeout`) give queries that expire in different orders.
Five bytes make two labels or one that is cut short, with every kind of byte in every
place; 6 and 32 stand for a buffer that is too small and one that is not. The addresses
of `reverse_domain` have bytes of one, two and three digits and of different nibbles,
at both ends.
Lookups are symmetric in the safety runs. libunbound's numbers are bounded by the
number of lookups.

In `any_use` every query expires at once, so that each callback may come from an answer,
a time-out or a clean-up in any order without a clock; the races with the clock are those
of the sequential runs. Two contexts are enough for each to close the other from a
callback. Five items and a capacity of two (ten in the code) reach eight
buckets and tables that have given expansion up; two colliding keys and a third give
chains that are longer than ideal and buckets that are empty. Three ticks a second separate an answer that comes at
once, in between and at the end; two failing calls separate one from several.

Fairness (`FairSpec`): threads run, calls that have begun are executed, and the clock
advances. In the bridge: `LookupService` calls back (`AcceptedIsCalledBack` of
`sequential_liveness` is that promise), calls of the JVM return. A waiting lock
acquisition is only weakly fair; that is enough because what it waits for is finite.
Nobody has to make a call or set the clock back, `ub_process` may return with answers
unread and libunbound never has to answer: the time-out alone must do it.

## Proofs

Everything below is proved for all sets of contexts and lookups and all time-outs,
from the assumptions of the modules alone: names of contexts, lookups and the "nobody"
values differ (`NamesAssumption`), usage constants are Booleans, times are numbers and
`MaxClock` is late enough for every deadline (`ClockAssumption`, `BridgeAssumption`), a
hash table has items, buckets and a capacity (`HashAssumption`), a second has ticks
(`LoopAssumption`).

Any use (`Unbound4jProofs`): `AnyUseInv` is inductive, not only for `Unbound4j` but also
for callbacks that call the library (`Reentrancy`) and for a clock that is set back
(`ClockSetBack`): `AnySpec` stands for a behaviour of one of the three. It gives the type
invariant and the invariants of the `any_use` run about the table and the locks. `TypeOK`
alone is not inductive, because the thread deletes `current[c]` from the table and only
the table, the lock and the allocation state together say that it is there. `LiveIsHeld`
(the object of a query whose lookup was not refused is live exactly while its lookup
fills it in or the table holds it) with `OneTableWriter` gives that: when the lock is free
and the object is not freed, the table must hold it. `ContextLife` ties the phase of a
context to its heap, its thread, `g_contexts` and `g_cfg_lock`. `TableUse` maps each step
to one of `OrderedTable` or a stutter; it needs that the thread in a loop holds the write
lock (`LoopHoldsLock`), which is what refuses a nested lookup.

No circle of waits (`NothingWaitsInACircle`): `UnderWayGoesOn` follows from `AnyUseInv` and
`CallbacksInv`, which is inductive with it. Whoever holds the write lock of the table needs
no other lock, unless its callback does (`HolderGoesOn`, from `OneTableWriter`). While
that lock is free, an awake thread can go on (`AwakeGoesOn`), hence a join ends, because
the thread to be joined was told to stop (`StoppedToBeJoined`); and what is being unmade
is unmade by somebody who goes on: one callback (`UnmadeByOne`), on a thread that is awake
while its callback runs (`CallbacksOfThreads`), or `ub4j_destroy`, whose victim it is, or
another thread. `NothingStopsWithoutNestedCalls`: where callbacks make no calls the
exception falls away.

That a context is freed only once its thread has ended (`JoinedBeforeFreed`) is an
invariant of its own, for all uses but one: `reentrant_close` violates it. From it follows
`ThreadsAndTableHaveContexts`.

Order of the table (also `Unbound4jProofs`): `InOrderButFor(b)` says that of any two
queries in the table the one in front was made no more than `b` seconds later than the
other, that no query and no thread has read a time later than `b` past the clock's. With
`b = 0` it is inductive under a clock that only advances, for any use; with `b = back`
under one that is set back, where `LateByTheSetBack` follows from it. It has to be stated
about the seconds in which the queries were made: their expiries differ by the time-outs
of their contexts too.

Sequential use (`SequentialProofs`, under `SequentialUse`: contexts do not overlap and
none is closed under a lookup): `SequentialInv` is inductive together with `AnyUseInv`,
and gives the invariants of `sequential_safety` besides the type invariant, under any
clock. It says that whatever libunbound holds is outstanding and was submitted to the
context of its lookup (`HeldQueries`), that conversely libunbound holds what is
outstanding until its thread is about to untrack it, and that this thread has not ended
(`OutstandingQueries`, `Untrackings`), that two queries of one Unbound context have
different numbers, so that `ub_cancel` hits the query it is meant for (`DistinctIds`), and
what is known of lookups nobody was told of and of those that ended (`QuietQueries`).
The safety part of `AcceptedIsCalledBack` follows too (`NobodyIsForgotten`): a lookup that
waits for its callback is in the table, and the thread of its context has not ended.
That the head of the table expires first needs, besides, one open context, hence one
time-out, and `InOrderButFor(0)`.

Refinement (also `SequentialProofs`): `Implements`, under `SequentialUse` the specification
implements `LookupService` under the mapping of `Unbound4jProperties`: the initial
states map to initial states, each step to a step of the service or a stutter. A
time-out maps to `TimeOut` because `SequentialInv` says the context of the query is the
one the thread works for.

The bridge (`JniBridgeProofs`), used sequentially: `BridgeInv` is inductive.
`CallbackContextLife` alone is not: that a callback does not work on a freed context needs
`CallbackProgress`, that the lookup a thread works on belongs to its own context and was
told, hence no two threads work on one. Nothing in a time-out says that the lookup is the
thread's own; that needs `OneContext`, that one context at a time is alive and that a
lookup nobody was told of has a running thread, which holds because a context is created
after the last one was joined, and joined when its lookups were called back
(`OwnThreadCallsBack`). That a lookup is told of once is `Implements`, proved of
`Unbound4j` under the same use. `CallProgress` ties the service's view of a lookup to that of the
native call. From it follow the safety properties of the `bridge` run that need more
than one action.

Hash table (`UthashProofs`), for any items, keys and hash function, any first number of
buckets and any capacity: `ListInv`, that head, tail and the links are those of the items
in the order of addition and that a loop holds an item and the next one, is inductive.
From it follow `ListInOrder` and that the macros implement `OrderedTable`: an addition
maps to `Add`, a deletion to `Delete` at the place of the item, a pass of a loop to
`DeleteAndNext`.

`TableInv` adds the buckets. `ChainsHoldItems` alone is not inductive, for it looks at the
links back and at what `Chain` finds, while an unlinking needs both links of every
neighbour. `Holds(t, n, M)` says that each of the `n` buckets has a chain, linked both
ways from its head and counted, of exactly those of the items `M` whose key belongs
there; `ChainIs` that `Chain` finds it. Each macro then has its lemma: `PutFirstHolds`,
`DeleteHolds` and, for an expansion, `MoveHolds` for one item, `MoveChainHolds` for those of
a bucket and `MoveAllHolds` for all buckets, of which the `b`-th leaves the items moved
that belonged in the first `b` of the old ones (`Before`). While items are moved no chain
is longer than its bucket came to expect (`Even`), which gives `ChainsBounded` after an
expansion; `Growing` says that a table that has not given up had at most one ineffective
expansion in a row. Walks along links and over buckets are recursive functions over
`0..N`; that they are what their equation says, and induction along them, come from the
well-foundedness of `<` (`RecursionOverPlaces`, `UpTo` in `TableLemmas`).

Select loop (`SelectLoopProofs`): `LoopInv` is inductive. The bounds alone are not: it
adds what each program point knows, above all that a pass has slept for what `tv` lacks,
and that whoever comes back from `select()` without having read was interrupted or has
slept for a second.

Names (`DnameProofs`, `ReverseDomainProofs`): `ScanInv` is inductive; its part about the
output, `Sound`, is kept by each way of printing (`PrintSound`, `StoreSound`). It needs
to say, beyond `BufferHoldsBeginning`, that while there is room nothing has been cut
and the room is what the text leaves. `NameComesBack` is about a reader of texts, which is
a recursive function over the places of the text: that it exists and reads a longer text
as the shorter one as far as that goes (`CanBeRead`, `ReadTheSame`) is proved with
`TableLemmas`, that it reads a printed character as that character from the three forms
of `CharPrint` (`CharRead`, `DecimalValue`). `NameInv` then says, of every name the data
begins with, that the scan is where a label of it begins, or so far inside of one, and
that the reader has just those bytes; so the end of the data and the errors cannot come
before the root label. Digits and nibbles determine a byte
(`DecimalInjective`, `NibblesInjective`), hence a name its address; `DocumentedNames` works
out the names of the two addresses in the comments.

## What is left to TLC, and what is not modelled

Liveness is model-checked only (`AcceptedIsCalledBack`, `LookupReturns`, `CloseReturns`,
`DestroyReturns`, `FutureCompletes`): the prover has no rule for fairness. So is
`StandstillNeedsWaitingCallback`, which speaks of ENABLED; what it says beyond
`UnderWayGoesOn`, which is a theorem, is that what is ready can step. Every other property
of a passing run is a theorem.

Outside the model: a JVM that runs out of memory while a lookup is begun (what a call on
a null future does is undefined), failure of a lock call for other reasons than EDEADLK,
a descriptor beyond `FD_SETSIZE` (chosen by the kernel), memory that is never released
beyond what the states show, the wording of error messages. Not modelled as parts:

- Logging (`log.c`): output, with settings nobody changes and a lock nobody installs.
- Native library loader: extracts a file and calls `System.load`; one branch.
- Load driver (`main.c`): its discipline of use is that of the sequential runs; the
  rest generates addresses and prints.
- The macros of `uthash.h` the code does not expand (sorting, replacing, selecting,
  Bloom filters), and the hash function, of which `Uthash` assumes nothing.
- Following compression pointers in `sldns.c`, which no caller reaches.

## Plan

Done: the core (`Unbound4j` and its parts) with its proofs and its refinement of
`LookupService`; the JNI bridge; the names; the hash table and its use; callbacks that
call the library; the select loop; the clock that is set back; absence of deadlock,
stated in the guards of the actions; and the proofs of all of these.
