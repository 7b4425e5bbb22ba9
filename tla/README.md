# Formal models of the Embedded C Framework

TLA+ models, TLC checks and TLAPS proofs for the C code under `src/sw/ecf`: an
event-driven real-time framework (active objects, events with reference
counting, hierarchical state machines, time events) with cores for POSIX and
Arm Cortex-M, its middleware, and its test frameworks. Paths below are relative to `src/sw/ecf/`;
`EDF` stands for `event_driven_framework`.

## 1. Inventory

| Component | State | Operations | Interacts with | What is hard, what makes it correct |
|---|---|---|---|---|
| Event queue (`EDF/src/framework/src/edf_event_queue.c`) | front entry, ring, head, tail, free and minimum counters | init, postFIFO, postLIFO, get | active objects (own queue and deferred queues) | two ends of a ring whose indices run downwards, lengths 0 and 1, uninitialised slots, narrow counter: it must be a bounded deque |
| Events (`edf_event.c`) | reference counter, pool number | initMutable, increment, decrement, gc | pools, every post | last reference found in one critical section, block released in another: no leak, no use after release |
| Pools (`edf_pool.c`) | free list threaded through the blocks, counters | init, acquire, release | events | links live in memory that clients overwrite; sizes rounded up in a narrow type |
| Active objects (`edf_active_object.c`) | queue, deferred queue | init, register, post, publish, defer, recall, flush, get | queues, events, cores | threads interleave between critical sections; exact reference counts, no lost wakeup |
| Publish-subscribe registry (`edf_active_object.c`) | a bit mask of priorities for each signal | pubSubInit, subscribe, subscribeAll, unsubscribe, unsubscribeAll, publish | active objects, bit masks | a loop over all signals is one critical section for each; publish works on a copy |
| Time events (`edf_time_event.c`) | two linked lists for each tick rate, down-counters | arm, disarm, rearm, tick | active objects, ticker thread or interrupt | the tick walks a list that others change between its critical sections |
| State machines (`edf_hsm.c`) | current state, temporary state | init, start, dispatch | user state handlers (callbacks) | order of entry and exit actions, common ancestor, depth limit |
| Framework registries (`edf_framework.c`) | pools, time events, subscribers, active objects | init | all of the above | cleared once, before anything else |
| Bit masks (`EMF/emf_bitmask.c`) | byte array | set, clear, isSet, findMax | publish, schedulers | which priority is the highest |
| POSIX preemptive core (`EDF/src/core/os/posix_preemptive`) | one thread and condition variable for each active object, `startupMutex`, run flag | init, run, stop, start, SIGINT handler | everything above | lost wakeups, threads that are created before, during and after start-up, stop, a mutex that is destroyed |
| POSIX cooperative core, and its fuzzing variant | ready set, one thread | init, run, stop, start | | idle wait against notification from another thread; clearing a bit after a handler |
| Cortex-M core (`baremetal/arm_cortex_m`) | ready set, active priority, lock ceiling | schedule, activate, lock, unlock, PendSV | interrupts | nested preemption on one stack, ceilings saved and restored |
| POSIX timers (`embedded_platform_framework/os/posix/.../epf_timer.c`) | timer lists, counters, detached ticker thread, stop flag | init, deinit, new, arm, disarm, rearm | callbacks run by the ticker | ticker against callers, deinit while a walk is under way, init again behind it |
| FIFOs (`EMF/emf_byte_fifo.c`, `emf_array_fifo.c`) | storage, two indices, count or full flag | init, push, pop, peek, drop, flush, queries | drivers | index wrap, full against empty |
| COBS, CRC, endian (`EMF`) | none (COBS: the block under way) | encode, decode, checksum, readers and writers | message exchange | blocks of exactly the largest length, residue, byte orders |
| Log and print (`EMF/emf_log.c`, `emf_print.c`) | buffer, log level | print, log | standard output | the buffer limit, the rounding of floats |
| STM32 standard output (`platform/stm32f103c8tx/stdio`) | transmit ring, listener | init, write, interrupt handler | USART, interrupts | writer against interrupt, received bytes that are overwritten |
| Test runners and their report (`embedded_test_framework/etf.c`, `EDF/.../edf_test.c`, `EMF/emf_test_report.c`) | test counters, table of tests | begin, test, fail, end; events of the test active object | the framework under test | skipped tests at either end, failures, the counts of the report |
| Fake functions (`embedded_fake_framework/inc/eff.h`) | for each fake: counters, argument history, sequences of returns and custom fakes; global call history | the call of a fake, reset, set | custom fakes call fakes | a fake called or reset inside its own custom fake |
| Base framework, assertions | nesting of critical sections; hook | enter, exit, log2; assert | everything | |
| Examples, start-up code, linker scripts, register descriptions, build files | | | | not modelled, see section 5 |

`PROJECT.json` lists every component with its status and all hazards with the
properties that would catch them.

## 2. Modules

| Module | Models |
|---|---|
| `BoundedDeque` | what an event queue promises: a deque of at most so many events |
| `EventQueue` | `edf_event_queue.c` with its ring, indices, counters and width |
| `EmfBitmask` | `emf_bitmask.c` and `EBF_utils_log2` as operators on arrays of bytes |
| `EventFlow` | `edf_event.c`, `edf_active_object.c` and the thread loop of the preemptive core: the life of an event among threads |
| `PubSub` | the subscriber registry of `edf_active_object.c`, signal by signal |
| `PosixRun` | the preemptive POSIX core from `EDF_init` to the end of the program |
| `CooperativeCore` | the non-preemptive POSIX cores: `EDF_run`, `EDF_stop`, the ready set, other threads that post |
| `CortexM` | the Cortex-M core: schedule, activate, scheduler lock, PendSV, nested interrupts |
| `BlockStore` | what a pool promises: blocks given out at most once |
| `EventPool` | `edf_pool.c` with the free list in the blocks, and the choice of the pool in `EDF_event_initMutable` |
| `TimeEvent` | `edf_time_event.c` with its two linked lists |
| `EpfTimer` | `epf_timer.c`: timers of the platform and their ticker thread |
| `Hsm` | `edf_hsm.c` over every hierarchy of states |
| `BoundedFifo` | what a FIFO of bytes or slots promises |
| `ByteFifo`, `ArrayFifo` | `emf_byte_fifo.c` and `emf_array_fifo.c` |
| `Stdio` | `stdio.c` of the STM32 with its interrupt handler and the USART |
| `Codecs` | `emf_cobs.c`, `emf_crc.c`, `emf_endian.c` |
| `PrintLog` | `emf_print.c`, `emf_log.c` |
| `TestRunner` | `etf.c`, `edf_test.c`, `emf_test_report.c` |
| `EffFake` | the functions that the macros of `eff.h` generate |
| `Buffers_proofs` | proofs about `EventQueue`, `ByteFifo`, `ArrayFifo`, `Stdio`, `Codecs` and `PrintLog` |
| `EventFlow_proofs` | proofs about `EventFlow` |
| `Registries_proofs` | proofs about `PubSub` and `EventPool` |
| `PosixCores_proofs` | proofs about `CooperativeCore`, `PosixRun` and `EpfTimer` |
| `Callbacks_proofs` | proofs about `Hsm`, `EffFake` and `TestRunner` |
| `TimeEvent_proofs`, `CortexM_proofs`, `EmfBitmask_proofs` | proofs about the modules that their names give |

Modules called `MC...` give TLC a symmetry set or a small client; the `.cfg`
files name the instance. Four of them put parts side by side that share no
state, to explore them in one run: `MCBuffers` (event queue, FIFOs, standard
output, pools, subscriber registry), `MCPosixCores` (cooperative core, preemptive
core), `MCHsmTimers` (state machines, timers) and `MCCortexM` (core for Cortex-M,
codecs, print, test runners, fakes).
Their variable `part` is chosen in the initial state and says which of them a
behaviour is about; the variables of the others keep their initial values, and
each part has the fairness of its own module.

Operators called `Bug...` are faulty forms of the definition behind them, the
way a plausible slip would change the code; nothing uses them, and each shows
that a property notices that slip.

**EventQueue.** `front_e`, `ring`, `head`, `tail`, `n_free`, `n_min` are the
fields of `EDF_eventQueue_t`; `n_free` is computed modulo `CntMod`, the size of
the counter type. The ring starts with any content. One action is one function
(each is one critical section). `ImplementsDeque` maps the ring to the sequence
`front_e, ring[tail], ..., ` and shows that each operation is the one of
`BoundedDeque`.

**EventFlow.** One action is one critical section. A thread's place is `pc`; an
active object's thread is in `get`, `wait` (on its condition variable) or `run`
(in the handler); API calls of several critical sections have places of their
own: `multicast` (publish), `recall_post` and `recall_drop`, `flush`, `gc`,
`release`. What handlers and producers call is nondeterministic, limited by
`Budget`. The queues are the deques that `EventQueue` implements. Outcomes in
which the framework stops the program (pool empty, queue full, too many
references) are states with `failed` set. One published signal stands for all:
what signals share besides the pool is the subject of `PubSub`. Handlers obey the contract that an event
they allocate is sent exactly once.

**EventPool.** The memory words that link free blocks are `word`; a client that
owns a block may write anything to it. `EventFits` and `BlockStore` say what
the pools promise. Block sizes are rounded up in the width of
`EDF_pool_blockSize_t`.

**TimeEvent.** `link`, `new_head`, `te_link` are the pointers of the code
(`Root` names `&registry->armed_head`). One action handles one node, which is
one critical section of `EDF_timeEvent_tick`; the post of an expired event is
an action of its own, because the code leaves the critical section before it.
Calls may come between any two.

**CooperativeCore.** `ready_set` is the byte array of the code, through
`EmfBitmask`; a queue is the number of its events. `pc` is the place of the
main thread; it holds the critical section at `pick` and, in the cooperative
core, after `EDF_run` returned (the code never leaves it), so other threads
cannot post there. `fuzz` chooses the build: with it, the loop runs once for
each segment of the input and ends when idle.

**CortexM.** `stack` is the sequence of contexts in thread mode, each with the
locals of its `EDF_core_activate` and of its publish; the other variables are
the fields of `EDF_core`. A post or an unlock pushes a context when
`EDF_core_schedule` says so; an interrupt sets the PendSV exception instead,
which runs as soon as no interrupt does. Thread mode only moves when no
interrupt is at work and no PendSV pending. Active objects are started before
`EDF_run`.

**Hsm.** The superstates are chosen once, in `Init`, among all hierarchies
within `EDF_HSM_MAX_DEPTH`. One action is one call of a handler with an entry,
exit or initial signal; `active` records which entry actions have run.

**PubSub.** `subscr_list` is the array of masks, on the bytes of `EmfBitmask`.
One action is one critical section: `subscribeAll` and `unsubscribeAll` take one
for each signal (`sub_call` holds the next one), `publish` one for its copy
(`multicast`) and one for each post. The empty signal, which the assertions of
`publish` let pass although the list has no entry for it, is not published. The ghosts `wanted` and `had` say what each
active object asked for, `due` and `sent` who was to get the event and who got it.

**PosixRun.** `main` is the statement that `EDF_run` has reached, `mutex` the
owner of `startupMutex`, `thread` where the thread of each active object is and
`starter` who is inside `EDF_activeObject_start`. `EDF_stop` and SIGINT come at
any time. The lock and the destruction of the mutex have the outcomes that the
code, which looks at no result, lets pass. What threads do with events is left
to `EventFlow`; here an event comes at any time.

**EpfTimer.** Timers walk the same kind of lists as time events, in the same
order of statements, so the module instantiates `TimeEvent` (as `Wheel`) and adds
the instance, its ticker thread, times in nanoseconds, `EPF_timer_deinit`, which
clears the instance while the detached ticker may still be at work, and another
`EPF_timer_init`. `rest` are the timers whose callback may still come after
`EPF_timer_deinit`. `ticker_thread` computes `next_tick` once and never advances it
(`epf_timer.c:160`), so its sleep returns at once after the first walk; the model
has no clock and a walk may begin at any time. The test of `stop_ticker` is a step
of its own (`TickerSleeps`, `TickerReturns`): the thread sleeps and locks before its
walk begins, and `EPF_timer_deinit` may set the flag and return in between.
`EPF_timer_init` may come again after `EPF_timer_deinit`, in two ways. If the old
thread has returned, everything begins anew (`Renew`). If it has not, it finds
`stop_ticker` cleared and goes on beside the new one (`InitUnderTicker`); the mutex was
destroyed and initialised under it, and the model ends there (`ticker = "two"`). Left
out are an instance that is initialised without having been deinitialised, timers of
an old instance that are armed in the new one without `EPF_timeEvent_new` (they keep
`is_linked`, and the documentation calls it for each), and calls by other
threads that wait for the mutex while it is destroyed.

**ByteFifo, ArrayFifo.** The fields of the structures, at the width of their
indices; the storage starts with any content. `b_call` and `a_call` remember what an
operation was called with, `b_refused` and `a_refused` whether its assertion failed.
`BoundedFifo` computes from the call what the contents, the output and the refusal
have to be: a push appends exactly its data, a pop or drop removes exactly the
length it was called with, and a request is refused just when it exceeds the free or
the used items. A request that changes nothing at all would be a stutter if the same
one went before, but every state of the buffer is reached with other calls
(a peek) before it too.

**Stdio.** `EBF_stdoutWrite` is one action (a critical section). The interrupt
handler is one action for each access to the registers of the USART, and the
USART sends and receives bytes in between: `txe`, `rxne` and `ore` are its flags,
`status` what the handler read of them. The listener may write. `request` and
`rejected` play the part of `b_call` and `b_refused`: a write pushes its whole message
or is rejected, and a byte is removed only by being written to USART_DR, so `dr` is
the output of the FIFO.

**Codecs.** No actions of its own but the growth of a message, byte by byte:
the functions are checked on each. CRC is the bitwise computation of the code;
the readers and writers of `emf_endian.c` share one definition for each
byte order, and the bytes of a number are digits that are shifted in and out. The generic functions know the sizes 1, 2, 4 and 8 only (`Sized`)
and do nothing for others, which `NumbersSurvive` takes into account.

**PrintLog.** A format string is a sequence of directives. A call either writes
one whole message of at most `PrintMax` characters or stops the program. The
digits of floats are those of the code: `writeFloat` does not carry the rounding
into the integer part, and prints 1.999 as "1.100" (`emf_print.c:215`);
`PrintedWhole` excepts exactly these numbers.

**TestRunner.** `runner` chooses ETF, whose suite is a function that calls the
macros in turn, or EDFTest, an active object that moves on when the trigger of a
test comes in. The report is a sequence of lines, by kind and numbers, with those that
go before the assertion about a name that is too long. An ETF
suite without any test reports one that passed; `ReportSound` excepts it.

**EffFake.** `fake[f]` is the structure of a fake of 0 to 10 arguments, with or
without a return value. A custom fake may call a fake or reset one, so the calls
under way are a stack, `frames`. `truth` and `order` are what was really called.

## 3. Runs

| Run | Instance | Shows |
|---|---|---|
| `buffers` | ring of 3 entries and two events; FIFOs of 1 to 3 bytes and of 1 to 3 slots; a transmit ring of 3 bytes, three writes, three received bytes; two pools of five shapes; two subscribers and two signals | `ImplementsDeque`, `ImplementsByteFifo`, `ImplementsArrayFifo`, `ImplementsStdout`: the four buffers refine what they promise; `RingConsistent`; `StdoutSent`: what was admitted is sent; `FreeListSound`, `EventFits`, `ImplementsStore`: pools keep their blocks; `SubscribersExact` |
| `posix_cores` | priorities 1, 2 and 8, queues of 2, two segments of fuzz input; three threads of the preemptive core | `ReadyIsPending`, `HighestFirst`, `HighestServed`: no event forgotten, the highest priority first and never starved; `HandlersAfterStartup`, `StopReturns`, `StopReturnsThreadsEnter`: order of start-up, and its end |
| `event_flow` | two active objects, one producer, two pool events, queues of 2 and deferred queues of 2, one call in each dispatch | `RefCountExact`, `NoUseAfterFree`, `ReleaseIsLast`: reference counts are exact, nothing leaks or is used after its release; `NoLostWakeup`; `NoInternalFailure` |
| `event_flow_liveness` | the same with a static event, two calls in each dispatch, defer and flush | `QueuedIsDispatched`, `EventuallyRecycled` |
| `time_event` | three time events, ticks up to 2, one call inside a tick | `ListsSound`; `TickExact`: every tick counts and posts what was due; `OneLatePost`; `TickAdvances`: the walk ends |
| `cortex_m_tools` | three active objects with every choice of thresholds, queues of 2, two nested interrupts; messages of up to 8 bytes with COBS blocks of 3; two directives in a buffer of 6; suites of three tests; two fakes, four calls | `ContextConsistent`: contexts restored; `RunsHighest`: nobody waits who could preempt; `AssertionsHold`; `PacketsSurvive`; `PrintedWhole`; `ReportSound`; `FakeRecordsCalls` |
| `hsm_timers` | every hierarchy of four states, three levels below the top; two timers of up to two ticks, one-shot or periodic, two calls inside a walk, instances deinitialised and initialised again | `HandlersInOrder`, `PathAlwaysFound`, `RunsToCompletion`; `LateCallbacksOfOneWalk`: what still runs after deinit; `DeinitEndsTicker`; `ArmedFires` |
| `cooperative_core_two_bytes` (violation) | priorities 8 and 9 | `HighestFirst` fails: `findMax` takes priority 8 first |
| `event_pool_largest` (violation) | one-byte sizes, four-byte pointers | `InitEnds` fails: the rounding loop does not end |
| `time_event_same_tick` (violation) | two time events | `ExpiresInLaterTick` fails: armed during a tick, expired in that tick |
| `timers_deinit` (violation) | the timers of `hsm_timers` | `DeinitWaits` fails: `EPF_timer_deinit` returns before its thread, because it joins a detached one |
| `hsm_common_ancestor` (violation) | the state machines of `hsm_timers` | `KeepsCommonAncestors` fails: a transition between siblings exits their superstate |

The five violations are findings: `PROJECT.json` quotes the lines of the
repository that say otherwise.

*Bounds.* Two active objects and one producer are the smallest system in which a
publish is preempted by a subscriber while another subscriber still waits for
its post; two pool events make one be recycled and allocated again while the
other is in flight; queues of two have a front entry and one in the ring, so
posts meet empty, partly filled and full queues. Three time events give a list
with a first, a middle and a last node; a largest tick count of 2 has every
branch of the tick (0, 1, more); a period is 0 or 2. Four states contain a chain
as deep as `EDF_HSM_MAX_DEPTH` allows, siblings, cousins and a common ancestor
below the top. On the Cortex-M core, three priorities give a context that is
preempted while it preempts another one, and two interrupts one that comes
between another one's posts and its exit. The free counter of the event
queue has five values, just enough for `q_len + 1`. FIFOs of up to three bytes with an
index type of six values have sizes that are and are not powers of two, and one that
is half the range; three slots pass every wrap. A transmit ring of three with
three writes wraps, is full and is refused. Three threads of the preemptive core
are one that is created before `EDF_run`, one in `EDF_onStartup` and one by a
handler. Two timers are enough for one whose callback changes the other in front
of or behind the walk; with two calls inside a walk a callback disarms and arms again
the timer that the walk stands at. That calls during a walk are bounded is part of
what `ArmedFires` says: a one-shot callback that always arms its timer again by one
tick would keep the walk going for ever (`epf_timer.c:172`), and no counter above 1
would get down. A largest COBS block of 3, and messages of up to 8 bytes
over three values, reach blocks that are full at, before and after a delimiter
and at the end; `MaxSettings`, `MaxCalls` (fakes), `MaxFormat`, `MaxTests` and
`MaxEvents` are the numbers of the table above. Deadlock is checked in every run: what may
end - a suite, the bounded number of calls, a program that a failed assertion
stopped - has a step that changes nothing.

*Fairness.* `EventFlow`: weak fairness for the steps of each active object's
thread and of each API call in progress. It stands for threads that all get
processor time (POSIX threads on enough cores, or a load that leaves idle time:
the main thread of the preemptive core polls at a higher priority). Producers
and handlers need not call anything, except that an allocated event is sent.
`CooperativeCore`: handlers and callbacks return and the main thread goes on;
other threads need not do anything. `PosixRun`: the main thread goes on,
handlers return, and a thread that waits for `startupMutex` gets it if it is free
again and again (strong fairness: others take it in between, each only once).
`EpfTimer`: the ticker thread runs; callers need not do anything. `Stdio`: a
pending interrupt is served, handler and listener return, and the USART sends the
byte it has; nothing is assumed of input. `Hsm`: the code inside one function
call goes on. That a tick of `TimeEvent` ends is stated without fairness: each
node it handles leaves one less in front of it.

## 4. Proofs

Every safety property that a passing run checks is proved for all values of the
constants that the modules admit (two of them for ready sets of one byte, one for
rings whose length fits the counter); so are the refinements and the action
properties. The assumptions on constants are named in the modules that declare them.

### Buffers

`Buffers_proofs`, the queue from `QueueAssumption` alone (any ring length, any events,
any counter width):

- `QueueCorrect`: if `q_len + 1` fits the counter, `[](TypeOK /\ RingConsistent
  /\ NoAssertFails)`. The invariant is inductive as it stands: the live slots,
  counted from the tail, hold events, head is where the free count says it is,
  and the slot that `get` reads is live.
- `QueueImplementsDeque`: the step-by-step refinement of `BoundedDeque`; the
  wrap-around of both indices is the arithmetic of the lemmas.

The FIFOs, from `ByteFifoAssumption` and `ArrayFifoAssumption`:

- `ByteFifoCorrect`, `ArrayFifoCorrect`: both implement `BoundedFifo`, step by step:
  what is in use after a push is the old contents followed by the pushed data, what a
  read returns and what it leaves are the two parts of them at the length it was
  called with, and the assertions fail exactly for requests that cannot be met.
  The provers do not reason about remainders, so the lemmas replace the index of a
  place by a distinction of cases ("around" the end or not). `ByteFifoAssumption`
  limits the storage to half the range of the index type: beyond it the sum of an
  index and a length leaves the type.

The standard output, from `StdioAssumption` (any capacity that is not zero):

- `StdoutCorrect`: the transmit ring implements `BoundedFifo` although the interrupt
  handler takes bytes out of it between any two steps of the application, and the
  interrupts do their part. The invariant `StdoutInv` adds that the bytes in use lie
  between head and tail and that the transmit interrupt is only enabled in an
  initialized USART, without which configuring it could silence a message under way.

The codecs, from `CodecAssumption` (any base of the digits and any length of a block
that are not zero), and the formatted output, from `PrintAssumption` (any length of
the buffer; it says which argument goes with which directive):

- `CodecsAreInverse`: for every message that can grow, byte by byte. Behind each byte
  of the message, what the encoder has closed reads as the bytes before its open
  block, whatever comes behind it, and it is longer than they are by the number of
  full blocks (`Encoded`); the decoder reads from the end, so each block that is closed
  puts its bytes in front. The residue of the checksum is 0 because eight shifts and
  the byte that is xored in cancel out, bit by bit. What the readers shift in the
  writers shift out, digit by digit.
- `MessagesArePrintedWhole`: each function that writes appends its text or leaves the
  buffer marked as overflowing (`Wrote`), so a message that is not marked is the
  concatenation of what its directives write. That is the text that was asked for
  except for a float that carries; the digits of a number and of the next one differ
  at a place that both have (`NextDigitsParted`), so that such a message is always
  another one, whatever follows.
- Both stand on three facts about functions that are defined by recursion up to a
  bound: a set that holds 0 and, with each number, the next one holds them all
  (`Reaches`, by the least number that it misses), and such a function exists and is
  the only one (`Iteration`).

### Events and bit masks

`EventFlow_proofs`, from `FlowAssumption` (any threads, events, lengths):

- `FlowInvariant`, `FlowTypeOK`, `FlowNoLostWakeup`: the invariant adds
  `ControlOK` (a call under way has its event, a block about to be released is
  a pool event, an unfinished handler has its event), without which the types
  of the queues are not preserved. No lost wakeup follows because a post to an
  empty queue signals and a queue that is not empty keeps its thread awake.

The second part, from `FlowAssumption` too, which asks for finitely many
producers because it counts (the active objects are at most `MaxAO` anyway):

- `FlowRefCountExact`, `FlowNoUseAfterFree`, `FlowReleaseIsLast` and
  `FlowNoInternalFailure`: every safety property of the run `event_flow`, for all
  instances. The invariant `RefInv` adds to the one above `Shape` (capacities of the
  queues; threads hold no event where they work on none; the event that recall has
  posted is still in front of its queue when it drops its reference), `Counted` (a
  free block has no references and no owner; the counter of any other one is its
  number of references, and it has an owner exactly until it gets the first one) and
  `Released` (the thread that is about to release a block has the only reference).
- The number of references is the sum of four cardinalities: places in queues, in
  deferred queues, events being handled and events in the hands of threads. The
  first part of the module says what one assignment does to one of them (an entry
  of a function changes; a sequence gets longer; it loses its front, which a
  bijection of places shows). The second says that each action leaves the sum of an
  event alone, moves a reference, adds one or drops one. The third shows that who
  adds or drops one reaches an event that is not free and that nobody else is
  releasing. That publish posts to no one but existing active objects is
  `FindMaxFindsABit` of `EmfBitmask_proofs`.

`EmfBitmask_proofs`, for a bitmask of any length: what setting and clearing a bit
does to the others, that `findMax` names a set bit or 0 when there is none
(`FindMaxFindsABit`), and that it is the highest one if the mask is a single byte
(`FindMaxInOneByte`). A position is a byte and a bit of it, which is the
arithmetic of the lemmas; that a byte has a highest bit and a mask a first byte
that is not empty comes from the well-foundedness of the natural numbers.

### Cores

`PosixCores_proofs`, the cooperative core from `CoreAssumption` (any priorities within the mask,
any capacity and any input):

- `CoreReadyIsPending`, `CoreTypeOK`: the invariant adds `Registered` (the queue
  of an active object that is not started is empty, and the loop gets and handles
  events of a started one), without which starting an active object would break
  the agreement of queues and ready set. The step that matters is `Dispatched`:
  the bit is cleared only if the queue is still empty after the handler.
- `CoreHighestFirst`: the action property, from the same invariant, if
  `MaskLen = 1`. The run `cooperative_core_two_bytes` shows that it fails with two
  bytes; the theorem says that this is the only obstacle.

The start-up of the preemptive core, from `PosixAssumption` (any set of active objects):

- `StartupSafe`: no active object handles an event before `EDF_run` has released
  `startupMutex` and before its own initial transition is over. `StartsOnce` (an
  active object that is being started has no thread yet) makes it inductive.

`CortexM_proofs`, from the assumption of `CortexM` (any active objects below
`MaxAO`, any queue length, any nesting of interrupts):

- `ContextsAlwaysConsistent`, `AssertionsAlwaysHold`: the invariant `CortexInv` says of
  every context of the stack, not only of the last one, that it stands above the
  thresholds and ceilings of those below (`Nested`), which lock ceiling it will restore
  (`Locks`) and that an event waits for it until it has got it (`Gets`); that the
  ceiling in force is the highest on the stack (`InForce`); and that whoever waits is
  in the ready set, and whoever is in it waits or is at work (`Ready`). The fields of
  `EDF_core` describe the last context (`Described`), and `Pending` ties the PendSV
  exception to the priority it is to activate. A context is only pushed above the
  threshold and the ceiling in force, so popping one finds what it saved.
- `HighestAlwaysRuns`, if `MaxAO <= 8`: whoever is ready and could preempt runs, or a
  PendSV is pending. `HighestInv` holds for any ready set: the scheduler leaves
  nothing waiting that `findMax` names. That `findMax` names the highest priority needs a
  ready set of one byte, as in the cooperative core.

### Registries

`Registries_proofs`, the subscribers from `PubSubAssumption` (any priorities, signals,
mask lengths):

- `SubscribersAreExact`: the invariant adds `LoopsOK` (what the caller of a loop over
  all signals wants, and that its next signal exists) and the types of the masks. It
  is carried bit by bit, by the lemmas of `EmfBitmask_proofs` about what setting one
  bit does to the others; it says nothing of states after a failed assertion.

The event pools, from `PoolAssumption` (any pointer size, any widths of sizes and
counters, any requests, sizes of events and contents of the clients' memory):

- `FreeListsAlwaysSound`, `EventsAlwaysFit`: the invariant `PoolInv` names the nodes of
  each free list in order (`FreeList`): their links, which lie in the blocks, lead
  from one to the next, and the blocks that are no node are those of clients. So what
  a client writes touches no link. `Geometry` is what initialisation fixes (blocks of
  whole pointers, as many as fit), and `EventsPlaced` that each event is in the
  smallest block that holds it. The free list that the model computes by following
  links is compared with the nodes along their numbers.
- `PoolsImplementStore`: every step initialises a pool (`Grown`), takes a free block
  (`TakenOut`), gives one back (`GivenBack`) or leaves the blocks alone (`Resting`),
  which are the steps of `BlockStore`.

### Time

`TimeEvent_proofs`, from `TimeAssumption` (any finite set of time events, any ticks,
periods and number of calls inside a tick):

- `ListsAlwaysSound`, `TickAlwaysExact`, `LatePostedOnce`: the invariant `TimeInv` has
  one sequence of nodes for both lists and a place `k` in it for the walk (`Walk`): the
  time events up to `k` have been counted, those behind it have not (`Counts`). A call
  that links, unlinks or moves a node before, at or behind `k` gives a new sequence,
  which the lemmas construct (`Inserted`, `Deleted`). `LateOnce` says who was posted
  after it had been disarmed.
- `TickAlwaysAdvances`, the action property: each node that a tick handles is one less
  in front of it. `Reached`, which counts them by following links, is equal to the set
  of the nodes behind `k`; a least number at which they differed would have a
  predecessor, which takes the place of an induction.

`PosixCores_proofs`, the timers from `EpfAssumption` (any finite set of timers, any
times and periods that the counters hold, any number of calls):

- `WalksAlwaysExact`: as `EpfTimer` instantiates `TimeEvent`, its proof instantiates
  `TimeEvent_proofs`: until `EPF_timer_deinit` takes the lists away, every step of the
  timers is one of `TimeEvent` or leaves the timers alone, and `TimeInv` goes on; an
  `EPF_timer_init` after the ticker has returned leads back to its initial states.
- `LateCallbacksBounded`: from then on `RestOfWalk` takes its place: the links that the
  walk under way still follows lead through timers of `rest` only, each once, and
  nobody changes them any more. A walk that begins after it finds no list.

### State machines and test tools

`Callbacks_proofs`, the state machines from `HsmAssumption` (any set of states, every hierarchy within
`MaxDepth`, any events):

- `HandlersAlwaysInOrder`, `PathIsAlwaysFound`: the invariant `HsmInv` says where each
  function stands. While a transition is executed both paths, the states to be exited
  and those to be entered, lead to one root (`OnPaths`); what is active is the lineage
  of the next state to be exited, or of the root once all are, and so of the state
  that was entered last.
- Chains of superstates are defined by recursive functions. Two climbs that start at
  one state agree, because a least place at which they differ would have a
  predecessor; a chain ends at the first place where a climb meets the top state, and
  the common ancestor is where two chains meet first.

The fakes, from `EffAssumption` (any number of fakes of any kinds and arities, histories
that hold at least one entry, any number of settings, calls and resets):

- `FakesRecordCalls`: the invariant `FakeInv` ties the stack of calls under way to what
  was really called. Each frame of the stack belongs to a call of its fake that has
  not returned, no two to the same one, or to one from before a reset (`Nested`); the
  calls of that fake that began later are marked as overlapping, and so is it itself if
  there are any (`UnderWay`). A return value is stored at the place that the call
  counter then names, which is the right one for the calls that nothing overlaps: only
  of those does `FakeRecordsCalls` speak.

The test runners, from `TestAssumption` (a line width that fits `uint8_t`, names of any
lengths, suites of any length with any tests skipped):

- `ReportsAreSound`: the invariant `TestInv` says what the report, the fixtures and the
  counts have come to between any two steps. ETF prints the outcome of a test only when
  the next one begins or the suite ends (`EtfRuns`), EDFTest when the trigger comes in,
  together with the tests that are skipped behind it (`EdfRuns`). What `FlattenSeq`
  computes for one more test is shown along the least prefix at which two
  concatenations differ (`FlattenAppend`), as chains are above.

`FlowTypeOK`, `CoreTypeOK`, `FindMaxFindsABit`, `FindMaxInOneByte` and
`WalksAlwaysExact` state no property of a run: the first four are what other proofs
stand on, the last one says of timers what `ListsSound` and `TickExact` say of time
events.

### Only model-checked

Liveness and fairness (`HighestServed`, `StopReturns`, `StopReturnsThreadsEnter`,
`DeinitEndsTicker`, `ArmedFires`, `StdoutSent`, `QueuedIsDispatched`,
`EventuallyRecycled`, `RunsToCompletion`), which are out of the prover's reach, as
`ENABLED` is.

## 5. What is left

Not modelled:

- The examples: applications of the framework. Their handlers, callbacks and
  threads are the free choices of the models, within the contract of the API.
- Start-up code, linker scripts, register descriptions, build files: bring-up
  before `main`, constants and tools, without a protocol between parts.
- The fuzzing core: how the bytes of an input become the payload of an event, and
  the signal handlers that flush coverage data. Both depend on the application and
  on the compiler's runtime.
- The Cortex-M core: contents of registers and exception frames, and the FPU. The
  order of contexts is modelled, and the assembly does nothing else to the state of
  the framework.
- The registries and the base framework, beyond what the modules that use them need:
  a registry is the variables of its module with their cleared values, a critical
  section is an action. The rest is process start-up and system calls.
- The hook of the assertions: it is application code. A failed assertion ends the
  program.
- The clock: of ticks, the models know the order, not the length.

Hazards without a property (see `PROJECT.json`) are modelled, but no document says
what should hold: what may be called after `EDF_run` of the cooperative core
returned inside its critical section; the margin of the reference counter, whose
failure stops the program; ticks of the POSIX timers that come too early, and
callbacks that arm their timer again and again in one walk. The start
of active objects on Cortex-M while `EDF_run` is at work is not explored, for
the same reason.

No safety property of a run is left without a proof; what remains to TLC is liveness.
