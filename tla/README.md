# A TLA+ verification of asiochan

asiochan gives C++ coroutines (Asio awaitables) channels: typed, unbuffered or
buffered, shared by any number of tasks on any number of threads, with a
`select` over several reads and writes. This directory holds TLA+ modules that
model the library, TLC runs that check them on small instances, and theorems
checked by TLAPS. Paths below are relative to the repository; `include/` is
`src/include/asiochan/`.

## 1. The system

### Components

| component | source | state | operations |
|---|---|---|---|
| waiter list | `include/detail/channel_waiter_list.hpp` | `first_`, `last_`; per node `prev`, `next`, `ctx`, `slot`, `token` | `enqueue`, `dequeue`, `dequeue_first_available` |
| wait context | same file, 17-30 | `avail_flag`, `mutex`, `promise` | `claim`, `notify_waiter` |
| channel shared state | `include/detail/channel_shared_state.hpp` | `mutex`, reader list, writer list, buffer | accessors |
| channel buffer | `include/detail/channel_buffer.hpp` | ring of slots, counter (void channels), or `std::queue` | `empty`, `full`, `enqueue`, `dequeue` |
| send slot | `include/detail/send_slot.hpp` | an optional value | `read`, `write`, `transfer` |
| select | `include/select.hpp` | one context and one wait state per operation, in the coroutine frame; `submit_mutex` | `select`, `select_ready` |
| operations | `include/read_op.hpp`, `write_op.hpp`, `nothing_op.hpp`, `select_concepts.hpp`, `detail/select_impl.hpp` | the operation's slot; its wait nodes | `submit_if_ready`, `submit_with_wait`, `clear_wait`, `get_result` |
| channel methods | `include/detail/channel_method_ops.hpp` | none | `read`, `try_read`, `write`, `try_write` |
| promise | `include/async_promise.hpp` | an optional completion handler | `get_awaitable`, `set_value`, `set_exception`, `reset`, moves |
| channel handles | `include/channel.hpp` | a shared pointer | copies, moves, conversions, comparison |
| allocation tracer | `include/detail/allocate_tracer.hpp` | counter, entries by address, counts by location | `ctor`, `dtor`, queries |
| results | `include/select_result.hpp`, `detail/channel_op_result_base.hpp` | variant, alternative, raw pointer to the shared state | accessors |

| example | `examples/example_sum.cpp` | an array, two channels, what each subtask has summed up | `sum_task`, `sum_subtask` |

The rest of the repository has no state: concepts, constants, include files,
build files. The tests are clients.

### How the components interact

A coroutine calls a channel method or `select`. Either becomes a selection: a
list of operations, each over one or several channels, that is, a flat list of
*alternatives* numbered by their *token*. `select_ready` tries the alternatives
one after the other and takes the first that needs no waiting. `select`
suspends the coroutine first, and then submits the alternatives under
`submit_mutex`. For each alternative it takes the mutex of the channel's shared
state and

1. looks for a coroutine that waits at the other end of the channel
   (`dequeue_first_available`), which means to lock the mutexes of two wait
   contexts, the waiter's and its own, and to clear both `avail_flag`s;
2. or uses the buffer, after `claim` of its own context;
3. or leaves a wait node in the list of the channel, and goes on.

Whoever matches a waiting coroutine moves the value between the two send slots
and posts the coroutine's resumption, with the token of the alternative, to its
executor. The resumed coroutine takes `submit_mutex` (so its submission is
over), unlinks every wait node that was not the successful one (`clear_wait`),
makes its result and returns. The wait nodes and the context live in the frame
that ends there: no list may point to them any more.

Channels are shared state under their own mutex. A wait context is shared by
all the channels its coroutine waits on, and no lock covers two channels at
once, so the `avail_flag`s are what keeps two channels from serving one
select twice.

### What is hard

- Two channels, or a channel and the select itself, race for one context.
- A select can be matched while it is still submitting.
- A node can be claimed in one channel and still be linked in others, where it
  is dropped by strangers, or unlinked later by its owner.
- The search for a peer gives up for two different reasons (no waiter, or the
  caller itself was claimed), and what follows must be right for both.
- Values travel hand to hand, through the buffer, or from a waiting writer into
  the buffer on behalf of a reader; order and conservation span the three.
- Nobody polls: if a match is missed once, coroutines wait for ever.
- Wait nodes are pointers into frames that end.
- A read that gives up on a timer races with its answer, and the coroutine may
  read again before the answer comes.
- A shared state goes with its last handle, on whatever thread that is, and its
  address is used again.

`PROJECT.json` lists these as hazards, at the lines where they bite, with the
properties that cover them.

### What makes each component correct

- *waiter list*: the pointers stand for a queue, whatever is unlinked from
  where, and the assertions of `dequeue` hold.
- *select*: one alternative is served, exactly once, and all others are
  untouched; the coroutine returns; nothing points to its nodes afterwards.
- *channel*: values are neither lost nor duplicated nor reordered; nobody waits
  beside something that would serve him.
- *buffer*: a FIFO queue that never exceeds its size.
- *promise*: one handler, posted once, with a value or an error.
- *handles and tracer*: a shared state lives exactly as long as a handle; the
  tables list what is alive, with the place of its construction.
- *results*: whatever a result is asked, by type or by channel, the answer is
  that of the alternative that took effect.
- *example*: no number is lost, `sum_task` returns, and nobody is left waiting.

## 2. The modules

| module | models | |
|---|---|---|
| `WaiterList` | `channel_waiter_list.hpp` | the pointers, `Enqueue`, `Dequeue`, `PopFirst`, the assertions, and what the pointers stand for (`Chains`) |
| `Selections` | the operations, `select_concepts.hpp`, `channel_method_ops.hpp` | which selections there are; the channel methods as selections |
| `Select` | `select.hpp`, `read_op.hpp`, `write_op.hpp`, `nothing_op.hpp` and the shared state | the state machine |
| `SelectProperties` | | the properties |
| `SelectInvariant` | | the inductive invariant |
| `AtomicSelect` | `select.hpp` and the operations | what a select promises: one attempt at one alternative is one step |
| `SelectRefinement` | | the mapping by which `Select` implements `AtomicSelect` |
| `Fifo` | | a bounded FIFO queue between writes and reads: what a buffer promises |
| `ChannelBuffer` | `detail/channel_buffer.hpp`, `detail/send_slot.hpp` | the ring of send slots |
| `AsyncPromise` | `async_promise.hpp` | handlers, and the promises they pass through |
| `AllocateTracer` | `detail/allocate_tracer.hpp` | the count, the tables and the pool of locations |
| `ChannelHandles` | `channel.hpp`, life of `detail/channel_shared_state.hpp` | handles and the states they share |
| `SelectResult` | `select_result.hpp`, `detail/channel_op_result_base.hpp`, `select.hpp` 84-131 | from the token to the answers |
| `ExampleSum` | `examples/example_sum.cpp` | `sum_task` and its subtasks |
| `SelectProofs` | | theorems: the pointers and the queues they stand for; the control invariant for every script, the inductive invariant for orderly ones |
| `SelectDeliveryProofs` | | theorems for orderly scripts: no match is missed, no value is lost, none overtakes another |
| `SelectRefinementProofs` | | that `Select` implements `AtomicSelect` |
| `ChannelBufferProofs` | | theorems on the ring |
| `AsyncPromiseProofs` | | theorems on promises and their handlers |
| `ChannelHandlesProofs` | | theorems on handles, shared states and the tables |
| `SelectResultProofs` | | theorems on tokens and results |
| `ExampleSumProofs` | | theorems on sums over finite sets, and on the example |
| `MCSelect`, `MCBuffer`, `MCPromise`, `MCHandles`, `MCResult`, `MCSum` | | instances for TLC |

`Select` extends `WaiterList` and `Selections`; `SelectProperties`,
`SelectInvariant`, `SelectProofs` and `SelectDeliveryProofs` extend one another
in this order.
`SelectRefinement` extends `SelectInvariant` and instantiates `AtomicSelect`;
`MCSelect` extends it, and `SelectRefinementProofs` extends it and
`SelectDeliveryProofs`. `AtomicSelect` and `SelectResult` extend `Selections`,
so that all three speak of the same operations. `ChannelHandles` extends
`AllocateTracer`: the tracer's `ctor` and `dtor` are called by constructor and
destructor of a shared state. `ChannelBuffer` instantiates `Fifo` with
the contents of its ring; `buffer[c]` in `Select` is such a queue, so that the
refinement is what allows `Select` to leave the ring out. `AsyncPromise` is on
its own: `Select` uses of it that `set_value` posts one resumption. `ExampleSum`
takes an unbuffered channel for what `AtomicSelect` says of it: a value goes
from hand to hand in one step.

`Selections` knows the `send_type` of every channel. An operation has one type
for all its channels, and no two operations of a selection have the same result
type (`WellTyped`): neither would compile.

### Select: state

| variable | in the code |
|---|---|
| `first`, `last`, `prev`, `next` | the pointers of the reader and writer lists and of the wait nodes; node `<<p, i>>` is that of alternative `i` in the frame of coroutine `p` |
| `owner`, `buffer` | `channel_shared_state::mutex_`, `buffer_` |
| `sel`, `round` | the arguments of the select under way, and how many were begun |
| `pc`, `at` | where `submit_if_ready` or `submit_with_wait` stands, and at which alternative. `pc[p] \in {"lock", "buffer", "scan", "refill"}` is also "`submit_mutex` is held" |
| `suspended` | the coroutine waits for its promise |
| `avail` | `select_wait_context::avail_flag`; FALSE when there is no context |
| `token` | the token posted with `set_value` (for `select_ready`, the ready alternative); 0 before |
| `queued` | which `wait_state.waiter_nodes` are engaged |
| `slot` | the send slots of the operations; a write's slot starts with its value `<<p, round, op>>` |
| `results` | what the selects returned: a history |

### Select: steps

A critical section of a channel is cut where it looks at an `avail_flag`,
because that is the only thing others can change while the channel's mutex is
held.

| action | code |
|---|---|
| `Begin` | entry of `select` / `select_ready`, up to the first alternative |
| `Lock` | `scoped_lock{channel_state->mutex()}` |
| `TakeBuffered`, `Refill`, `RefillNone` | a read of a buffered value; the waiting writer that fills the room it leaves |
| `DropClaimed` | one turn of the loop in `dequeue_first_available` that pops a claimed waiter |
| `MeetPeer` | the turn that finds both available: both flags cleared, the node popped, the value moved, the waiter notified |
| `Store` | a write into the buffer |
| `LoseClaim` | `claim(select_ctx)` fails: `return true` without a ready alternative, the rest of the operation is skipped and the submission goes on with the next operation |
| `Park` | the wait node is enqueued (`select`) |
| `PassOver` | on to the next alternative (`select_ready`) |
| `TakeNothing` | `ops::nothing` |
| `EndSubmit` | all alternatives are submitted, `submit_mutex` is released |
| `Resume` | the posted resumption runs and gets `submit_mutex` |
| `ClearWait` | `clear_wait` of one alternative |
| `Return` | `get_result`, and the end of the frame |

*Why claim, transfer, notification and unlock are one step.* After the flags
are cleared nobody else writes to the two slots (only who clears a flag may
touch the slot behind it), the posted resumption is not looked at by anyone but
the resumed coroutine, and the channel stays locked until the end: everything
up to the unlock commutes with the steps of all others. `RefillNone` and
`Refill` are steps of their own because between the claim of the reader and
that of the writer the flags of the waiting writers can change.

A caller that meets its own node in `dequeue_first_available` would lock one
`std::mutex` twice in one `std::scoped_lock`. This is undefined in C++; with
the common implementations it never returns. In the model no action of that
coroutine is enabled from there on.

`std::scoped_lock` of two different contexts is one step: nothing is read
between the two locks, and `std::lock` does not deadlock.

*The wrong list.* `write::clear_wait` unlinks through `reader_list()`. The
model does exactly that (`ClearedThrough`), with the effect `dequeue` has on
pointers that belong to another list.

### AtomicSelect

| variable | what it means |
|---|---|
| `round`, `sel`, `results` | as in `Select` |
| `tried` | how many alternatives of the selection were not ready |
| `served`, `got` | the alternative that took effect, and the value it received |
| `waiting` | the alternatives that wait |
| `ahead` | who came first, among those that wait for the same |
| `buffer` | the values inside a channel |

There is no thread, lock, flag or pointer in it. `MeetPeer`, `Take`, `Store`,
`Unready` and `TakeNothing` are the outcomes of one attempt, in the order of
the code: a waiting peer comes before the buffer for a write, and for a read of
an unbuffered channel. Whoever is served stops waiting everywhere in that very
step. `Restock` lets a waiting writer into the room that a read has left; until
then nobody else gets at the channel (`Restocked`).

`SelectRefinement` maps `Select` to it. A selection is served when its flag is
cleared: from then on it waits nowhere, although its nodes stay in the lists
until somebody drops or unlinks them. So `waiting` are the nodes whose
coroutine can still be claimed, and `ahead` is the order in which these are met
on the way along the `next` pointers. `Lock`, `DropClaimed`, `LoseClaim`,
`EndSubmit`, `Resume`, `ClearWait`, `RefillNone` and the `Park` of a selection
that was served meanwhile are stuttering steps, `Refill` is `Restock`, and all
others are the attempt they make.

### ChannelBuffer

`head`, `count` and `cells` are `head_`, `count_` and `buff_`; `from` and `to`
are the slots of the write that takes effect next and of the read that is
served next. `Offer` is `send_slot::write` in the constructor of a write,
`Enqueue` and `Dequeue` are those of the buffer, with the swap of `transfer`
whatever the two slots hold, `HandOver` is the `transfer` between two
operations that meet, and `Collect` is `send_slot::read` in `get_result`. All
of it happens under the mutex of the channel, so that there is nothing to
interleave. The other specialisations of `channel_buffer` have no ring: the
unbounded one is a `std::queue`, that of void channels keeps the length only,
and that of channels without a buffer is always empty and always full.

### AsyncPromise

| variable | in the code |
|---|---|
| `suspended`, `suspends` | `suspend_with_promise` was entered and the coroutine was not resumed; how often it was entered |
| `impl[o]` | `impl_` of promise `o`: empty (`Null`), a handler (the task it resumes), or engaged with a handler that was moved from (`Moved`) |
| `hand[o]` | the handler `consume_impl` has returned inside `set_value` |
| `call[o]` | the member function of `o` that somebody is in: `set_value` that has consumed, or `set_exception` that has posted and is about to empty `impl_` |
| `stray` | how many such calls of `set_exception` have outlived their promise |
| `lost` | the coroutines whose handler one of these has destroyed |
| `posted[t]` | resumptions of `t` in the executor |

`Suspend` is `suspend_with_promise` up to its continuation, `Move` the move
constructor and the move assignment with the `reset` of its target, `Consume`
and `PostConsumed` are `set_value`, `SetException` and `ResetImpl` are
`set_exception` (which `reset` calls with `broken_promise`), `Renew` destroys a
slot that was moved from and puts a new one in its place. `Resume` ends the
frame, and the two promises in it.

`set_exception` posts the handler out of `impl_` and empties `impl_` afterwards
(`include/async_promise.hpp:127`, 139). If the promise is in the frame of the
coroutine it resumes, the frame may have ended in between: `Resume` then leaves
a call in `stray`, and `StrayWrite` is the write it has still to do. What that
write does is undefined; in the model it either hits nothing or empties any
promise there is, and destroys the handler in it together with the coroutine.
`Erring` are the promises on which clients call `set_exception` or `reset`; the
run takes all of them.

Promises are not synchronised, and the model has the discipline that clients
need: one thread at a time is in a call of a promise, and a promise that was
moved from is only destroyed. Handlers are moved to slots, or, as `select` does,
to the promise in the wait context of the coroutine they resume (`Targets`). The
library itself calls `set_value` only.

### AllocateTracer and ChannelHandles

| variable | in the code |
|---|---|
| `refCount` | `ch_ref_count` |
| `mux` | who holds the mutex of the tables, when that lasts for more than a step |
| `entries`, `locs`, `pool` | the maps from addresses to locations and from locations to counts, and the vector of locations |
| `handle[h]` | `shared_state_` of handle `h`: an address or `nullptr` |
| `uses[a]` | the use count of the `std::shared_ptr`s |
| `pc`, `busy`, `target` | the constructor or destructor a thread is in, the state and the handle it is about |
| `result` | a `channel_op_result_base` that somebody keeps |
| `born[a]` | the states that were constructed at address `a`: a history |

The tracer's `ctor` and `dtor` count with an atomic and then change the tables
under a mutex: two steps each (`Count`, `Register`, `Uncount`, `Unregister`),
between which other threads act. `Allocate` and `Free` are the memory: an
address is given out again once the destructor is done. `get_ctr_loc` is
`Ask` and `Answer`, because it copies a location through a reference into the
pool after the pool's own mutex was released. `Copy`, `Move` and `Destroy` are
the copy, move and converting constructors and assignments and the destructor
of the three kinds of handle; a handle converts to a type with fewer `Flags`.
One thread at a time uses an object, as with any C++ object.

### SelectResult

`Complete` finds the operation whose range of tokens (`BaseToken`,
`NumAlternatives`) the token lies in, and the alternative within it, and stores
what `get_result` returns. `Is`, `Received`, `Sent`, `Matches`, `ReceivedFrom`,
`SentTo`, `GetIf...` are the accessors, `MoveReceived` is an accessor that
moves the value out. A question whose type is not among those of the selection
does not compile; `Asked` says when it does.

### ExampleSum

`pc`, `next`, `joined`, `subresult` are where `sum_task` stands and its
variables, `sub[t]` and `sum[t]` those of a subtask. Every `co_await` on a
channel is one step of both sides. `Terminated` is there so that the end of the
program is no deadlock and everything else is.

## 3. Properties

| property | claim |
|---|---|
| `TypeOK` | types; no buffer exceeds its size or holds an empty slot |
| `OneAlternative` | the operation that was served has moved its value, every other operation of the selection is untouched |
| `SetValueOnce` | a posted token is never replaced by another one |
| `ValuesConserved` | a sent value is in exactly one place, an unsent one nowhere |
| `ReadInOrder` | what a coroutine reads of another through one channel, it reads in the order of the writes |
| `NoMissedMatch` | when no thread is in a channel: readers wait only if the buffer is empty, writers only if it is full, never both |
| `NoDanglingPointer` | lists and live nodes point to live nodes only |
| `WaitersReachable` | a waiter that can still be matched is met, once, when its list is walked |
| `DequeueAssertions` | the two assertions of `dequeue` hold when `clear_wait` runs |
| `SubmissionEnds` | no coroutine stays inside a channel |
| `MatchedReturns` | a coroutine that was matched returns |
| `AllReturn` | where reads and writes balance, all scripts are completed |
| `IInvWalked` | the inductive invariant, with the queues found by walking the pointers |
| `TransferAsserts` | the assertions of `transfer` hold whenever a buffer operation is called |
| `RingIsFifo` | the ring implements `Fifo` |
| `OneHandler` | a waiting coroutine has exactly one handler, in one place, unless a `set_exception` that came late has destroyed it; a running one has none |
| `NoLateWrite` | no `set_value` of a promise is under way when the promise may be gone |
| `NothingLate` | the same of every call, and no handler is destroyed: a theorem, where `set_exception` and `reset` are called on slots only; it fails where they are not |
| `IsAtomic` | `Select` implements `AtomicSelect`: who has waited longest is met first, who was served elsewhere is not met at all |
| `UsesExact` | a shared state is used by as many handles as refer to it |
| `HandlesAlive` | no handle refers to a state that is being constructed or destroyed |
| `TracerExact` | the table lists the states there are, with their own locations, though addresses are used again |
| `CountsAgree` | the atomic and the tables differ only by the threads that are between the two; a location is listed with the number of its states |
| `AnswerTrue`, `NoReallocation` | what `get_ctr_loc` found is true, and where it was found, until it has been copied |
| `ToldApart` | whichever channel a result is asked for, the answer is right |
| `OneTypeFits` | a result is of one of the selection's types: that of the operation that was served |
| `ValueFound` | a value is found through its type and its channel, and through nothing else |
| `SumKept` | what is not sent yet, what the subtasks hold and what `sum_task` holds is the whole |
| `NobodyLeft` | `sum_task` returns when no subtask is left, and not before |
| `Returns` | `sum_task` returns |
| `MatchesOwnChannel`, `CollectsElements` | violated, see section 6 |

`TypeOK` stands once in each of `SelectProperties`, `ChannelBuffer`,
`AsyncPromise`, `ChannelHandles` and `ExampleSum`.

Two kinds of selection break the promises on waiting; they are kept apart by
`Orderly` (a waiting select has one alternative, or only reads) and shown in
runs of their own (section 6). `SetValueOnce` and the control invariant hold
for them as well, and are proved without that assumption.

## 4. Runs

| run | instance | distinct states | what it shows |
|---|---|---|---|
| `rendezvous` | 3 coroutines, 2 unbuffered channels of two types, 2 rounds each | 144 636 | selects of reads, waiting writes and non-waiting writes race: nothing is served twice, lost or missed, the pointers stay sound, every step is an atomic attempt or none |
| `buffered` | 3 coroutines; a channel of size 2 and an unbounded one of the same type; selects of up to 3 alternatives | 151 724 | writers fill and wait or fall back on the unbounded channel, readers take and refill: conservation, order, no missed match, atomic attempts; a select with two nodes in one list |
| `balanced` | 4 coroutines; an unbuffered channel and one of size 1; as many writes as reads; `FairSpec` | 37 398 | reads that give up on a timer, read again and are answered late: one alternative takes effect though the timer and the answer claim one context through two channels, one of them buffered; submissions end, matched coroutines return, all scripts are completed; the inductive invariant of the proofs |
| `ring` | 3 cells, 3 values | 1 920 | the ring behaves as a queue, wherever `head_` stands |
| `promise` | 3 coroutines, 2 slots, 2 suspensions each, symmetric; `set_exception` on any promise | 134 829 | no coroutine is forgotten or resumed twice but by a `set_exception` that writes late, no `set_value` outlives its promise |
| `handles` | 3 threads, 3 handles of two types, 2 addresses given out twice, 2 locations, symmetric | 82 909 | states live as long as their handles, the tables are right whoever constructs, destroys and asks at the same time |
| `results` | every well-typed selection of up to 3 alternatives on 4 channels | 2 139 | every result of every selection answers rightly |
| `sum` | 3 subtasks, 3 numbers | 1 824 | no number is lost, everybody is joined, `sum_task` returns |
| `cancelledwrite` | 3 coroutines, 2 unbuffered channels | violated | section 6 |
| `bothends` | 2 coroutines, 1 unbuffered channel, `FairSpec` | violated | section 6 |
| `sameaddress`, `fewlocations` | as `handles`, with 2 threads | violated | section 6 |

*Bounds of `Select`.* Three coroutines are the least with which a select is
contested by two others while a third state (a claimed node in front of an
available one) can arise; `balanced` has four. Two channels are the least with
which a context is claimed through one and found claimed through the other.
Three alternatives allow an operation with two channels and a second operation
on one of them, so that one select has two nodes in one list. Capacities 0, 1,
2 and unbounded are all the cases `full` and `empty` tell apart. Scripts are
finite, so every instance is; where a round of a script is a set of selections
TLC explores every choice. Values are identified by who sent them and when, so
that two values are never confused. `MaxAlts` bounds the quantifiers over
alternatives to the longest selection of the script, and cuts nothing off.

*Timeouts.* The library has no timer of its own. The section "Make sure crash
when channel_waiter_list.dequeue not happen again" of
`tests/asiochan/test_channel.cpp` (259) races reads with a task that writes to a
second channel when its time is over (`make_timeout`, 48). `balanced` is this:
each reader selects between the answer (`x`) and the timer (`y`), whichever
comes first, and the timer and the answer may come together, in any order, or
the answer to a select that has given up, which is then met by the next one.

*Bounds of the others.* Three cells let the ring wrap around with zero, one and
two cells in use, and three values tell the cells apart. Two slots let a
promise that holds a handler be moved onto one that holds another;
`MaxSuspends` is 2 so that a coroutine waits again while the handlers of others
are still about. Three threads are one that asks, one that constructs and one
that destroys; three handles are two that move a state between them and a third
of the narrower type; `MaxBorn` is 2 so that every address is used again.
Addresses, locations and the two handles of the same type are symmetric. Three
alternatives are the least with which an operation of two channels stands
before or behind another one, and the four channels are two of a type that
carries a value, an unbounded one that may be written without waiting, and one
of void. Of three subtasks, one is joined first, one last and one between, and
no two sums of the numbers are the same.

*Deadlock checking* is off where scripts do not balance (`rendezvous`,
`buffered`, `cancelledwrite`, `bothends`), because a coroutine may then wait
for ever for a partner, which is what the library is meant to do; in `promise`,
where the bound on suspensions ends every behaviour; and in `results`, where
there is nothing left to do once the value was moved out. It is on in all other
runs.

*Fairness.* `FairSpec` asks weak fairness of every coroutine's next step: the
executor runs what is posted to it, and its threads are scheduled. No fairness
is asked of the mutexes: with finite scripts a mutex is contended only finitely
often. `ExampleSum` asks the same of `sum_task` and of the subtasks.

## 5. Proofs

All theorems hold for every value of the constants: any number of coroutines and
channels, all capacities, scripts of any length. What is assumed of them are the
named `ASSUME`s of the modules, which say what the constants are, and in places
`OrderlyScript`. TLC evaluates the `ASSUME`s in every run.

**Pointers and queues** (`SelectProofs`). `Chains(L, N, q)` says that the
pointers of the lists `L` stand for the queues `q`: neighbours in a queue point
to each other, the ends to the first and the last, nodes in no queue to nobody.
`EnqueueChains`, `DequeueChains` and `PopFirstChains` show that the assignments
of the code append to the queue, take a node out from wherever it stands, and
take out the first, and leave every other list alone; `DequeueAssertsHold` is
about the two assertions of `dequeue`.

**Every script** (`SelectProofs`). `Inv1Holds` is the control invariant
`Control /\ Exclusion`: a coroutine is between two steps of a submission only
with what the code holds there, its flag is set only while no token is posted,
a channel is held by one coroutine. `PromiseSetOnce` follows: a token is posted
only by who has cleared the flag. It needs no assumption on the scripts: even
where the promises on waiting fail no promise is fulfilled twice. `HeldHolds`: a
mutex is held only by who is inside its channel, so that nobody leaves a channel
without unlocking it.

**Orderly scripts** (`SelectProofs`). Neither `OneAlternative` nor
`NoDanglingPointer` is inductive. That one alternative is served depends on the
flag of whoever is in a list; that whoever is in a list has a flag and a frame
depends on the lists. `IInv` adds to the control invariant what was missing:

- `Settled`: who waits and was not served has its flag; a slot has changed if
  and only if its alternative was the one served; who is about to refill a
  buffer has made room in it;
- `Queues`: there are queues for which the pointers stand (`Chains`), in which
  every node is one of a select that is under way and waits at that end, and
  every node that can still be claimed is found (`Placed`).

`IInvHolds` is proved with one step per action: first what the action does to
control and slots, then what it does to the queues, by the lemmas on the
pointers. `TypeCorrect`, `SelectsOne`, `PointersLive` and `DequeueSafe` are
`TypeOK`, `OneAlternative`, `NoDanglingPointer` and `DequeueAssertions` for
all orderly scripts. The assumption is needed: section 6 shows scripts that are
not orderly and what then fails.

**Mutexes** (`SelectProofs`). `SubmissionEnds` is liveness and needs the fairness
of the scheduler; what the code has to do for it is `NobodyStuck`, and that is
an invariant: whoever holds the mutex of a channel finds the guards of its next
step true (`GoesOn`). The actions inside a
channel leave out one case, that of a coroutine that would lock its own
context twice. `NotOneself` excludes it by `Settled` and `Queues`: who comes
first in a list is at the other end of the channel, and an orderly select has
nodes at one end only. `NoneStuck` follows, and is part of `IInvWalked`. The run
`bothends` has the script that is not orderly, and gets stuck.

**The walk.** `Forward(l)` follows the `next` pointers from `first_`, for at most
as many steps as there are nodes. `ForwardIsQueue` (`SelectProofs`) says that
what it meets is the queue the pointers stand for. The walk is a recursive
function over the numbers up to that bound, and the proof is an induction over
them. The library's induction theorem has an operator for a parameter and cannot
be cited; `Inductive` takes a set instead and is proved from the least element
of its complement. There have to be finitely many coroutines
(`ProcsAssumption`). `WaitersFound` is `WaitersReachable`.

**Matches** (`SelectDeliveryProofs`). `NoMissedMatch` speaks of channels that
nobody is inside of, and says nothing of the step before. `Met` holds at all
times: a reader waits only where the buffer is empty, no read is about to refill
it and no writer waits; a writer waits only where the buffer is full, or has
just the one free cell that a read about to refill has made. A read looks
into the buffer before it looks for a writer, if there is one (`ReadsFrom`).
`WInv` is `IInv /\ Met`; `NoneMissed` follows.

**Values** (`SelectDeliveryProofs`). `Kept(v)` says where a value is without
counting places: if it was sent, there is one buffer cell, slot or result that
holds it, and every one that does is this one; if it was not, there is none.
`VInv` adds this and `Counted` (every selection that has ended has left a
result, so that a value names the selection it was written in) to `WInv`. Every
action that moves a value takes it from one place and puts it in another.
`ValuesKept` is `ValuesConserved`.

**Order** (`SelectDeliveryProofs`). `ReadInOrder` compares results, but what
makes it true lies ahead of them: `Ordered` says that for every channel and
reader the results, the value in hand and the buffer are three parts of one
queue, in which two values of one writer stand in the order they were written.
`OInv` adds it to `VInv`: a write appends the youngest of its writer's values,
because the writer does nothing else until it has returned, and a waiting writer
refills only the cell behind all others. `ReadsInOrder` follows, and
`InvariantHolds`: `IInvWalked` is `OInv` with the queues found by walking, which
TLC can evaluate.

**The refinement** (`SelectRefinementProofs`). `SelectIsAtomic`: every behaviour
of `Select` is one of `AtomicSelect` under the mapping of `SelectRefinement`.
The abstract `ahead` is a relation, the concrete one a walk; `AheadIsQueued`
turns the walk into the order of the queues of `IInv`, and three lemmas say
what becomes of it: `AheadShrinks` when nodes leave or can no longer be claimed,
`PopKeeps` and `DequeueKeeps` that the others stay as they stand, `AppendedOrder`
that who comes last stands last. Then there is one lemma per action: `Lock`,
`DropClaimed`, `LoseClaim`, `EndSubmit`, `Resume`, `ClearWait` and `RefillNone`
change nothing the mapping sees (`NoAttempt`, `DropIsNothing`, `ClearIsNothing`),
`Park` and `PassOver` are a failed attempt (`FailsAtomically`), but nothing if
the selection was served meanwhile (`ParkIsNothing`), and all others are the
attempt they make. That the peer met is the first who can still be claimed is
`FirstForemost`; that an attempt fails only where the abstract one would
(`Unlucky`) uses `Met`.

**The ring** (`ChannelBufferProofs`). `RingInv` is `TypeOK /\ CellsMatchCount`:
a cell holds a value if and only if it is one of the `count_` cells from `head_`
on. The arithmetic is that of indices modulo the size: the next free cell is
not in use, and the cells from the new head are those from the old one but the
first. `RingTypeCorrect`, `TransfersDefined` and `RingImplementsFifo` follow.

**Promises** (`AsyncPromiseProofs`), for any coroutines, promises and slots, and
any number of suspensions. `PInv` says of every coroutine that waits in which
place its handler is, if no late write has destroyed it (`HandlerOf`), that the
promises in its frame hold nobody else's (`FrameOf`), how far the calls under
way have come (`Calls`), and that whose handler is destroyed is not resumed
(`LostWait`). `HandlerKept` counts the places; `NoWriteBehind` is `NoLateWrite`:
a `set_value` has the handler in hand, so that nobody can have posted it. Both
hold on whatever promises `set_exception` is called. `SlotsAreSafe` adds an
assumption, `Erring \subseteq Slots`, and shows `NothingLate`: what is written
behind a post is then never in a frame.

**Handles and tables** (`ChannelHandlesProofs`), for any number of threads and
addresses, and finitely many handles and locations. `HInv` adds to
`UsesExact` and `TracerExact` what a thread in the middle of a constructor or
destructor may rely on: the state is no handle's and no other thread's
(`Apart`), the handle to be constructed is empty and nobody else's (`Targets`),
and who copies a location holds the mutex of the tables (`Holds`). `Copy`,
`Move` and `Destroy` are one lemma, `ReleaseStep`, and the count of handles
that it needs, `Rehandled`. `UsesCounted`, `HandlesNeverDangle`, `TablesRight`,
`AnswersTrue` and `PoolStays` follow. `CInv` adds the numbers: only finitely many
threads are ever between two steps, so that sets of them can be counted, and
every step that changes the count or a table moves one thread or one entry
(`CountRegisters`, `CountUnregisters`). `CountsRight` is `CountsAgree`.
`HandlesTypeCorrect` needs it: that the count is never negative is because every
thread that has still to unregister has an entry of its own.

**Results** (`SelectResultProofs`), for selections of any length over any
channels. The alternatives of an operation stand together, so that its tokens
are the numbers from its base token on (`TokensStand`), and each is decoded to
its own alternative (`TokenDecoded`). `RInv` says that a result has the type,
the channel and the value of the alternative that took effect; with `WellTyped`
selections its type names the operation (`OneTypeEach`). `ResultsToldApart`,
`OneTypeIsFound` and `ValuesFound` follow.

**The example** (`ExampleSumProofs`), for any number of subtasks and any array.
`SumKept` is about sums over sets, which are folds that take a set apart in an
order nobody knows. That the sum does not depend on it (`SumTake`: any element
may be taken first) is an induction over the subsets of the set; the property is
again a set (`SubsetInduction`), and what it rests on is that the strict subset
ordering of a finite set is well-founded. `EInv` adds to `TypeOK`, `SumKept` and
`NobodyLeft` that the whole array is sent before the first subtask is joined,
and that a subtask offers its result if and only if it is the one being joined:
without this `Retrieve` could join a subtask twice or take the wrong sum.
`SumTypeCorrect`, `NumbersKept` and `EverybodyJoined` are the three properties;
`SumIsRight` says what they are for, that `sum_task` returns the sum of the
array. `NeverAlone` is the safety half of `Returns`: wherever `sum_task` has
come to on a channel, a subtask is there, or comes there when it is started.

*Only model-checked*: liveness under fairness (`SubmissionEnds`, `MatchedReturns`,
`AllReturn`, `Returns`), which is beyond the prover; of the first and the last
the safety half is proved. Every other property that a run finds to hold is a
theorem. What TLC refutes (section 6) is none, or, like `NoDanglingPointer`, one
for orderly scripts only.

## 6. Where the code and its documentation disagree

- **A cancelled write stays in its list** (`include/write_op.hpp:204`).
  `clear_wait` unlinks the wait node of a write through `reader_list()`,
  whereas `submit_with_wait` put it in `writer_list()`. A select of two writes
  that returns leaves the other channel's list pointing into its ended frame
  (run `cancelledwrite`); where another writer has queued behind it, it breaks
  the assertion at `detail/channel_waiter_list.hpp:73` instead. README.md:180
  promises that the first ready operation cancels all others.
- **A select over both ends of one channel blocks its thread**
  (`include/detail/channel_waiter_list.hpp:123`). Having parked the read, the
  select finds its own node at the head of the reader list when it submits the
  write, and locks its own context's mutex twice (run `bothends`). README.md:87
  names no such exception.
- **A result may match a channel it is not about**
  (`include/detail/channel_op_result_base.hpp:22`). A result keeps the address
  of the shared state, not a share of it. When the last handle of the channel
  is gone and another channel is constructed at the same address, the old
  result matches the new channel (run `sameaddress`). README.md:237 says that
  the result remembers the shared state.
- **Asking for more locations than there are**
  (`include/detail/allocate_tracer.hpp:101`, used at 239). `max_n_elements`
  returns as many iterators as were asked for, of which only as many are set as
  there are elements; the caller follows all of them (run `fewlocations`).

One more thing the model shows contradicts no document, and has no run of its
own: `set_exception` and `reset`, called on a promise in the frame of the
coroutine that waits, write to it after the post, when the frame may be gone
(`include/async_promise.hpp:127`, 139). `NothingLate` fails for such calls;
`SlotsAreSafe` says that nothing else makes it fail. `set_value` consumes first,
and is safe on every promise (`NoLateWrite`). The library calls nothing else.

## 7. What is not modelled

- *`async_promise`*: `get_awaitable` outside `suspend_with_promise`, the use of
  a promise that was moved from, the assignment to a promise in the frame of
  another coroutine, and the destruction of a promise somebody waits for (which
  ends his coroutine, see below).
- *A handle that is assigned to or moved from while an operation waits through
  it*: an operation refers to the caller's handle until it returns, and the
  library leaves it to its clients to keep it as it is.
- *The tracer without* `ASIOCHAN_CH_ALLOCATE_TRACER_FULL`: it is the count
  alone. `collect_ctr_src_locs` formats the tables.
- *Results*: `operator==`, `operator<=>` and the constness of the accessors.
  Which handles a question may be asked with is not modelled either: both
  `received_from` and `sent_to` demand a readable one
  (`include/select_result.hpp:128`, 146), so that a write-only handle has to be
  asked about with `matches`. The model asks with a channel, as a handle of both
  directions does.
- *Exceptions*: `asio::post` and `std::queue::push` may throw; the code has no
  path for it.
- *Destruction of a suspended coroutine*: the code has no path for it either;
  the wait nodes would stay linked.
- *Memory ordering*: everything shared is under a mutex or atomic, so steps are
  sequentially consistent.
- *Concepts, type traits, build files*: no state. What the concepts accept is in
  `Selections`.
- *The test programs*: they are clients; the tasks and timers of
  `tests/asiochan/test_channel.cpp` are what the scripts of `MCSelect` are made
  of.

## 8. Plan

Done:

1. `WaiterList`, `Selections`, `Select`, their properties and instances; the
   pointer lemmas; the control invariant for every script; the inductive
   invariant and four safety properties for orderly scripts.
2. `Fifo` and `ChannelBuffer`, with the refinement proved; `AsyncPromise`.
3. `AtomicSelect`, the abstract specification of selects and channels, with the
   refinement model-checked; reads with a timeout.
4. `ChannelHandles` and `AllocateTracer`, with theorems; `SelectResult`,
   `ExampleSum`.
5. `NoMissedMatch`, `WaitersReachable`, `ValuesConserved` and `ReadInOrder`
   proved for orderly scripts, and the refinement of `AtomicSelect`; the
   properties of `AsyncPromise` and `SelectResult`; the rest of
   `ChannelHandles`.
6. `NoneStuck`; sums over finite sets, and with them the theorems on the example.

To do: nothing of what the runs check and the prover can reach is left. What
would come next is in section 7: a promise that is used after it was moved from,
and the destruction of coroutines that are suspended.
