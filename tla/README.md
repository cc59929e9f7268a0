# stoned in TLA+

`stoned` is a Ruby interpreter in C23: a source file goes through the lexer, the
parser, a semantic pass and a tree-walking evaluator, and a set of Ruby programs
(`exe/bundle`, `exe/gem`, `bundler/`) runs on top of it.  This directory keeps the
formal model of it: how a jump or an exception finds its way through activations that
know nothing of each other, what is left of that when fibers switch C stacks under it,
collections that change under their iterators, files that load files, streams over a
device that fills up, method lookup, and the sequential algorithms, from binding powers
to UTF-8, against definitions of what they are to compute.

Check everything from this directory:

    tlc -workers 2 -config MCUnwindClean.cfg MCUnwind
    tlc -workers 2 -config MCUnwindAll.cfg MCUnwind
    tlc -workers 2 -config MCFibers.cfg MCFibers
    tlc -workers 2 -config MCArrays.cfg MCArrays
    tlc -workers 2 -config MCHashes.cfg MCHashes
    tlc -workers 2 -config MCAlgorithms.cfg MCAlgorithms
    tlc -workers 2 -config MCLookup.cfg MCLookup
    tlc -workers 2 -config MCLoader.cfg MCLoader
    tlc -workers 2 -config MCStreams.cfg MCStreams
    tlapm Unwind_proofs.tla
    tlapm Fibers_proofs.tla
    tlapm Loader_proofs.tla
    tlapm Bytes_proofs.tla
    tlapm Recursion.tla
    tlapm Arrays_proofs.tla
    tlapm Hashes_proofs.tla
    tlapm Lookup_proofs.tla

## The system

| part | source | state | operations |
|------|--------|-------|------------|
| lexer | `src/lexer.c` | position, stack of string/heredoc/interpolation modes, pending tokens | next token, peek |
| parser | `src/parser*.c` | current token, error list, AST in the arena | one function per grammar rule, precedence climbing, error recovery |
| sema | `src/sema.c` | scope stack; depth counters for def, lambda, proc, block, loop, rescue | resolves locals, rejects misplaced jumps |
| evaluator | `src/eval.c`, `eval_support.c` | `struct Eval`: exception registers, `rescue_context`, `call_depth`, `frames`, `active_defs`, `current_file`, `current_fiber`, `errored`; environments | `eval_node` by node kind, `call_block`, raise, parameter binding, require/load |
| dispatch | `eval_dispatch*.c` | objects, classes, singleton environments | `eval_call`, `call_method_value`, `dispatch_method`, built-ins of each class |
| fibers | `eval_dispatch_objects.c` | per fiber: two contexts, a stack, `alive`, result, arguments | new, resume, `Fiber.yield`, `alive?` |
| environments | `env.c` | chain of environments, `is_def`, `block_arg` | get, set, update, define, nearest def |
| values | `value.c`, `arena.c`, `ast.c`, `rope.c` | arena blocks, arrays, hashes | constructors, hash table, bump allocation |
| streams | `eval_dispatch_objects.c` | `NativeFile`, `closed`, mode, eof | open with or without block, read, write, seek, close |
| main | `main.c` | exit status, `at_exit` list | parse options, run, handlers |
| bundler, gem | `bundler.rb`, `bundler/`, `exe/` | Ruby objects, lock files | resolve, install, exec |

**How they interact.**  Everything is a C call in one thread.  `eval_node` calls
itself for sub-nodes; a call node goes through `eval_call` to
`call_method_value`, to a built-in or, for a top-level def, to the `call_method`
label.  Built-ins call back into the program through `call_block`.  Every one of
these returns a `Value`, which is either a value or a *signal* (return, break,
next, retry, throw, exception); an activation that does not handle a signal must
hand it on.  An exception travels twice: as a signal, and in the registers
`current_exception`, `exception_class`, `exception_msg`.  The two have to agree,
because a raise is ignored while the registers are set, and the parameter checks of
calls look at the registers and not at the signal.

**What is hard.**  There are no threads.  The hard behaviours are those of
activations nested in an order nobody wrote a test for: each of some forty places
that run a body or a block lists the signals it handles; several registers are
saved before such a call and restored after it, on each way out; procs outlive
the methods they were written in; arrays of fixed size saturate; fibers switch
stacks under registers that are not switched; blocks change the collection that
calls them; files are loaded inside files; bytes wait in buffers for a device that
may refuse them; and what one function decides (sema, `ancestors`, the sent `%`) a
second one decides again by other means.  `PROJECT.json` lists these hazards
with their lines and the properties that cover them.

**What makes each part correct.**  Unwinding: each signal stops at the construct it is
meant for, every ensure runs once, the registers agree with the signal.  Fibers:
control and values move as coroutines promise, and the registers of one fiber are not
touched by another.  Collections: iterators stay inside what is live whatever their
block does, content comes and goes only by the methods that say so, and a hash has one
entry for each key in order of insertion.  Loader: a file is evaluated once, `current_file`
is that of the running code, every run ends.  Streams: no written byte is lost without a
report, no byte is read twice, and blocks close what they opened.  Lookup: dispatch, super
and reflection tell the same story, and visibility is checked on every path.  Scopes and
constants: a name means what the text says.  Binding and patterns: nothing is lost or
doubled on its way into names.  Parser: an expression is read back as the tree it was
written from.  Strings, numbers, code points, paths: each method agrees with a definition
and with its neighbours.

## Modules

### `Unwind.tla`

One activation of the evaluator is one record on `stack`, the C stack.  `ret` is
the last returned value, and an action is what the code does between two
evaluations: entering a construct (`EnterBegin`, `EnterCall`, `Yield`, ...), or what
the running activation does with the result it got (`Rescue`, `EnterEnsure`, `LeaveCall`,
`LeaveBlock`, `NativeLeave`, ...).  The registers of `struct Eval` are variables:

| variable | code |
|----------|------|
| `exn` | `current_exception`, `exception_class`, `exception_msg`; they are set and cleared together |
| `rescue_context` | `rescue_context`, and `$!`, which is saved and restored with it |
| `cause` | the `__cause__` of each exception object |
| `call_depth`, `frame_count` | the fields of that name; frames are counted, not recorded |
| `active_defs` | `active_defs[0 .. active_def_count - 1]` |
| `block_arg` | `block_arg` of each method environment |

The program is not fixed: wherever the evaluator would run the next statement, any
statement the semantic pass accepts there may come.  `Allowed` is what the depth
counters of `sema.c` accept, carried along in `jumps`.  `uses`, chosen at the start,
limits a run to the programs over one set of constructs (`Profiles`).

`home` in an activation and in a break signal is a ghost.  It names the stack index
of the call the block literal was written on or of the loop the break is in: where
the break is meant to stop.  The code has no such field, and no guard reads it.

Left to other modules or left out: the classes of a rescue clause (a clause matches or
not), values, `errored` (internal errors that end the run), methods made by
`define_method`, singleton methods.  Built-ins with rules of their own for block
results (`any?`, `each_with_object`) are in `Enumeration`.  Two kinds of program are left out: a `def` written
inside a loop or block, and a `yield` whose method is over, which reads a dead C
frame (undefined behaviour).

### `MCUnwind.tla`

The instances.  `CleanProfiles` are sets of constructs that work together.
`MixedProfiles` combine the ones the evaluator confuses, and `RopeProfile` has the one
disagreement that is kept as a run.

### `Coroutines.tla`

What `Fiber` promises a program: resume hands control and a value to a suspended fiber;
`Fiber.yield` and the end of the block hand both back to whoever resumed it; a dead fiber
refuses.  One step hands over control and value together.  Resuming a fiber that is
active has no promise: it leads to `Lost`.

### `Fibers.tla`

The code of it.  A context is `Main` or a fiber; `point` is where each context
stands, and `running` the one the processor is in.  `swapcontext` splits a handler in
two: `Resume`/`AfterResume`, `Yield`/`AfterYield`, `Finish` and, at the other end of a first
resume, `Start`.  What a handler reads after its `swapcontext` is read in the second
part, after any number of steps of other contexts.

| variable | code |
|----------|------|
| `current` | `ev->current_fiber`, `Main` for NULL |
| `alive`, `caller_ctx`, `resume_args`, `result` | the fields of `RubyFiber`; `caller_ctx` is reduced to whose context it holds |
| `point[c].prev` | the local variable `prev` of the C frame of resume |
| `call_depth`, `active_defs`, `rescue_context` | the registers of `struct Eval`, one for all contexts |
| `frames` | what is on the C stack of each context: open methods and rescue bodies |
| `got` | ghost: the value the program in each context got back last |

`program` is the kind of program, chosen at the start: the values it passes, how many
methods it calls and exceptions it rescues, and whether its fibers stay `flat`, that is, never
yield inside a method or a rescue body.  `resume` tests `alive` only, so resuming
a fiber that runs or waits jumps to a context whose stack is in use; what follows is
undefined, and `ResumeInUse` ends the behaviour in `Lost`.  The block's result may be
a signal; here it is a value like any other, and what the resumer makes of
it is left to a composition with `Unwind`.  `alive?` and `Fiber.current` only read.  The
`frames` array (error messages) and the size of a fiber's stack are left out.

`ImplementsCoroutines` is `Coroutines!Spec` under the mapping `Status`, `Resumer`,
`Inbox`: a value on its way is in the mailbox the code after the `swapcontext` is
about to read.

### `MCFibers.tla`

`AllPrograms` has one kind of program without calls and two values, one flat kind, and two
that yield inside methods and rescue bodies.

### `Arrays.tla`, `Hashes.tla`

One array or hash, as the C code keeps it: `mem` is the slots in use and, behind them, those
that were in use before and may still be read.  Every method that changes the receiver is
an action (`Push`, `DeleteAt`, `Insert`, `StoreRange`, `SliceBang`, `MergeBang`, `Rehash`, ...); its
guard, its order of tests and what it leaves on an error are those of the method.  An iterator is
a position, `loop`, between two calls of its block: `StartLoop`, then for each turn a block
that may first change the collection (`Changes` bounds how often), and returns or leaves
(`BlockReturns`, `BlockLeaves`), then `Proceed`, which reads the collection again as far as the code does.
The methods that keep some entries and append them to a new collection share `Picked` of `Pieces.tla`: the elements of a
sequence at some of its positions, in order.
Hash keys have a name and an identity, for `compare_by_identity`; a hash may be `ENV`, with the
process environment in `environ`.  `MaxRekeyed` is the length of `new_keys` in `transform_keys!`, 256 in the
code: `Room` counts no more entries than that, and the keys behind them stay.

### `Lookup.tla`

Classes, modules and one object as tables: own methods, class methods, included, prepended
and extended modules, singleton methods.  The operators above the actions are the C functions that
search them, each with its own walk.  A C function that calls itself for the superclass and for the modules given to a class is a
function over all classes and modules, defined from its values at those (`FindAt`, `SuperAt`, `CollectAt` are one call); it is well
defined since no module reaches itself (`Reaches`) and no class is above itself (`LookupAssumption`).  The actions are what a class body, a `def`, `private`, `alias`,
`include`, `extend`, `undef_method` and the like do to the tables.  `bodies` is the stack of open
bodies with the two variables (`target`, `mode`) the code keeps for them.

### `Loader.tla`

A run of a program over files chosen while it runs: `stack` is the C stack of pieces of code,
`current` is `current_file`, `loaded` the list of loaded files; `Require`, `Load`, `Call`, `Raise`, `Exit`,
`AtExit` are statements, `Return`, `Unwind` and `Rescue` the ways out, `RunHandler` and `SkipHandler`
the loop of `main` over the handlers.  History variables (`ran`, `due`, `circled`) exist for the
properties only.

### `Streams.tla`

`File` objects over one file.  `files` holds for each the instance variables the code keeps and its
`FILE*`, an external part: a buffer of written bytes, the bytes read ahead, a position, the end
flag.  The device may become full at any time (`Device`), after which flushing fails and drops the
buffer, and `others` is what another File may do to the file in between.  `Open` with and without a
block, every reader, `Write`, `Flush`, `Seek`, `Rewind`, `Eof`, `Close`, `each_*` with their blocks.

### The sequential algorithms

`Calls` is the machine they share: one call is made from an idle state, with all its arguments
and its result, and the properties are about that call.  The results are computed by operators
that follow the code's loops, and the properties define them without loops.

| module | code | the definition it is checked against |
|--------|------|--------------------------------------|
| `ArrayQueries` | queries, searching, sorting, grouping, combinatorics of Array | sets of positions, selections, permutations |
| `Ranges` | ranges of integers | the set of members |
| `Enumeration` | every method with a block of Array, Hash, Range, one answer of the block for each step | what its name says of the answers, and who receives a jump |
| `Binding` | `eval_call`'s argument array, `bind_params`, `bind_pattern`, `assign_target` | the arguments in order, each once |
| `Patterns` | `match_pattern` and case/in | a match exists, and its names put back give the value |
| `Scopes` | `sema.c` and the environments | the rule of the language for locals |
| `Constants` | constant lookup, class and module bodies, a program of up to four statements | the bodies around, the ancestors, the top level |
| `Strings` | the String methods that convert positions, cut, search, pad, count up, choose characters | the sequence of characters |
| `Numbers` | integer and float methods in a width of `Top` | arithmetic |
| `CodePoints` | `utf8.c`, `Integer#chr` | the table of well-formed sequences |
| `Paths` | `require`'s path functions and those of File | where the path leads in a tree |
| `Expressions` | `parser_expr.c` | the tree an expression was written from |

Where the code departs from its definition the property names the exception, in its comment and in a
condition of its own, so that the departure does not hide another one.  Those exceptions are listed below.

### The proofs

`Unwind_proofs`, `Fibers_proofs`, `Loader_proofs`, `Arrays_proofs`, `Hashes_proofs` and `Lookup_proofs` prove
theorems about the module of that name, `Bytes_proofs` about `Streams` and `CodePoints`.  `Recursion` holds the lemmas that
several of them cite and that speak of no component: induction up to a number, functions defined from their value one place
before or from their values at linked places, sequences of bounded length, and what `Picked` of `Pieces` chooses
(`PickedFacts`, `PickedFrom`, `PickedNext`).

## Runs

| run | bounds | distinct states | what it shows |
|-----|--------|-----------------|---------------|
| `unwind_clean` | 12 profiles, 5 activations, 2 methods, 2 exceptions, 2 tags, depth limit 8 | 3,711,585 | in programs over constructs that compose, signals stop at their receivers, the registers agree with the signal, `active_defs` is exactly the running methods, a return has a live target |
| `unwind_mixed` | 6 profiles, 4 activations, 2 methods, 2 exceptions, depth limit 1 | 2,357,325 | whatever is mixed: arrays stay in bounds, `call_depth` is exact and at most one past the limit, `rescue_context` is right, ensure bodies run once |
| `fibers` | 3 fibers (symmetric), 2 values, 4 kinds of program, 2 open bodies in each context, depth limit 3 | 1,591,907 | control and values move as `Coroutines` says, `current_fiber` is right, resumers form a chain to the main program, `call_depth` counts the calls of all contexts, and the shared registers are right in flat programs |
| `fibers_nested` | 2 fibers, 2 methods | (violation) | `active_defs` after a fiber is suspended inside a method |
| `arrays` | arrays up to 3 elements of 3 values, one change of the array by each block call | 53,018 | positions stay inside what is live, undisturbed iterators give what they say, content comes and goes by the right methods only |
| `hashes` | 3 keys of which two are equal, values 1 and nil, 3 entries, room for 2 new keys (`MaxRekeyed`), one change in each block | 179,772 | one entry for each key in order, ENV followed, iterators and derived hashes right |
| `algorithms` | see the constants of `MCAlgorithms.cfg` | 586,252 | each of the twelve modules of algorithms agrees with its definition |
| `lookup` | 2 classes, 2 modules, up to 3 links at the start, worlds of 3 entries from there | 221,167 | dispatch, super, reflection and visibility agree |
| `loader` | 5 files in 2 directories, 4 statements in all | 801,311 | `current_file`, loading once, handlers, and that every run ends |
| `streams` | a writing and a reading File, a file of 2 bytes, blocks one deep, 4 modes | 111,776 | no byte lost, doubled or left out; blocks close |
| `unwind_rope` | one profile | (violation) | an exception dropped in an interpolation |
| `lookup_super` | as `lookup`, with 2 links | (violation) | super that goes back to itself |

Why these bounds: every pair of constructs that interact sits within three
activations (receiver, the one it passes through, the one that signals), so five hold
each pair inside another handler; two exceptions and two methods are what a wrong
target, a wrong cause or a wrong restore needs.  A depth limit of 1 makes
`SystemStackError` and the saturation of `frames` and `active_defs` happen; 8 keeps them out
of the run whose property they break.  `MaxRaises` is the only bound that may
stop an activation in the middle (an orphan jump needs a new exception), and
`Halted` says so.

For fibers, three make every chain with one fiber between the first and the last, and
a resumed fiber beside it; two values tell the mailboxes apart; `EvalMaxDepth` 3 with 4
methods makes `call_depth` pass the limit and `active_defs` saturate while two contexts
hold calls.  `OwnRegistersWhenFlat` speaks of states below the limit only, since at
the limit `active_defs` is wrong without fibers too.

For arrays and hashes, three slots hold an element before, at and after the position of an iterator,
and one change in each block call is what a stale length, position or slot needs; changes
add up over the turns.  With room for 2 new keys, `transform_keys!` meets hashes shorter than its room, as long, and
longer.  For lookup, three links make a module of a module in a class
with a superclass, or a module met twice; deeper chains repeat these steps.  For the loader, four
statements are the least for two files that require each other with a failure rescued in
between.  For streams, two bytes tell order, loss and duplication apart and hold one wide character.
For the algorithms, each bound reaches both sides of every boundary its code tests: an empty and a full
range, a negative position before the start, a splat with nothing left for it, every first and second
byte at which the UTF-8 table changes, the two ends of the integers.

`VIEW`: `MCArrays`, `MCHashes` and `MCStreams` leave out what the last call returned, which no action reads and
which only step properties use (TLC evaluates them on every step, before it looks at the
view); `MCHashes` also drops what its comment argues nothing reads again, and `MCLookup` the two variables
of bodies that are closed, which opening sets.  `SYMMETRY` is used in `MCFibers` and `MCLookup`, which check
no liveness, over fibers and modules that no definition names.

Fairness: `Loader` assumes `WF_vars(Next)`.  One thread evaluates the program and waits for nothing, so
a run that can take a step takes it; `RunsEnd` then says that walks over lists that grow meanwhile (files, handlers)
end.  The other modules assume none: whether a Ruby program ends, or another fiber is ever resumed, is up to it.
Deadlock is checked where the system never stops on its own; the runs that say `CHECK_DEADLOCK FALSE` end
at a bound (a full world of `Lookup`, a program that is over in `Loader`, a frozen array).

## What does not agree with the documentation

In programs of a few lines (those with a run are shown by it, the others are in the `findings` of `PROJECT.json`):

- **interpolation** (`unwind_rope`): `"a#{raise 'x'}b"` drops the signal, leaves the
  registers set, and the program goes on.
- **else**: a `return` out of a begin body with an else clause runs
  the else body and is lost.
- **throw in a loop**: while, until, for and loop take a throw for a
  value.
- **cause**: `rescue => e; raise e` makes `e` its own cause.
- **depth limit**: at `EVAL_MAX_DEPTH` running methods are
  dropped from `active_defs`.
- **fibers in methods** (`fibers_nested`): a fiber suspended inside a method leaves its
  entry on `active_defs`; the next method to end pops that one instead of its own, or
  loses the one it is in, and a proc's `return` then raises LocalJumpError.  `$!`
  goes wrong in the same way when rescue bodies of two contexts interleave, and suspended
  calls count against the depth limit of everyone (`DepthIsTotal` says exactly this).

- **super** (`lookup_super`): a module given twice to a class or a line of classes makes super
  find the same method again, without end.

Departures that the properties name as exceptions:

- *blocks*: `any?`, `all?`, `none?`, `one?` take a jump for a true value; `each_with_object`, `group_by`,
  `flat_map`, `sum` and the finders of Range hand a break on.
- *arrays*: `uniq!`, `rotate!`, `shuffle!` and loops whose block freezes change a frozen array;
  `select!` whose block clears the array brings elements back; `reject!` left half-way keeps the gap.
- *hashes*: `transform_keys!` can leave two entries of one key (`KeysUnique`, `OrderKept`) and transforms the first `MaxRekeyed` keys
  only, 256 in the code (`Meant`); `ENV` is mirrored by `[]=`, `store`
  and `delete` only.
- *ranges*: `end(n)` of a short range, `min` and `max` of an empty one, `overlap?` with an empty one.
- *binding*: required parameters after optional ones, a `*` inside parentheses counted as a splat,
  arguments past the 64th.
- *patterns*: a hash pattern whose key is missing can match nil; a pin sees what the same
  pattern bound.
- *locals*: `x ||= v` on a fresh name, names of `for` bodies and rescue bodies, a name declared and not set inside a def.
- *constants*: nil constants, an inherited one hidden by the top level, `::X`, bodies opened by path.
- *strings*: `insert`, `slice!` count bytes; `squeeze` and `tr` with a caret; `rindex` with a limit; `split` with -1.
- *numbers*: the sent `%`, powers with a modulus beyond the width, an Integer's half goes up, a Float's away from zero.
- *paths*: files directly under `/`; `basename` with `".*"`; `split` of `/`.
- *expressions*: levels of `or`/`and`, `|`/`^` and `<=>`; one modifier only; blocks after nested commands; commands in a ternary.
- *lookup*: protected methods of modules, `is_a?` through modules of modules, super that finds methods of enclosing scopes.
- *loader*: files that require each other, methods called without a receiver, refused lambdas, handlers after exit.
- *streams*: failures of `flush` and `rewind` that are not reported.

Met while modelling `Unwind` and kept out of the clean profiles: a break out of a block
given to a top-level def, or in a block of a block that yields, stops at the wrong
call (`call_method_value` takes any break when it was given a block); a break
through a `yield` in a loop ends the loop; a lambda takes the return of a
proc called in it; a literal block kept through `&b` and called later ends the program
with its return; after a retry the else clause never runs.

## Proofs

### Unwinding

For every value of the constants that satisfies `ProfilesAssumption` and
`BoundsAssumption`, in `Unwind_proofs`:

- `TypeCorrect`: `Spec => []TypeOK`.  One lemma per group of actions; each step
  pushes, pops or replaces an activation (`PushTyped`, `PopTyped`, `ReplaceTyped`), and
  `TypesGrow` carries the types over when an environment or an exception is created.
- `RescueContextCorrect`: `Spec => []RescueContextInnermost`.  The property is not
  inductive, since it says nothing about outer handlers.  `RescueInv`
  adds that the handlers form a chain: the `prev` of each is the `handled` of the next
  one out.  The step uses `StepShape`: every step pushes above,
  pops the top, or turns the top activation.
- `EnsureRunsOnce`: the action property, from `TypeOK` and `StepShape`.
- `ExnCoherentWithoutRope`: if no profile has `"rope"`, `Spec => []ExnCoherent`.  The
  strengthening `ExnInv` says what an ensure has saved: an exception if its result is
  one, and none otherwise.  The assumption is needed: `unwind_rope` shows the
  property fails without it.

`JumpsFindTheirMethod`: if no profile has `"escaped"`,
`Spec /\ [](call_depth < EvalMaxDepth) => []JumpTargetsKnown`.  Two facts make it inductive.  *Hosts*:
the text of a method runs in the activation of its call or in that of a proc or lambda made in it, so
whatever may still run or return on the stack has its host below (`Fits`).  *Order*: environments are
numbered as they are made, so `active_defs` and the calls on the stack are both ascending, and the pop of
`active_defs` removes the entry of the call that ends.  Both hypotheses are needed: at the limit
`active_defs` drops a push and later pops remove entries of others, and a block literal kept
beyond its method returns to a method that is over.  The hypothesis on `call_depth` is an invariant of every run that
does not reach the limit; the run `unwind_clean` is one (a limit of 8, five activations).

`SignalsStopWhereMeant`: if every profile `Composes`,
`Spec => SignalStopsAtItsReceiver`, at any depth and with any limit.  `SignalInv` tells from the stack
alone where a signal is heading.  `Aims`: going down from the top, the first activation that stops a
break is the one it was written for (`Catches` lists those that stop one, as the C code does, and `Home`
gives the place they stand for).  `Arrives`: a return passes a lambda of another method only below the
place where it lands.  Each is asked of the travelling signal, of the result an ensure body holds back, and of the
breaks and returns that the text still to be run may raise (`BreaksAim`, `ReturnsArrive`).  `Owned` says
which call or block the text of an activation belongs to.  `Composes` excludes the combinations of
constructs under which the property fails and no others: TLC finds the property violated for a profile of each
excluded pair (22 profiles), and holds it and `SignalInv` for the maximal sets that compose.  `MCUnwind`
assumes, and TLC evaluates, that all of `CleanProfiles` compose, so the run `unwind_clean` is an instance of the theorem.

### Fibers

For every value of the constants that satisfies `FibersAssumption`, infinitely many
fibers included:

- `FibersImplementCoroutines`: `Spec => ImplementsCoroutines`.  `SwitchInv` says who may
  stand where (`OneRuns`: one context is in code or just after a `swapcontext`) and who
  waits for whom (`Waits`: the caller of an active fiber stands in resume of that fiber,
  and will restore `current_fiber` to itself).  Under it `Resume`, `Yield`, `Finish`,
  `Refused`, `New` and `ResumeInUse` map to a step of `Coroutines` each, and the second
  parts, as well as `Evaluate`, to stutters.
- `CurrentCorrect`: `Spec => []CurrentIsRunning`, a consequence of `SwitchInv`.
- `ResumersCorrect`: `Spec => []ResumersWait`.  That no circle exists is stated with sets
  (every non-empty set of active fibers has one whose resumer is outside it), which is inductive:
  the only new edge starts at a fiber nobody active was resumed by.
- `DepthCounts`: `Spec => []DepthIsTotal`.  The set of open calls (`OpenCalls`) gains or
  loses one element with each change of `call_depth`; it stays finite although `Contexts`
  need not be.
- `FlatFibersOwnRegisters`: `Spec => []OwnRegistersWhenFlat`.  The registers are a stack shared by
  contexts that are not one; in flat programs the contexts that have started and not given control
  back (`Live`) are.  `Ranks` numbers them by who resumed whom, the running one highest; `InOrder`: what is open
  in one was opened before anything open in a higher one.  So what the running
  context opened last is the latest of all (`InnermostIsLatest`), `active_defs` is the ascending list of all
  open methods (`DefsKnown`), and `rescue_context`, as well as every saved `prev`, is the latest exception below
  (`Handled`).  `Resume` adds a rank, and a fiber that gives control back has nothing open, so
  its rank can be dropped: there the proof uses that the program is flat.
- `FiberTypes`: `Spec => []TypeOK`.

### Loader

For every set of files and every bound that satisfies `LoaderAssumption` and `VocabularyAssumption`.  One
invariant, `LoaderInv`, with a part for each theorem:

- `LoaderTypesCorrect`: the types, and that `home` gives every helper the one file it is written in.
- `CurrentFileCorrect`: `Spec => []CurrentFileHonest`.  The property speaks of the top of the stack; `CurrentInv`
  says of every piece of code that it will find its own file when it goes on.  `CurrentIn(k)` is
  what `current_file` will be then, the `saved` field of the next piece.  Pieces called without a receiver save nothing, so the
  statement is about lines of them (`Line(i, k)`: the i-th piece has called those up to the k-th without a receiver).
- `LoadedOnceCorrect`: `Spec => []LoadedOnce`.  A file enters the list after its evaluation, so the invariant is about
  files not in the list yet: those being required are pairwise different and not loaded (`RequiresDiffer`).
- `HandlersCorrect`: `Spec => []HandlersLatestFirst`, from the numbers of the handlers: they count down in the list
  (`IdsCountDown`), and what has run and what is left make up the list together (`RanLatestFirst`, `LeftFollows`).

### Streams

For all contents, pieces, modes and bounds that satisfy `FilesAssumption`, `BytesAssumption` and `ModesAssumption`:

- `NothingLostCorrect`: `Spec => []NothingLost`.  `Storage` adds what the fields of a File say of each other (a File without a
  `FILE*` has an empty buffer, the buffer lies before the position, the reading File has none).  The work is in `Placed`, bytes
  stored at an offset: `PlacedFacts` and `PlacedTwice` (storing next to what was just stored is storing both at
  once) are lemmas on sequences; `LeastExists` gives the least position that the readers look for.
- `BlocksCloseCorrect`: `Spec => BlocksClose`, an action property, from the same invariant and `Blocks` (the File of an open block has been opened).
- `ReadsDeliverCorrect`: `Spec => ReadsDeliver`.  `FilesFollow` says, of a File no other File has changed the file under,
  that the buffer read ahead is what the file holds behind the position, that what waits to be written goes just before
  the position, and that the mark of the end of file is honest.  Every operation keeps it (`FilesFollowCorrect`).
  `AheadIsRest` then gives what lies ahead of a reader, and `ReadingVerdict` what each reader makes of it.

### Arrays

For every set of elements, arguments and ends of ranges, and every bound, that satisfies `ArraysAssumption`:

- `CursorsCorrect`: `Spec => CursorsRight`; `UndisturbedCorrect`: `Spec => UndisturbedResult`; `ContentKeptCorrect`:
  `Spec => ContentKept`.  All three come from one invariant and from what one step does under it (`Right`: the invariant again
  and the four step properties), which each action has a lemma for (`PushRight`, ..., `StoreRangeRight`, `BlockRight`).

The properties of the steps say what an iterator returns when it ends, and nothing of the turns before.  `ArrayInv` does:
slots in use are never given back, so whatever a block does to the array a position that was in use stays
so (`Stands`, `DisturbedFacts`); and while the block has done nothing, `Apart` gives, for each iterator, what it has collected
or written as a function of what its block returned so far, and says that the slots ahead hold the content the
iterator started with.  `HeardApart` is the step for one more value of the block, `MeantAtEnd` draws the result when no
element is left, and `MeantAtIndex` when find_index or rindex has its answer.  A filter in place is the case that needs most: it reads and writes one
memory, and its slots ahead are intact only because the write position is not past the read position (`PrefixExtended`).

The methods without a block rest on lemmas about sequences: `PickedFacts` (to choose positions keeps the order and
loses nothing but what was left out), `CutCount` and `SpliceFacts` (what is cut out or put in, counted), `SortedFacts` (the insertion sort
gives an ascending sequence with the same elements), `UniqueFacts`, `RotateFacts` (a turn by any number, negative ones included, is one-to-one).
`Picked` and `Sorted` are recursive functions, so `Recursion` and `UpTo` apply.

### Hashes

For every set of keys and values, every room of `transform_keys!` (`MaxRekeyed`) and every bound that satisfies `HashesAssumption`.  It also says that a hash passed as
an argument holds one entry for a name, as every hash does that was not put into `compare_by_identity`: the argument of
`replace`, `merge!` and `merge` in that mode with two equal keys is not covered.  The receiver may be in either mode.

- `OneEntryInOrderCorrect`: `Spec => OneEntryInOrder`, an action property.  `HashInv` adds to the types where an iterator
  stands in the memory: within the slots in use while the block has changed nothing, within the buffer after that; and
  of `transform_keys!`, that the slots it counted at its start are there, that it stands at one of them and that it has collected keys.  Under it each action is one of five kinds of
  step (`EntriesRight`): the entries stay; they are `Grown` (old keys in place, new ones behind); they are `Thinned`
  (an ascending choice of the old ones); they are those of the argument of `replace`; or the step is the return of a
  block of `transform_keys!`, which the property excepts.  `GrownOrdered` and `ThinnedOrdered` then give uniqueness and order
  whatever the operation was.
- `EnvFollowsCorrect`: `Spec => EnvFollows`.  `MirrorPut` and `MirrorWithout`: to store or delete an entry and to
  set or unset its variable are the same step of `Mirror`, if names are unique.
- `HashResultsCorrect`: `Spec => ResultsRight`, in two parts.  For the methods that make a new hash: `Held` is what a table holds
  for a key, `PutAllHeld` and `PickedTable` say what storing entries or choosing some of them does to it, and
  each of `dup`, `compact`, `merge`, `slice`, `except` has its lemma (`DupDerived`, ..., `ExceptDerived`).  For the iterators the
  property speaks of the end only, so `HashInv` is joined by `Undisturbed` (`UndisturbedHolds`): while the block has changed nothing, the entries
  it was given are the first ones of the content at the start, nothing it returned has ended the iterator yet, and
  a filter in place has before its position what it kept and behind it what it has not seen
  (`Moved`), while under any other iterator the entries are where they were (`Stayed`), and `transform_keys!` has counted `Room` of them.  `FollowsDropped`, `FollowsKept`,
  `FollowsValued` and `FollowsRekeyed` are the step for one more value of the block, `MeantEnded` and
  `MeantStopped` draw the result when no entry is left and when the block ended the search.
  A filter deletes by key and not by position: that it deletes the entry it looks at needs unique keys, which is why `Follows` has them.

`PutAll`, `MergeAll`, `SyncedAll` and `Picked` are recursive functions over the places of a sequence.  `Recursion` proves from the well-founded order of
the naturals that such a function exists and has its values where they belong, `UpTo` (both in the module `Recursion`) is induction for
membership in a set; with them `PutAllFacts`, `FilledFacts` and `SyncedAllTyped` hold for tables of any length.

### Code points

For every set of bytes and code points (`CodePointsAssumption` says only that bytes are below 256 and code points integers):

- `EncodedDecodes` and `DecodedEncodes` are about the operators `EncodeOne` and `DecodeOne`: for every
  scalar value, `utf8_decode_one` reads back what `utf8_encode_one` writes, to its last byte, and whatever the decoder accepts at the
  start of any string is what the encoder writes for the scalar value that was read.  The proofs go by the number of bytes, with
  the ranges of each length named, as linear arithmetic over the parts `Six` cuts out.
- `CodingCorrect`: `CodePointSpec => []CodingExact`, where `CodePointSpec` makes the calls of this module alone.  `BeginsDecodes` and
  `DecodesBegins` show that the decoder accepts exactly the byte sequences of Unicode's table.  The offset of
  `utf8_validate` is computed by a walk and checked against another one: both exist by `CourseOfValues` (a function
  may be defined from its values at all smaller places), and by `ScanSound` whatever moves on over
  characters holds where the walk of `utf8_validate` ends, for strings of any length.

### Lookup

For every hierarchy of classes, any modules, names and bounds that satisfy `LookupAssumption`:

- `LookupInvariant`: `Spec => []IInv`, three facts.  `TypeOK`.  `Acyclic`: the links of modules and superclasses are well-founded,
  because a module is never given to one it reaches (`NewLink`); without it the walks have no value.  `Kept`: for every open body,
  unless it was spoilt, either it is the latest of its class and `target` and `mode` are as it left them, or the body opened next
  above it in that class has saved them; a body that did not put things back spoils those below it.
- `VisibilityCorrect`: `Spec => []VisibilityKept`.  `Kept` at the innermost body is the second half.  The first half, that a private
  method runs for the object itself only and a protected one in the family of its owner only, goes through `OwnerFacts` (what a
  walk finds is an entry with an owner, who is one of the line of superclasses if it is a class).
- `ReflectionCorrect`: `Spec => []ReflectionHonest`.  `RespondLemma` compares `respond_to?` with `Dispatch` case by case;
  `IncludedAreAncestors` is the part about lists: whatever is reached through inclusions is among the `ancestors`.
- `DispatchCorrect`: `Spec => []DispatchFollowsAncestors`.  The walks of the code stop at their first hit; the property
  goes through a list of all ancestors.  Between them stands the list of all places a full walk would visit, repetitions
  included (`Flat`): a walk that stops is the first hit in that list (`Follows`, `AmongFlat`); `ancestors` is the same list with
  each place kept where it comes first (`Dedup`, `AncestorsWalk`), which leaves the first hit where it was (`AmongDedup`).  `super`
  is the walk that has passed a place (`Passes`), for an object along the line of its class and for a class along
  the class side (`SideOf`), cut at the class `super` is called from.  It needs one more invariant, `ClassesClean`:
  `undef_method` marks methods of objects only, never the singleton methods of a class.

The walks are functions whose defining equations choose them; that they have the values the equations say is proved from the
well-founded links (`RecursionAlongLinks` of `Recursion`; `FindUnfold`, `LineUnfold`, `CollectUnfold`), and what holds at
a class if it holds at its links holds everywhere (`AlongLinks`).  `AncestorsFacts` says that a walk collects each class and
module once, and all that it reaches.

### Only model-checked

`RunsEnd` is liveness.  The modules of
algorithms follow recursive C functions with recursive operators, which the proof system does not take.

## Plan

1. An abstract specification of unwinding (a signal goes straight to its receiver, running the
   ensure bodies between), refined by `Unwind` on the profiles that compose; `SignalInv` has what its mapping needs.
2. `method_missing`, `define_method` and hooks in `Lookup`; string ranges; `Struct`.

## Not modelled

The AST printer (debug output), the arena and the AST constructors (no behaviour of their
own), the lexer (one function per literal over characters; its tokens are the input of
`Expressions`), the regular expression engine (vendored), formatting and inspection of
values, floats beyond halves, encodings, `Struct` and `Comparable`, Dir, pipes, time, process and terminal calls
(thin wrappers over libc), statements and definitions of the grammar, and the Ruby
programs under `bundler/` and `exe/`, which are programs and not the interpreter.  Memory exhaustion, the size of the C stack and
signals of the operating system are outside every model.
