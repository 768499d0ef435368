# A verification project for jcdc

jcdc turns Java class files back into Java source. This directory holds TLA+
models of the parts of it in which order, sharing and repetition decide whether
the output is right: the pool of render threads, the planning and writing of the
output, the shared class pool, the emitter's thread-local registries, the
decision which file a class is printed in, the way of a method from the bytes of a
class file to blocks of statements, and the passes that rewrite its body afterwards.
TLC checks every model on small instances; TLAPS proves safety properties of the
first six for every value of the constants, and of the way from bytes to blocks for
every constant pool and the code of every method.

Paths below are relative to the repository's `crates/`. Line numbers are those of
the commit the models were written from.

## 1. The system

    inputs, -cp ──> cli main ──> ClassPool (jvm/pool.rs) <──┐ get, resolve, bytes
                      │  run_jobs: one job per class file   │
                      ├──> worker thread ── decompile_class ┤   (classdec.rs)
                      ├──> worker thread      │ per method: CFG (block.rs),
                      │    ...                │ stack simulation (builder.rs),
                      │                       │ structuring (jdc-core),
                      │                       │ passes (method.rs), printing
                      └<── text ──────────────┘
                      └──> files or stdout

One process, one command. The main thread adds the inputs and the class path to
one `ClassPool`, lists the classes of each input as jobs, and runs a batch of
threads over them. A job decompiles one class file with all the classes nested in
it, and writes one `.java` file. Jobs share the pool (behind a mutex), two atomic
counters, stdout and the file system. They are not meant to share anything else;
but each thread keeps registries in thread-local storage that outlive a job.

The statement language, the structurer and the printer (jdc-core) are a sibling
repository that is not part of this one.

### 1.1 Inventory

For each component: its state, its operations, what it interacts with, what is
hard about it, and what makes it correct.

**Command line and inputs** (`cli/src/main.rs`: `main`, `parse_args`,
`decompile_inputs`, `decompile_path`, `resolve_target`). State: the options, the
target of each input, the number of files written. Operations: parse the options,
choose a target for each input, list its classes, hand them to a batch. Inputs are
worked off one after the other in one process. Hard: several inputs may share an
output directory; a failure in the middle leaves what earlier inputs wrote.
Correct when each class reported written is there, each option has the effect the
help text states, and the command ends.

**Worker pool** (`run_jobs`). State: the counters `next` and `written`, the
handles, the index of the supervisor's loop. Operations: spawn, claim an index,
render under `catch_unwind`, report, join, replace a thread whose render panicked.
Hard: interleavings of claims, panics and replacements; refused threads; a
diagnostic that panics itself. Correct when every job is attempted exactly once, no
thread renders after a panic, the count is exact, and the call returns after the
last write.

**Output planning** (`plan_rels`, `sanitize_rel`, `fs_is_case_insensitive`).
State: the set `used` of taken keys. One pass over the jobs. Hard: renames that
meet names other classes really have, file systems that fold case. Correct when no
two classes of an input get one file, a rename happens only where needed and is
explained in the file.

**Source writing** (`emit_to_target`, `write_source`). State: the files, stdout.
Operations: create directories, create, fill, print a separator and a body. Runs in
every worker at once. Correct when a file holds one whole source and a dump has
every class once with its separator.

**Class pool: lookup and cache** (`jvm/src/pool.rs`: `get`, `read_class_bytes`,
`evict_to_cap`). State: the cache with its FIFO and the negative set behind one
mutex; one L1 map per thread. Hard: the mutex is released between the lookup, the
parse and the publication; entries are evicted while others hold them. Correct when
a lookup is a function of the sources, whatever the schedule; the cache keeps its
bound; a class given as a single file is never evicted.

**Class pool: sources and enumeration** (`add_source_with`, `index_dir`,
`index_jar`, `primary_names`, `family_names`). State: a directory index, a list of
jar indexes, the primary names and snapshots made from them. Hard: one class in
several sources; snapshots that outlive what they were made from. Correct when a
name always leads to one copy that a source holds, inputs are not masked, and
families hold the inputs' classes only.

**Member resolution and subtyping** (`resolve_method`, `resolve_field`,
`is_subtype`, `common_supertype`). Searches over the pool. Correct when they agree
with the JVM's rules; cycles in broken inputs must not loop.

**Emitter thread-local state** (`decompiler/src/classdec.rs`). State: `EMITTING`,
`EMIT_DEPTH`, `METHOD_RENAME`, `PATTERN_CTR`, `EXTERN_DECL` and other registries of
the thread. Operations: `emit_class`, `emit_method_with`, `emit_anon_body`,
nested in one another and left by `Ok` or `Err`. Hard: dynamic scoping through
recursion, early returns with `?`, values that survive a job. Correct when every
path restores them, recursion is bounded, and a job's output does not depend on
what its thread did before.

**Class nesting** (`is_nested_in_pool`, `Family::collect`, `direct_children`,
`classify_nested`). No state of its own: each job decides from the pool whether it
prints its class. Hard: two decisions taken by different jobs from different
questions must agree. Correct when every class of the input is printed in exactly
one file.

**Class file parser** (`classfile/src/`: `parser.rs`, `types.rs`, `attribute.rs`,
`constant_pool.rs`, `method.rs`, `field.rs`). State: the cursor. Operations: one parser function
for each structure, the constant pool first, attributes by their name. Hard: constants
that count for two; an attribute that is damaged must neither shift the ones behind it
nor end the file. Correct when a file is read as it was written, and one cut short is
refused.

**Instruction decoder** (`classfile/src/instruction.rs`). From the bytes of a `Code`
attribute to instructions with their places. Hard: the padding of switches, `wide`,
signed and unsigned operands. Correct when what was assembled comes back.

**Version and feature table** (`jvm/src/features.rs`, `config/versions.toml`). A
table from class file version to language level and features.

**Control-flow graph** (`decompiler/src/block.rs`). One pass over the
instructions: leaders, blocks, exception ranges. Correct when every instruction is
in one block, every edge goes to a block's start, and a block is protected as a whole
or not at all.

**Stack simulation** (`builder.rs`, and the first half of `decompile_method` in
`method.rs`). State: per block the stack of expressions, its statements, marks of what
has been duplicated, pending temporaries. Operations: one step per instruction; blocks
are built from the stacks their predecessors leave and built again when these change;
a merge becomes a conditional expression or a `stackN` variable; tests are joined to
`&&` and `||`. Hard: an expression on the stack is evaluated where it is printed, which
is later than the instruction that made it. Correct when the statements do what the
instructions do.

**Local-variable tables** (`varalloc.rs`). Slots to named, typed variables with a
scope, from the debug tables or from use. Hard: a slot is reused for values of other
types, and debug ranges start behind the store that opens them. Correct when the
accesses a value can flow between are accesses of one variable.

**Method passes** (`method.rs`, `decompile_method`). State: the body of one method,
a tree of statements, and its variable table. Operations: some thirty-five passes, each a
walk that rewrites the tree, in a fixed order with `cleanup` in between. No
concurrency; hard because each pass relies on what all the ones before it left, and
because they decide the same questions (does this complete? where does this jump go?
is this variable in scope?) again and again on changing trees. Correct when each pass
keeps what the method does, and javac accepts the outcome: jumps have targets, no
statement is unreachable, variables are in scope and do not clash.

**Class emission passes** (`classdec.rs`). Captures, static initializers,
constructor delegation, enum and pattern switches, overload witnesses.

**Structurer and printer adapters** (`ctx_shim.rs`, `jvmctx.rs`), **debug
binaries, scripts and corpus**: adapters to jdc-core and tools around the product.

### 1.2 What is hard to test here

The hazards, with the line where each bites and the properties aimed at it, are in
`PROJECT.json` (`hazards`). In short: claims, panics and replacements in any
order; a parse race on a class; eviction at the cap; a rename that meets a real
name; a directory shared by two inputs; thread-local registries read by a nested
emission they were not meant for; an error that unwinds through registries;
two jobs that must agree which of them prints a class; a constant or an instruction
that shifts all behind it; a value on the simulated stack printed after something has
changed it, or twice; a slot that means another variable by now; a pass that edits a
tree with paths computed before; a jump that loses its target to an earlier pass; a
finally that runs twice or not at all; a monitor entered or left once too often.

## 2. The modules

| Module | Models | Extends / refines |
|---|---|---|
| `Batch` | what `run_jobs` promises: each job once, then the count | abstract; implemented by `WorkerPool` and by each input of `Emission` |
| `WorkerPool` | `run_jobs`: workers and supervisor, every atomic step | refines `Batch` |
| `OutputPlan` | `plan_rels` for one input | |
| `Emission` | a command: inputs, targets, planning, writing | extends `OutputPlan` |
| `ClassPool` | `ClassPool::get` by several threads | |
| `SourceIndex` | the sources of a pool and the names they resolve | |
| `RenderState` | the emitter's thread-local registries over the jobs of a thread | |
| `Nesting` | the classes each job prints | |
| `ConstantPool` | `constant_pool.rs`: numbers in bytes, and what is found under a number | |
| `ClassFile` | `classfile`: layouts, and reading them | extends `ConstantPool` |
| `Bytecode` | `instruction.rs`: decoding the code of a method | extends `ConstantPool` |
| `ControlFlow` | `block.rs`: `Cfg::build` | extends `Bytecode` |
| `LocalTable` | `varalloc.rs`: `build_var_table` | extends `ControlFlow`, `ClassFile` |
| `Expressions` | expressions and statements as the builder makes them | extends `LocalTable` |
| `Builder` | `builder.rs`: the instructions of one block | extends `Expressions` |
| `StackMerge` | `method.rs`, first half: stacks between blocks, diamonds, joined tests | extends `Builder` |
| `FrontEnd` | one method from bytes to blocks, an action per stage | extends `StackMerge` |
| `Execution` | what bytecode does, and what the statements do | the reference for the front end |
| `FrontEndProps` | the properties of the front end | extends `Execution` |
| `FrontEndInputs`, `FrontEndPrograms`, `FrontEndFamilies` | a writer of class files, an assembler, and the inputs of the runs | |
| `Statements` | statement trees, and what Java makes of one: its runs, JLS 14.21, targets of jumps, scopes | the reference for the passes |
| `ControlPasses` | passes over jumps and reachability, and `cleanup` | extends `Statements` |
| `TryPasses` | passes over `try`: finally, rethrows, order of clauses | extends `Statements` |
| `ScopePasses` | passes over declarations and names | extends `Statements` |
| `BindingPasses` | passes that give catch clauses their variables and names; dead stores | extends `ScopePasses`, `TryPasses` |
| `MonitorPasses` | passes over monitors and synchronized statements | extends `ScopePasses` |
| `MethodPasses` | `decompile_method`, second half: one action per pass, in its order | extends the passes above |
| `MC*` | instances for TLC | |
| `*Proofs` | theorems of the module they are named after; `EmissionProofs` also those of `OutputPlan`, `FrontEndProofs` those of `ConstantPool`, `Bytecode` and `ControlFlow` | |
| `ExtremeTheorems` | least and greatest elements of bounded sets of numbers, induction and recursion up to a bound, for the proofs | |

How they fit together. `WorkerPool` is a batch in detail; `Emission` runs one
batch after the other and abstracts a batch to claim, render and write, which
`RefinesBatch` justifies: each job is attempted once and the call returns after
the last write. Both are shown to implement `Batch` (`ImplementsBatch`,
`InputIsABatch`). A job's render asks the pool, which `ClassPool` shows to be a
function of the sources; `SourceIndex` says which function. What the sources do
not decide comes from the thread, which is `RenderState`'s subject. `Nesting`
takes all jobs of an input together. The last two look into one render: `FrontEnd` at
what is done with a class file and a method before the structurer of jdc-core,
`MethodPasses` at what is done with the tree the structurer returns, before the
printer.

### 2.1 Reading the models against the code

- **WorkerPool.** Slot `s` is `handles[s-1]`. `Claim` is the `fetch_add` of `next`
  with the test of its result; `Render` is `process_job` under `catch_unwind`;
  `Report` is the match on its result with the `fetch_add` of `written`.
  `TakeHandle`, `Join`, `Replace` are the three statements of the supervisor's
  loop. `written`, `next`, `fate` are the code's two counters and a history of
  each job's outcome. The operating system may refuse any thread (`SpawnMayFail`):
  `mem::replace` then panics in the calling thread, the initial spawn prints a
  message, the replacement is dropped. `eprintln!` may panic (`StderrMayFail`).
- **OutputPlan.** A path is a stem and the suffixes it carries; the loop that
  tries `_0`, `_1`, ... is the choice of the first free candidate. `used`, `notes`
  and `plan` are the function's own. `Lower` and `Clean` are functions given as
  constants: only which paths coincide matters.
- **Emission.** `Open` is `resolve_target` and the listing of one input, `Plan` one
  turn of `plan_rels`, `Claim` the counter, `CreateFile` and `FillFile` the two
  halves of `fs::write` in `write_source`, `PrintSeparator` and `PrintBody` the two
  print statements. A command that meets an error stops with what was written.
- **ClassPool.** One action per critical section: `Begin` (L1, no lock), `Look`,
  `Read`, `Miss`, `Publish` with `evict_to_cap`. An instance carries the serial
  number of its parse, as `Arc::ptr_eq` tells instances apart.
- **SourceIndex.** `AddDir`, `AddJar`, `AddClass` are the three arms of
  `add_source_with`; `AskFamily` builds the snapshot; `Lookup` is the order in
  which `get` and `read_class_bytes` search.
- **RenderState.** The stack is the emitter's call stack, a frame per `emit_class`,
  `emit_method_with` or `emit_anon_body`, with the stage it is at. What bodies
  contain is chosen freely at each stage: a class that is inlined, a local class that is
  mentioned (`Inline`) or extracted from a lambda (`ExtractLocals`), a switch that is
  restored (`RestoreSwitches`). A method has these stages (`Method*`), and what the
  printer decompiles of its lambdas (`PrintLambda`, `LambdaSwitch`). So has the code
  outside methods: arguments of enum constants (`PrintArguments`, `ArgumentSwitch`), the
  recovered initializers of a hidden constructor together with the static initializer
  (`Clinit*`; that of an enum extracts no local classes), the printing of both
  (`ClinitPrint`, `ClinitLambdaSwitch`), and the initializers of an anonymous or local
  class (`Anon*`). `jobs` is the units the thread has begun, each once. `unwinding` is an `Err` on its way out.
  `fresh` is a ghost: the registries of a thread that did nothing before this job.
- **Nesting.** A name is its parts between `$`; a world is what is in the inputs
  and on the class path and what the InnerClasses attributes say. `Compiled` is
  what a compiler writes. `IsNested`, `RootOf`, `Family`, `Kind` are the code's
  functions, `Skip` and `PrintUnit` the outcome of a job.

- **ConstantPool.** A pool is the sequence of its constants. `Slots` is the count
  `get_entry` keeps along it; `CpLookup` is the table that is built once, a turn of its
  loop per value of a function.
- **ClassFile.** A parser function is a value, its layout, and `Read` is what
  `nom`'s combinators do with one: numbers, counted tables, records, variants told
  apart by a tag. Positions are numbers of bytes, 0 stands for an error. Of a string
  only equality counts, so a Utf8 constant keeps its bytes; an attribute is
  specialized only where the code does so, and stays raw where its bytes do not fit.
- **Bytecode.** An opcode is its byte. `DecodeAt` follows the `match` of `decode_at`,
  grouped by the shape of the operands; places in the code are 16 bits wide.
  `Decode` is one turn of the loop of `decode_all`. Loops that are reasoned about are
  functions from the number of turns to what the code has by then, not `RECURSIVE`
  operators, which the provers cannot use.
- **ControlFlow, LocalTable.** `Leaders` collects what the first loop of `Cfg::build`
  does, sorted at once by `Ascending`, `BuildCfg` the rest. `BuildVarTable` has the phases of `build_var_table` as
  functions from tables to tables, in its order: parameters, debug ranges merged,
  generic types, accesses outside every range, slots nobody names.
- **Expressions, Builder.** An expression is `[op, x, n, ty, kids]`; of types only what
  decides something is kept. `Step` is the big `match` of `builder.rs`, an operator per
  group of opcodes; what the code looks up in the class pool is in the constants
  `LibVarargs`, `LibGeneric`, `LibFieldSigs`, `LibSynthetic`. Constants are folded and
  numbers wrap where the code does it.
- **StackMerge.** `BuildBlocks` is the worklist of `decompile_method`, with the code's
  own bound on rounds. Merge variables, copies and diamonds are kept in the build, as
  the code does, because a later round may take them back.
- **FrontEnd.** `Parse`, `Open`, `Allocate`, `Cut`, `Simulate`, `ShortCircuit` are
  stages; there is one thread, so an action is a whole stage.
- **Execution** is written from the JVM's and Java's specifications, not from the code.
  `Machine` runs the instructions as they were written, `Evaluator` the blocks'
  statements; both give the list of calls with their arguments, what the fields held at
  each, and the end. After a call everything a callee can change is unknown, so that an
  expression moved across one is seen.
- **Statements.** A node is `[op, x, kids]`; `kids` are the branches, bodies, cases
  and clauses in the order of the source, so a pass that only descends is a map over
  them. `case` holds its statements directly, because the code keeps a `Vec` there
  and several passes treat it differently from a block. Expressions are a condition,
  a call or nothing; what is read, stored or captured is a statement of its own. `Runs`
  is the set of all runs of a tree, `Unroll` rounds of each loop, with every `act` free
  to throw; `Flow` replaces the names in a run by the stores they read from, so that
  renamed, added or dropped variables make no difference and a read of the wrong one
  does; a monitor is an event where it is entered and where it is left; `Ways` is JLS 14.21; `Lost` the jumps without a target, where a label in
  front of a block names the first line in it, as it is printed; `ScopeFaults` what
  javac says of scopes when variables go by their printed names.
- **ControlPasses, TryPasses, ScopePasses.** Operators have the names of their
  functions where those are unique. A walk with a mutable accumulator is a fold.
  `CutCopy` returns the set of the shortened list or of nothing. `DeclareAt`
  follows a path as `follow_slot_path` does, and yields `Panic` where that runs into
  its `unreachable!`.
- **BindingPasses.** A clause that comes without a variable has `x = ""`. The table of
  names is threaded through the walk as `vt` is in the code; `CatchVars` are the
  variables `add_catch_var` makes, in order.
- **MonitorPasses.** A lock is a variable or one of `Values`; `LockOf` says which value
  a variable of javac holds. `TakeTrailing` returns the node without the monitorenter
  and the set of its lock, empty where there is none.
- **MethodPasses.** Each action is a pass with the `cleanup` behind it; three passes
  over monitors that follow each other are one action. `outcome` is a history variable:
  what the source does, computed once. Left out, between the modelled ones: passes over
  expressions and types, try-with-resources, asserts; the bodies of the instance hold
  nothing those would change.

Definitions marked `Mutant:` are variants of the one after them with a plausible
bug; no specification uses them. They show that a property depends on the code it is
about.

## 3. Runs

| Run | Question | Bounds |
|---|---|---|
| `MCWorkerPool` | Panics and errors: is each job attempted once by a clean thread, and does the batch refine `Batch`? | 4 jobs, 2 threads |
| `MCWorkerPoolFaults` | Refused threads, failing diagnostics: what can be lost, and does the call end? | 3 jobs, 2 threads |
| `MCEmission` | Every `-o`, one input or two: paths, notes, whole files, a complete dump, an end | up to 4 classes, 2 inputs, 2 writers |
| `MCClassPool` | Are lookups pure and the cache disciplined under races and eviction? | 5 names, 2 threads, 3 lookups each, cap 2 |
| `MCSourceIndex` | Does every name lead to a copy, and which? | 3 sources, 2 names |
| `MCRenderState` | Do registries follow the calls on every path, and do emissions end? | 7 classes, an enum among them, 2 methods each, 2 jobs, depth 2 |
| `MCNesting` | Is every class printed in one file? | 6 names, all worlds a compiler makes |
| `MCFrontEnd` | Is a file read as written, and do the blocks of a method do what its bytes do? | 2,381 class files, 100 steps |
| `MCPasses` | Does every pass keep what the body does, and does javac accept the outcome? | 11,587 bodies, loops once |
| `MCRenderReproducible` | "deterministic under parallel workers": refuted | 2 jobs |
| `MCFrontEndTwice` | "evaluated exactly once": refuted where a return repeats the last assigned value | 14 methods |
| `MCPassesFinally` | "finally copies ... are redundant" once there is a `finally`: refuted, one stays | 2 bodies |

**Why the bounds are enough.** Each is chosen so that the cases the code
distinguishes occur. *Worker pool:* with four jobs and two threads a slot is
replaced twice while the other claims, exits or panics, more threads may panic than
there are slots, and the counter runs past the end. *Output plan:*
four classes of three stems give a rename whose first candidate is a real class
and whose second is a rename (`A`, `A_0`, `a`, `A`). *Emission:* two inputs share a
directory by `-o` or by having one sibling, two writers hold two files open.
*Class pool:* a cap of two with one pinned class evicts at the second publication,
an L1 of two is cleared, and three lookups a thread let a thread ask again for what
was evicted. *Sources:* three sources give each kind before and after each other
and an input before a class path entry. *Registries:* two jobs give one thread a
past; depth two makes the limit bite at the third nested method; `A` and `B`
instantiate each other. *Nesting:* the names have each kind of nested class and one
two levels deep, and `A$B` may be a member or a class with a `$` in its name.
*Front end:* the class files hold every constant and every attribute the parser knows,
exact, with a byte more, with a byte less; one file is cut at every byte. The methods
are values of each kind the builder distinguishes (looked up, computed, with a call,
with a statement made on the way) in every use of a value, in pairs on both sides of a
call, an operator and an array store; statements in pairs; tests in nested conditions
and as values that meet at a merge; switches with every shape of padding; call sites of
string concatenations and lambdas; debug tables with gaps, reuse of slots and ranges
that begin behind their store. A method is run from several worlds (`runs`), with at
most 100 steps (`Fuel`), more than any of them takes without being in a cycle.
*Passes:* bodies are enumerated in families, each aimed at what some passes decide:
loops and switches around every kind of jump and an `if` with both branches,
labelled and not, before something, nothing or a `return`; jumps to labels that are
not there; breaks behind a labelled loop; three finally bodies copied to every way
out of a `try` with one clause more; two variables of one name declared, stored and
read in, before and after every kind of scope; captured variables, resources, stack
temporaries; clauses in every order; constructors; monitors as javac compiles them, in
loops and conditions, with statements before, in and behind them; clauses whose slot is
stored again, clauses in clauses with one name; stores nobody reads. One round of a loop
(`Unroll = 1`) tells apart what the passes do to it: they never copy a body.
The bodies are those the structurer can hand over: a plain jump has its target except
at the end of a method, a `do` body can come to its condition, a labelled break
stands inside or right behind its loop, copies of a finally stand where javac puts
them. Left to the runs that refute them, or to the notes of section 4: a finally
over two variables, a loop inside a loop whose captured variable has the lower id,
early returns in the middle of a `try`, a caught exception stored again inside a
compound statement of its handler; for the front end, the shapes of section 4.2.

**Deadlock** is not checked where a system rightly stops: threads that have made
their bounded number of lookups, the last source added, the last job done.

**Fairness.** The operating system schedules every thread that started, and a
render ends (`process_job` waits for nothing); so `WF` of each worker and of the
supervisor, as one action each, since each is sequential. The pool's mutex is never
held across a wait, so `WF` of each thread's step inside `get`; beginning a lookup
is not fair. The emitter is sequential code, so `WF` of its next step; starting a
job is not fair. `Emission` has `WF` of the main thread and of each writer. No
strong fairness is assumed.

## 4. Disagreements between the code and what it says

Shown by a run (see `findings` in `PROJECT.json`):

1. Two registries are not reset where code outside methods is emitted, so a job's
   output depends on the thread's past (`decompiler/src/classdec.rs:1264`). For instance
   the enum `S` comes first and a lambda of its last method restores a switch: the
   counter is at 1 when the switch of the static initializer of `R` is named.
2. `dedupe_finally` numbers the variables of a finally through all its statements but
   those of each candidate copy from zero, so a finally over two variables is not
   recognized after the `try` and runs twice (`decompiler/src/method.rs:7250`).
3. `x = e; return e` becomes `return x = e` wherever the two expressions look alike,
   also where both are calls: the second call is lost (`decompiler/src/builder.rs:767`).

### 4.1 Around the methods

Noted while reading, without a run of their own: inputs that share an output
directory overwrite each other's files, and the count includes both (`main.rs:547`,
against "collision-free" at `main.rs:103`); a class's copy is not the first source's,
but single files come first, then directories, then jars (`pool.rs:403`, against
`pool.rs:275`); `METHOD_RENAME` is read by nested emissions of other classes
(`classdec.rs:3223`, against 2873); the bodies and separators of a
dump interleave between threads, whole lines at a time (`main.rs:810`); a
replacement thread that is refused is dropped without a message (`main.rs:491`);
after an eviction two instances of one class are alive and `Arc::ptr_eq` tells them
apart (`pool.rs:365-373`); the classes of directory and jar inputs are not pinned
(`pool.rs:677`); a read that failed once is never tried again (`pool.rs:359`);
L1 maps are keyed by the pool's address, which a later pool may reuse
(`pool.rs:326`); `PATTERN_CTR` is reset by a nested method while the outer method
still counts with it (`classdec.rs:3201`); a literal-`$` top-level class in a directory,
or given as a file, is printed nowhere, because the question whether it is nested is
asked with its suffix (`main.rs:655`); a nested class whose outer class is only on the
class path is skipped by its own job and collected by none (`classdec.rs:692`); a panic
under the pool's mutex poisons it for every later lookup (`pool.rs:421`).

### 4.2 The front end

Met while checking, and left out of the inputs of `MCFrontEnd`, which keep the
neighbouring shapes: a duplicate that went under another value (`dup_x1`) and whose
original is stored is evaluated at both places; a `new` without `dup` leaves no
statement; a return value pending across a monitorexit is evaluated after it; arguments
that are statements of their own may change places with reads before them; a statement
made in the inner of two nested conditional expressions vanishes when the outer is
folded (`try_diamond_fold`); the walk over the locals of an expression leaves out `new`,
array creations and the arguments of concatenations; the copy into a merge variable
delays a call that is still pending; an array initializer that is filled in part loses
the elements stored so far; a `makeConcat` site without bootstrap arguments panics
(`builder.rs:1943`); a dynamic constant becomes `null`; `fcmpl` and `fcmpg` become one
comparison; an int slot reused for an object without evidence in the accesses stays int
(against `varalloc.rs:567-575`).

### 4.3 The passes

In `method.rs`: `hoist_escaped_vars` inserts declarations into bodies through which the
paths of later ones lead, so with captured variables in nested loops a path may no longer
fit and the decompiler panics (6493); a caught exception that its handler stores again
inside an `if` or a loop keeps being read from the slot behind it, not from the variable
of the clause (3564); `resolve_catch_vars` takes the first store of a handler for that of
the exception whatever it stores (3416); a dead store goes with the call in its value
where the call is part of a larger expression (1366); the lock of `m = o;
synchronized (m)` goes unread when the statement locks `m` itself (3838); a branch that is
nothing but a monitorenter is left as one of `this` (10017); the arm of
`strip_monitors_in_sync` for an empty `try` comes after the exits it looks for are gone
(9680); the second arm of `hoist_ctor_call_guards` never
applies, for it reads a branch that has just been emptied (2889);
`strip_trailing_copies` looks at last statements only, so a copy of the finally before
an early return in the middle of a `try` stays (7547); where a copy with a return
also holds the start of what follows the `try`, that start goes with it (7572);
the comparison of `dedupe_finally` erases which variable is meant, so a statement
after the `try` that equals the finally up to renaming goes (7348); `order_try_catches`
stops at the first clause it need not pass, so three clauses may stay out of order
(6959); `prune_finally_rethrows` collects variables it never looks at (10553);
`split_twr_redecls` gives a resource a fresh identity that its uses do not follow
(11095); the search for the loop of a captured variable ignores conditions (6306);
`prune_dead_breaks` takes the break at the end of a `do` body for dead (3033);
`legalize_monitors` skips monitors nested in others or in cases (1495).

## 5. Theorems

`WorkerPoolProofs`, `ClassPoolProofs`, `SourceIndexProofs`, `EmissionProofs`,
`RenderStateProofs`, `NestingProofs` and `FrontEndProofs` (and `ExtremeTheorems`, facts
about numbers they share). The assumptions are those the modules state of their constants:
any number of jobs and threads, any cap, any finite set of names, any libraries, any stems
with an idempotent `Clean`, any commands, any positive number of writers (`main.rs:436`
takes at least one), any finite tree of classes, any declarations. Those of the front end
are hypotheses of its theorems.

- **WorkerPool.** The inductive invariant `PoolInv` is needed because the properties
  do not mention the counter: it says that the counter splits the jobs into those
  claimed and those pending (`CounterSplits`), that a claimed job is in the hands of
  one thread (`OneThreadPerJob`, `BusyHasJob`, `RenderingIsClaimed`), that a dirty
  thread is on its way out (`DirtyIsEnding`), that a clean exit means a drained queue
  (`CleanMeansDrained`), and that the slots before the supervisor's are done
  (`SlotsJoined`). From it: `TypeOK`, `NoContaminatedRender`, `AttemptedOnce`,
  `NothingRunsAfterReturn`, `LostOnlyIfNoThreadSurvived`. With no faults (a second
  invariant, that a drained queue stays behind every slot that was left) also
  `ReturnIsComplete`; with an argument on cardinalities `WrittenIsExact`; and that
  every step is a step of `Batch` or leaves it alone (`ImplementsBatch`).

  Of the liveness property `CallEnds` two theorems prove what needs no fairness. Every
  step uses up at least one of `7 * NJobs + 5 * Workers + 7` (`CallWindsDown`): seven for a job
  that is not claimed, two for a thread that was not yet asked for, three for each slot that
  was not joined, and for each thread the steps to its end if it claims nothing more. A claim
  pays for the way through the job, and a thread that panics leaves enough for its replacement;
  so it is the jobs that bound the replacements. And until the call is over there is a step
  to take (`NobodyWaitsForNobody`): a join waits for a slot whose thread was started
  (`SpawnedHaveThreads`) and can go on.
- **ClassPool.** `PoolInv` joins `CacheDiscipline` and `PinnedStay`, which are
  inductive together, to what a thread in flight holds (`InFlight`) and to the honesty
  of every map: an entry is an instance of its key, and its key can be loaded
  (`MapsAreHonest`). `LookupIsPure` needs in addition that reads do not fail. Of
  `LookupsEnd` it is proved that a lookup takes at most three sections of its own thread and
  that no other thread's step adds to them (`LookupsAreWaitFree`).
- **SourceIndex.** `SourceInv` says what each index holds (`DirsIndexed`: one copy of
  every name of a directory, that of the first directory; `JarsIndexed`, `FilesCached`),
  that inputs come first (`InputsFirst`), that the primary names are exactly those of the
  inputs (`PrimaryOfInputs`) and that a snapshot is of them (`SnapshotFresh`). The
  properties speak of what a lookup finds, which is a choice among four maps, so none of
  them is inductive alone. From it: `NamesResolve`, `InputDirNotMasked`,
  `FamilyIsPrimary`.
- **OutputPlan.** The set `used` is exactly the keys of the plan (`UsedIsTaken`); then
  the three properties are inductive. That a candidate is new rests on its tail being
  longer than the path's.
- **Emission.** The plan's invariant is kept by every action of the command
  (`ListingIsOpen`: the plan is only made in the phase it belongs to), and jobs in
  hand are distinct and below the counter (`JobsClaimed`). `NoSharedFile` follows from
  that and `PathsDistinct`.
- **Delivery.** `DeliveryInv` adds to it what has been delivered: a reported class is
  behind the counter and in nobody's hands (`Reported`), a file holds a reported class
  whose place it is (`FilesHold`), each class is printed as far as its worker is
  (`Printed`, `Separated`). The case that matters is a file that is opened over another:
  places of one input are distinct, so what it held is of an earlier input with the same
  directory (`OverwrittenIsShared`). From it: `KeptUnlessShared` and `PrintedOnce`, with
  failing writes at any point.
- **The end of a command.** The loop of `plan_rels` that looks for a free suffix has no
  bound. `SuffixIsFound`: it needs at most as many tries as there are classes before,
  for the keys of `n + 1` candidates are different and only `n` keys are used (a case
  folding may identify paths, never two suffixes of one). With it `CommandWindsDown`,
  every step uses up one of `4 * MaxJobs + 2` for each input, and `NobodyWaitsForNobody`,
  until the command is over the main thread or a worker has a step. `InputIsABatch` closes
  the gap between the two levels: as long as an input is worked on, what the command does is
  `Batch`, started at its listing with the number of its classes; so `WorkerPool` and each
  input of `Emission` implement the same abstract specification.
- **RenderState.** `StackInv`: `EMITTING` is the set of the classes of the calls in
  progress, which are distinct, `EMIT_DEPTH` is the number of method calls, and an
  installed rename has an owner, a class in the middle of its methods (`Owned`). Five
  lemmas say what a step does to it (a frame goes on, a class or a method is called or
  left), and every action is one or two of them. From it: `RegistriesFollowCalls`,
  `NoReentry` and the types, on every path an `Err` takes.

  `NestingIsBounded`: at most `MaxDepth` methods and one body of each class are on the
  native stack. That bounds recursion but not work, since a class may be printed again for
  each method around it. `EmissionWindsDown` compares what each call on the stack has
  left, from the outermost inwards: every step, also one that passes an `Err` on, is less
  in this lexicographic order, which is well-founded on sequences of that height.
  `DivergenceConfined` says how much is wrong with the finding of `MCRenderReproducible`
  and no more: the first job of a thread is printed as on a fresh thread; a later one knows
  at least as many local classes and counts patterns at least as high (`OneSided`), so it may
  leave a declaration out and never repeats one; inside methods it counts as a fresh one
  does (`MethodsCountAfresh`). So a pattern gets another number only outside all methods
  (`PatternsDivergeOutsideMethods`), which is where the arguments of enum constants,
  static initializers and field initializers are worked on and printed, and, once the
  counter is the fresh thread's, which the first method of the unit makes it, it stays so
  to the end of the unit (`AgreementLasts`). The invariant is `AfreshInv`, which adds what the methods in progress will put back
  (`SavedAfresh`).

- **Nesting.** Each job decides for itself, so what the files hold says nothing of the
  next decision; `NestingInv` ties them to the jobs: file `r` holds `m` exactly when the
  job of `r` is done, was not skipped, and its unit holds `m`. It is inductive at once;
  the work is in what units are. A class that is nested in none has no evidence and is
  its own root (`NotNestedIsRoot`), one that is nested is skipped (`SkippedIfNested`), so
  the files are those of the former. Two of their units have nothing in common, for
  both names are prefixes of a class in both, and between them the longer one would be nested
  (`UnitsDisjoint`): `PrintedOnce`. From every class the classes around it lead, a part of
  the name less each, to one that is nested in none (`WayOut`, which is where a least
  number of steps is needed), and its unit holds all of them (`NestedIsPrinted`,
  `InSomeUnit`): `NoneLost`.
- **Front end.** Four theorems about functions, for all inputs. `LookupsAgree`: of any
  pool, the count along it and the table lead to the same constant under every number;
  the invariant of the loop is that the table has each constant so far at its count, and
  nothing else (`TableHolds`). `DecodingTiles`: the code of any method (`IsCode`: bytes,
  at most 65535 of them, as the format has it) is decoded without a gap or an overlap to
  its end, each instruction as `DecodeAt` says, and only the last may be `Invalid`; every
  decoded instruction takes bytes (`DecodedPlaced`), so as many turns as there are bytes
  are enough. `WrittenIsRead` is the converse, from the side of an assembler: if the
  code is some instructions, one behind the other (`Assembled`), each in its format
  (`Written`: fixed operands, behind a wide prefix, or a padded switch, numbers in two's
  complement), then decoding yields these instructions, every operand, key and target with its
  sign. The formats are stated as digits written, `Low` and `High`, independent of how the
  decoder adds them up; the rest is arithmetic on two and four digits (`WordRead`,
  `IntRead`), a lemma for each format (`PlainRead`, `WideRead`, `SwitchRead`) and
  the tiling of `DecodingTiles`. The methods of `MCFrontEnd` are `Assembled`; there it is
  the property `DecodedAsAssembled`. `BlocksFollow`: where instructions, jumps and exception table are what the
  JVM's verifier accepts (`Verified`: nothing undecodable, jumps and ranges at
  instructions, no way behind the last), the blocks cut the instructions into stretches,
  only the last of a stretch jumps, the edges are the ways control goes from there, each
  once and the next instruction first, predecessors are their inverse, a range protects
  all of a block or nothing, and a handler starts one. That a stretch is never
  interrupted rests on `Leaders` holding every place a jump, a range or a handler names;
  that it is never empty on the same places being instructions (`Cutting`,
  `InsideStarts`). Every method of `MCFrontEnd` whose blocks are built is `Verified`.
  `MCFrontEnd` checks these stages from the other side, against what was assembled
  (`BlocksFollowCode`, `DecodedAsAssembled`, `ReadAsWritten`).

The provers cannot do induction over an operator given as a parameter, so the two facts
on which all loops rest are stated with sets and functions: a set of numbers that holds 0
and each successor up to `n` holds all (`InductionUpTo`), and a function defined by its
value at 0 and a step has these values up to `n` (`RecursionUpTo`).

**Only model-checked.** Liveness (`CallEnds`, `CommandEnds`, `LookupsEnd`, `JobsEnd`
and the fairness part of `RefinesBatch`): it needs fairness and `ENABLED`, which the
provers do not handle. Proved are its two safety halves, that steps run out and that
somebody has one (`CallWindsDown`, `CommandWindsDown`, `EmissionWindsDown`,
`LookupsAreWaitFree` and `NobodyWaitsForNobody`); what stays with TLC is that a step there
is gets taken. The rest of the front end, that is parsing bytes, local variables
and the stack simulation, with the five properties of `MCFrontEnd`, and all of
`MethodPasses`: they are recursive operators over layouts, expressions and trees, compared
with an interpreter that is one too, and would need induction over these.

## 6. Plan

Done, in this order:

1. The concurrent core and the output: `WorkerPool`, `OutputPlan`, `Emission`,
   `ClassPool`, `SourceIndex`, `RenderState`, `Nesting`, with the proofs of section 5: every
   safety property that holds of these modules is proved.
2. Statements and the passes of `method.rs` over jumps, tries, declarations, catch
   variables, dead stores and monitors: `Statements` to `MethodPasses`.
3. The front end: class files, instructions, blocks, local variables, the stack and its
   merges, against an interpreter of the bytecode: `ConstantPool` to `FrontEnd`, with proofs
   about constants, instructions and blocks.

Next:

4. In the frame of `MethodPasses`: try-with-resources (`twr_j11` 7675, `twr_j7` 8998),
   asserts (`restore_asserts` 9866), `legalize_discarded_values` (1591), the splitting of
   synthetic variables (`split_reassigned_synthetic` 11368), `fold_this_stack_vars` (4316).
5. Member resolution (`pool.rs:563-662`) against the JVM's rules, cyclic hierarchies
   included.
6. Class emission passes: static initializers, captures, constructor delegation.
7. Further proofs: `Gaps` and `Groups` of `LocalTable` (each access has one variable) and
   the paths of `ScopePasses`, once what they use of parsing and of trees is split off from
   the recursive operators in the same modules.

## 7. Not modelled

jdc-core (structurer, statement types, printer) is not in this repository; it appears
as the choice of what a body contains. Formatting, names and diagnostics are left out
where no property is about them. The debug binaries, the scripts and the corpus are
not part of the product. The version table is a table. The passes over expressions and
types (casts, generics, booleans) need the type checker of javac as their reference, and
the passes of `classdec.rs` the class path of a JDK; of the latter only the thread-local
state and the decision about files are modelled. Points 4 to 6 of the plan are not
modelled yet.
