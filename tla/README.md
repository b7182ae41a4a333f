# Formal models of the Nitrate compiler

This directory holds TLA+ models of the Nitrate compiler in `src/`, the TLC
configurations that check them on small instances, and proofs, checked by TLAPS,
of what holds for every instance. The source is the reference: each definition is
translated from the lines that `PROJECT.json` names for it under `map`.

## The system

The compiler (`src/src/translation/src`) is a sequence of passes. Each one takes
what the one before produced; the only things they share are a thread-local
*store* of interned nodes, the *log* of diagnostics, whose error bit stops the
pipeline (`pipeline.rs`), and the process-wide tables of strings and file names,
which the threads of the language server use at the same time.

| part | state it keeps | operations | what makes it correct |
|---|---|---|---|
| pipeline (`pipeline.rs`) | the stage, the log's error bit | load, lex, parse, lower, validate, mangle, lower_mir, codegen, emit, link | no code from a package with an error; a check and a build agree |
| lexer (`token_lexer`) | position, line and column, the token read ahead | next, peek, skip, rewind | positions are those of the bytes; lookahead cannot be seen |
| parser (`tree_parse`) | the lexer, the log | one operation per production, with recovery | ends on every input, loses nothing without a report |
| syntax tree (`tree`) | none | print, walk | the printed form has the same tree; a walk misses no child |
| resolver (`tree_resolve`) | scopes, symbol table, imports being expanded | declare, look up, import | every path is bound or reported; circles of imports are found; private items stay private |
| HIR construction (`hir_from_tree`) | symbol table, the current scope | declare items, then convert them | every use refers to a declared item |
| stores (`hir`, `mir`) | interning tables behind a thread-local pointer | using_storage, intern, dereference | a handle is read only while its store is current |
| type solver (`hir_solve`) | constraints, worklist, substitutions, copies of generics | add constraint, visit, infer, monomorphise | ends; the result does not depend on hash order; refinements hold |
| validation (`hir_validate`) | none | one traversal | only well-typed modules pass |
| mangling (`hir_mangle`) | the back references | encode, decode | different names stay different |
| evaluator (`hir_evaluate`) | environment, step and recursion counters | evaluate | ends within its limits, no silent overflow |
| lowering to MIR (`mir_from_hir`, `mir/src/builder.rs`) | current block, blocks, locals, loop stack | lower an expression, reserve and switch blocks, set a terminator | each block ends once; edges bind the arguments of their targets |
| borrow checker (`mir_borrow_check`) | entry states, worklist, liveness | walk a block, merge an edge | a fixed point is reached; an accepted function has no memory fault |
| code generation (`llvm_from_mir`) | LLVM blocks, allocas, phi lists | one operation per statement and terminator | the code does what the MIR means |
| interners (`diagnosis/src/file_id.rs`, `nstring`) | a locked map, a counter, a flag | get or create an id, dereference it | one id per string; an id resolves for ever |
| driver (`driver`) | manifest, language server documents | the commands | nothing is run, installed or published that was not compiled |

`PROJECT.json` lists every part, those not modelled with the reason.

The behaviours that are hard here are not those of a distributed system: but for
the interners each compilation is one thread, and nothing is persisted. They are
fixed points that must be reached and must not depend on the order of a worklist
or of a hash set, facts that must survive merges of control flow, nodes that are
rewritten while they are keys of a table, lookahead that must not show, error
recovery that must make progress, recursion over files that import each other,
error paths that leave a pass half done, and long sequences of legal builder
calls. `PROJECT.json` lists them under `hazards`, each at its line.

## The modules

Names in the modules are those of the source wherever TLA+ allows it, and the
comment before a definition gives the lines it models when they are not evident
from the name. `map` in `PROJECT.json` has them all.

### The front end

* `LexRules`: the scanning functions of `token_lexer/src/lex.rs` over the bytes of
  a source, one operator each, from a position to a token and the position after it.
  Bytes are classes: a letter that means something in a number or an escape is
  itself, the others are represented by one. Lines and columns are capped, as in the code.
* `TokenStream`: what a parser may rely on, a stream of tokens with a place in it.
  `Lexer`: the lexer as it is, with one token of lookahead (`preread`), a position
  behind it and one before it, trivia on or off, and a position saved for `rewind`.
* `Parser`: `tree_parse`. Each parsing function is a rule, data for a small
  machine that takes tokens, tries alternatives, repeats until an end token,
  reports, recovers and builds a node; the rules name the production they stand
  for. A loop that went round without consuming anything is recorded as `stuck`,
  a failed assertion as `panic`.
* `Printer`: the layout of every kind of node in `pretty_print.rs`, as tokens.
* `Resolver`: which children the visitors of `tree/src/*_iter.rs` go into, the
  discovery of symbols under their qualified names on that walk, and the lookup
  of each path from the innermost scope outwards, through generics and
  implementations.
* `FrontEnd`: sources grow by one piece at a time; each is parsed, and an accepted
  one is printed, parsed again, walked and resolved. `WellFormed` there says which
  kinds of node may stand at each place of a tree, from the types of `tree/src`.
* `Imports`: `resolve_import.rs`. The recursion over files is a stack of frames;
  an action is what the code does with one import (follow it, refuse it for the
  depth, the circle, or a file that is not there, or go back with what it found).

### The type solver

* `TypeRules`: types with the substitution of generic arguments, and the
  arithmetic of ranges in `bounds.rs`, with its checks. The bit
  widths are a parameter.
* `Solver`: one function or global from `resolve_function` or `resolve_global` to
  the end. The store is part of the state, because the solver rewrites values while it
  remembers constraints under them: an entry of the table carries the content its key
  had when last hashed (`store.rs` hashes by content), is found only while that is
  still the content, and is hashed anew when the table grows, at 3, 7, 14 and 28
  entries. A round visits the queue in any order, one visit per step: the code's
  queue is a hash set with a random seed. A block borrowed mutably while hashed is
  a panic.

### The pipeline

* `Pipeline`: one action per stage of `compile_package`, the early returns and the
  closures of the two stores they leave, the error bit, and what each command does
  with the result. What each stage would do is chosen at the start.

### The MIR and its places

* `MirPlace`: a place is a root and a sequence of projections (field, index,
  deref, downcast). Its type, mutability, and the relations of
  `mir_borrow_check/src/place.rs`: `is_prefix`, `overlaps`, `init_chain`,
  `is_escapable`. Types are kept as far as projections need them.
* `MirFunction`: operands, rvalues, statements, terminators and blocks with
  arguments, the successor edges, and `WellFormed`, what the MIR demands of
  a function (edges bind the arguments of their target, and nothing is passed to the
  entry).
* `MirSamples`: control-flow skeletons (straight line, diamond, loop, call, join
  with a block argument) and the statements that fill them.
* `PlaceRelations`: what the relations between places mean for the memory they
  name, stated without the code's recursion.

### The borrow checker

* `LivenessOps`: uses and definitions of each instruction, the transfer
  function, and the result of the pass as a value. `MirLiveness`: the loop of
  `compute_liveness`, one block per step.
* `BorrowRules`: what each statement and terminator does to the dataflow state
  (borrows, moved and uninitialised places) and which errors it reports.
* `BorrowCheck`: `BorrowChecker::run`. `PopWorklist`, one step per statement, one
  per terminator, one per edge merged, `EndBlock` and `Finish`. Its variables are
  the fields and locals of the code (`entry_states`, `worklist`, `in_worklist`,
  the state walked), `at` is the program counter, and `processed` a history.
* `Dataflow`: the abstract may analysis, with the worklist a set and the blocks
  taken in any order. `DataflowPaths`: the same with an execution that follows
  one path of the graph. `BorrowFlow`: the refinement mapping by which
  `BorrowCheck` implements `Dataflow`; a block generates the facts that leave it
  from an empty entry and kills those that do not survive it.
* `MirExec`: what a function does when it runs, taken from code generation. Every
  local is memory, a borrow is an address, and each reference remembers which
  borrow it came from and whether an access that excludes it has happened since.
  A fault is a use the checker promises cannot happen. `MCBorrowSound`:
  the check, then a run of what it accepted.

### Lowering

* `HirValues`: the values and block elements of the HIR that lowering treats
  differently. Operations that evaluate their operands and combine them are one
  kind.
* `Lowering`: the calls of `mir/src/builder.rs` as operators on a record, where a
  call without a current block sets `panicked` and `ended` is a history of the blocks
  that were terminated; and `mir_from_hir`, which makes these calls. The recursion of `lower_value` is unfolded into
  `todo`, what is still to be lowered, and `operands`, the results that wait for
  a use, so that a step is what the code does between two recursive calls. The
  loop stack, the map of locals and the builder are the state of the code. The
  elements of a block are one task from which the first element is taken at each
  step, since only the last is in tail position. Types are left out but for whether
  a block has a value. `Values` are the values the bodies are made of: a set that
  holds the parts of its members (`BodiesMadeOfValues`), so that what holds for all
  bodies can be said without recursion over them.
* `HirEval`: the evaluator of `hir_evaluate` on the same bodies: its errors
  unwind to the construct that catches them. `MCLowering` has the run of a lowered
  function beside the bodies. Both read the results of calls from a tape and write a trace of the
  calls.

### The interners

* `InternTable`: what an interner promises, a table of entries that never change
  with each call one atomic step.
* `Interner`: `get_or_create` of `file_id.rs`, and of `nstring.rs`, the same
  code at 32 instead of 16 bits, cut at the lock operations and the accesses to
  the counter and the flag. A panic with the write lock poisons it and stops
  everything. The dereference of an id is a lookup of the map under the read lock:
  `HandlesResolve` says that it finds the string. `intern_nstring` turns a refusal
  into a panic after the lock has been released, which changes nothing here.

The `MC*` modules hold the instances for TLC, the `*_proofs` modules the theorems.
A definition whose name starts with `Mutant` or `mutant_` is a variant of the
definition after it with a plausible mistake in it; `mutants` in `PROJECT.json`
names the property that tells it from the original. Nothing else uses them.

## What the runs check

| run | module | instance | what it shows |
|---|---|---|---|
| lexer | `MCLexer` | strings of up to four pieces for each part of the lexical grammar, every sequence of calls on the lexer | positions are those of the bytes read, a token's text alone is that token, and lookahead and rewinding implement `TokenStream` |
| frontend | `MCFrontEnd` | sixteen templates, one for each part of the grammar, filled with every sequence of up to five of its pieces | parsing ends; an accepted tree is complete, has lost no word and is ranked as documented; it prints as a source with the same tree; each path in it is bound or reported |
| imports | `MCImports` | worlds of five files in two packages, at most two imports a file, inner modules, unreadable files | what an import becomes does not depend on the imports before it, nothing private comes with it, and a circle is reported |
| solver | `MCSolver` | operators on refined ranges, a variable with every pair of sixteen statements, a few globals, in every order of visits | refinements of accepted functions hold, the result does not depend on the order, known types stay, the rounds end |
| solver_panic | `MCSolver` | one function | the violation described below |
| pipeline | `Pipeline` | every command, exit and combination of what eight stages do | no code from a bad package, a check agrees with a build, handles are in scope |
| lowering | `MCLowering` | about three hundred bodies of ifs, loops, jumps, blocks, calls and places | the builder is used as it demands, edges bind arguments, loops nest, and the code does what the evaluator computes, on all tapes of up to five results |
| facts | `MCBorrowFacts` | diamonds, loops, nested loops against block order, calls, block arguments; places of up to four projections over locals of every shape | liveness ends with exactly the locals used before defined on some path; the relations between places are those of their memory |
| checker | `MCBorrowCheck` | diamonds, loops, calls in loops, block arguments and storage ends, up to six locals | the worklist is consistent, every block is walked, a fixed point is reached, the verdict is that of the fixed point, no fact is lost on the way, and `Dataflow` is implemented |
| dataflow | `MCDataflow` | seven shapes of three blocks, every gen, kill and bind | the analysis covers every path whatever the order |
| soundness | `MCBorrowSound` | every function of five families with up to five chosen statements | an accepted function runs without a fault |
| interner | `Interner` | three threads, two calls each, three names, two ids | one id per name, every id resolves, no wrap, every call returns, and `InternTable` is implemented |

Every family is a set of initial states (or, in `frontend`, of behaviours that add
a piece at a time), so that one run checks all of its members. Deadlock is checked
but where the system may really stop: the pieces of a template run out, the imports
are done, the lexer is only asked before trivia is turned off. Elsewhere a
computation that ends stutters in `Terminated` or `Stopped`.

### Bounds

* `MaxBorrows` limits the number of borrows created in one check (a `usize` in
  the code): a borrow past it has no step. Deadlock is checked, so a passing run
  never reaches the bound.
* The projections of a place are limited to four: they allow a field of what a
  reference in a field refers to, and one more.
* Functions have at most four blocks and five statements chosen freely. A loop is
  walked until the fixed point, whose chain of merges is longer than the blocks
  are many. Two references and one variable reach every pair of overlapping
  borrows; a third adds one that overlaps with both in the same ways.
* `LoopLimit` is the evaluator's `loop_limit`; bodies that meet it are not
  compared, the MIR has no such limit. `MaxTape` is the number of call results;
  when they are used up the call aborts, in both, so every run ends.
* Three threads, three names and two ids fill the table while other threads wait
  at each of the checks, and one thread comes after it is full. `MaxCalls`
  limits the calls of a thread; two let a thread ask for a name it was refused.
* `MaxLine` and `MaxColumn` are the caps of a position (16 and 8 bits in the code),
  2 and 3 here, so that short sources reach them; `MaxInteger` stands for 128 bits.
* A template of the parser takes three to five pieces, enough for a construct inside
  itself with an operator or a separator after it and for an error at each of its
  words. Larger nestings repeat the same rules.
* `MaxDepth` is `MAX_IMPORT_DEPTH` (256), 5 here, so that chains of files both
  reach it and stay below it. Two packages and three files of one of them have an
  import of every form: a sibling, a directory, a parent, the root, another package,
  an item of each.
* `Width` scales the integer types down to 3 to 7 bits in their order: each check of
  `bounds.rs` compares with limits of these types, and all values can be
  enumerated. Two statements and a variable fill the constraint table past 3, 7 and 14
  entries, so that it grows in the middle of a round.

### Fairness

The passes are sequential: weak fairness of their one step says that the program
goes on running. For the interner it is assumed that each thread goes on running
(`WF` of its own call); not that the lock is fair. A thread waiting for the
lock may be overtaken, but only by finitely many calls, which the bound makes
explicit. No call is forced to be made. `Terminates` of the solver needs no
fairness: it says that no run takes steps for ever.

## Where the code disagrees with what is written of it

The run *solver_panic* is the finding of `PROJECT.json`: `visit_block` of
`solve.rs` keeps a block borrowed mutably while it visits the block's elements, and a
constraint that makes the table grow hashes every key, the `if` around the block
among them, which borrows it again.

The following was met while modelling; the families of the passing runs leave it
out, since the properties fail on it.

* *Borrow checker.* An assignment to `*p` is no use of `p` for liveness
  (`liveness.rs:181`), so a borrow last used by a write through it is dropped before
  the write. A successor is pushed only when the merge changes its entry
  (`check.rs:218`), so a block whose predecessors hand on an empty state is never
  walked. Each walk numbers its borrows anew and the merge compares numbers
  (`check.rs:693`), so a borrow taken in a loop that uses the one before is merged
  as a new one at each walk, without end; a block argument moved out of in the loop
  it heads is likewise added and removed without end. Where two states meet, `merge_state` keeps the
  record of a borrow and adds holders to it (`check.rs:324-334`), so a two-phase borrow
  that a call activated, "exclusivity enforced" (`check.rs:124`), is a reservation again
  at the head of a loop: in `p = &mut x; while c { t = x; f(p) }` the reads of `x` after
  the first call are accepted. The run *checker* has such loops, and `BorrowsSolve`
  says nothing of `activated`; the families of *soundness* make no borrow before a call
  in a loop. `StorageDead` of a borrowed
  local drops the borrow without an error, `p = copy p` ends the borrow held by `p`, and
  `**g` with `g` uninitialised is accepted. `LiveIsUsedAhead` states what the code
  computes for an instruction that uses the local it defines, which is not the
  formula in the comment at `liveness.rs:146`. Two index places with different index
  locals never overlap (`place.rs:87-93`), and a borrow behind a reference is
  followed only up to the nearest `Deref` (`place.rs:49-58`).
* *Lowering.* The false edge of an `if` without `else` passes nothing to a merge
  block that has an argument (`mir_from_hir/src/expr.rs:488`). Both operands of `&&`
  and `||` are evaluated (`expr.rs:76`; `docs/MIR.md:314` says otherwise). A loop
  whose body always jumps has no current block for its back edge; a call last in a branch
  does not come back; an else-if loses its value; an operand that is a local is read
  after a later operand changed it. Code after a `return`, a jump or such a call in the
  same block, other than literals and names, makes the builder panic
  (`mir/src/builder.rs:292`, `325`): `IfsJoin` and `NothingAfter` below are the bodies
  without the first and the last of these.
* *Lexer.* A lexical error becomes the end of the file and the rest of the source is
  dropped without a word (against `LEXER.md:284`). An octal escape above 255 loses its
  upper bits, and `0b12` is two integers. The parser looks at the first token before it
  turns trivia off (`parse.rs:64-75`), so a source that begins with trivia starts with
  a token of it; the sources of the run do not.
* *Parser.* `!=` is stored as `&&=` (`tree_parse/src/expr.rs:56`); the first segment of a
  path before `::` in arguments is taken for the name of an argument; a lone `:` after
  a path is swallowed; `use super::a::b` is refused; `if x { y }` reads as an initialiser
  of `x`; `1 .. -a` is `(1..) - a`; the second function of an `extern` block is dropped
  (`item.rs:1067`), and an empty one leaves an unreported hole; `type T = : ;` panics. Constraints
  of generics, the mutability of a parameter of a function type and a trait that is not a path are
  read and dropped. Tokens carry no adjacency, so `= =` is `==`. `Printable` in
  `FrontEnd` lists what the printer writes differently.
* *Resolver and imports.* A path from the root that fails is not reported; a second
  declaration of a name replaces the first, where the docs promise `NameConflict`; the
  generics of an implementation are found only under the names of the struct's.
  Protected items are seen outside of their package (`resolve_import.rs:436`,
  `docs/RESOLVER.md:114`). A prefixed path that names no file is not reported
  (`RESOLVER.md:127`). `visited` holds first segments, so `use crate::…` in a file reached
  by `use crate::…` is called a circle. Private items are taken from an imported file
  before its paths are resolved, so paths of its public functions to them fail. Groups
  and wildcards are ignored (`RESOLVER.md:135`). The pipeline gives the resolver neither
  search paths nor a package root (`pipeline.rs:212`).
* *Type solver.* A literal compared with a variable of inferred type gets a type that
  depends on the order of the queue (left out of `OrderIndependent`). A recursive
  function panics (`lower.rs:26`, `solve.rs:964`). Intersected bounds of a divisor
  may be empty and still count as positive, which divides by zero (`bounds.rs:213`).
  The bounds of `and` and `xor` on negative numbers, of rotations and of nested
  operations do not cover their results (`TYPE_SYSTEM.md:19`); refinements wholly
  below zero have no bounds. Operands of a comparison get the `bool` of their
  context as a constraint. Two generic parameters share index 0
  (`hir_from_tree/src/context.rs:61-71`). Call arguments that cannot be inferred are
  not reported. The bodies of copies are never solved.
* *Pipeline.* `install` removes its working directory only on success; the pointer to a
  store is not put back when the closure panics (`hir/src/store.rs:17`).

Two facts about today's front end limit what of the borrow checker a source program
reaches: `mir_from_hir` emits only `Copy` operands, and `StorageLive` but no
`StorageDead`. The borrow checker is modelled as it is, for the MIR it accepts.

## What is proved

TLAPS proves the following for every value of the constants that satisfies the
named assumptions.

**Dataflow** (`Dataflow_proofs`; assumes that `Graphs` is a set of graphs and
`None` no block). `TypeCorrect`: the types, and no block knows a fact about its own
arguments. `SolvedAtFixedPoint` rests on `FlowInv`: at any moment a walked block is
pending, or is current and the successors still in `todo` are the only ones that may
lack its facts, or its facts have arrived everywhere. "Solved when the worklist is
empty" is not inductive, since facts that arrive at a walked block undo it until
it is walked again; `FlowInv` is. `EveryBlockReached` rests on `ReachInv`, which carries
a lasting fact along the edges: with such a fact every merge into a new block changes
it. Without one the theorem is false, and so it is of the code (`check.rs:218`, above).
`NothingMissed` rests on `PathInv`: the facts true on the path are known at
the entry of its last block, by monotonicity of the transfer function (`Monotone`).

**BorrowCheck** (`BorrowCheck_proofs`; for every set of well-formed functions).
`WorklistIsConsistent`: the flags tell what the worklist holds and no block is in
it twice. `FactsNeverForgotten`: no step removes a fact from an entry
state, except about the arguments bound there. Its core is `MergeKeepsFacts`.

`BorrowsAreSolved` and `VerdictIsOfFixedPoint` are about the end of the check: its
entry states are a fixed point of the borrows, and the errors it reported on the way
decide as those of the fixed point. The difficulty is that the checker walks a block
several times, from states that grow, and that each walk numbers its borrows anew. Two
walks are therefore compared up to numbers. `Covers` says that one state knows whatever
the other does: its places, and for each borrow a `Match`, of the same kind and place, with
at least its holders, and whose number differs only by where the walks began. Of such
states every operation of the checker makes such states, and reports an error in the
larger where it does in the smaller (`StatementSteps`, `TerminatorSteps`, `WalkSteps`).
This is not so of states that differ in which two-phase borrows are activated: with
a second borrow the activation fails for a reservation that is one still, and is not
tried for one that is activated. No two walks of a block differ so before its
terminator, since an entry keeps the record of a borrow it has; `Match` demands it until then
(`"before"`), and gives it up where borrows are activated (`BlockSteps`). Numbers stay
those of one borrow each (`Numbered`), which the merge relies on.

The invariant `FixInv` then says of a block that was walked and does not wait to be walked
again that its walk was *told*: if a walk of it from its entry state can find an error,
an error is reported, and the borrows that such a walk leaves are covered by the
entries behind the edges merged so far. A block that waits is exempt, since its entry
changed. Conversely an error that is reported is one of a block that rejects its entry
however its borrows are numbered, and so rejects every larger one. When nothing waits,
the two say that the verdict is final.

**Loops and recursion** (`FoldFacts`; any operation). The code walks sequences, and the
model folds over them or defines functions by recursion. An induction theorem that
takes a property as a parameter cannot be used here; `Counting` says the same of a set,
from the well-foundedness of `<` on the numbers, and each induction is the step of one
set. With it `FoldIterates` says that a fold runs through the values of the loop, and
`RecursionExists` that a recursive definition defines something. The operation is a
CONSTANT operator of the module, and each loop of the checker is an instance of it.

**The checker implements the analysis** (`BorrowFlow_proofs`; for every set of
well-formed functions, `NoBlock` none of their blocks). `CheckerRefinesDataflow`:
`BorrowCheck` implements `Dataflow` on moved and uninitialised places. A block of
`Dataflow` has a set of facts it generates and one it kills, while a block of the
checker is a loop over statements, each of which may read, move, write, borrow and
report. First each operation is shown to do to the places something that does not
depend on borrows, holders, errors or liveness (`StatementPlaces`,
`TerminatorPlaces`); then that what it does to one place does not depend on the others
(`StatementCarries`, `TerminatorCarries`), which the loops keep (`WalkCarries`). A
function on sets that treats its members apart is one that generates and kills:
`BlockTransfers`. The invariant `CheckerInv` ties the state in the middle of a block to
the walk of the entry's places so far, and the state whose edges are being merged to
what `Dataflow` calls the exit; with it each action is a step of `Dataflow` or none.

Through the mapping the theorems about `Dataflow` become theorems about the checker.
`PlacesAreSolved`: its result solves the equations for places. With what
`BorrowCheck_proofs` shows of the borrows and of the verdict, the checker ends at a
fixed point, for every function: `EndsAtFixedPoint`. `ReachableAreChecked`: in a
function with a local that nothing writes, every block the program can enter is walked.
Such a local is uninitialised everywhere, so each merge into a new block changes it. All
functions of the run have one (`SamplesHaveUnwrittenLocals`); without one the theorem is
false, as said above.

**Liveness** (`MirLiveness_proofs`; for every set of well-formed functions).
`LivenessCorrect`: the sweeps end with exactly the locals that some path uses before it
defines them. That no other local is ever live is an invariant (`LiveInv`). That none
is missing needs `SweepInv`: in a sweep that has not changed anything yet, a block
behind the sweep satisfies its equation with its successors as they stand; so the last
sweep, which changes nothing, leaves a solution, and a solution holds what some path
leads to. `UsedAhead` takes as many steps back as there are instructions. That more would
find nothing new is counted: a search that is not done finds an instruction in every
step. `ComputedLiveness` says the same of `compute_liveness` as an operator, which the
borrow checker and `MirExec` use and which goes in rounds instead of sweeps, and
`SweepsCompute` that both are the same.

**Interner** (`Interner_proofs`; any set of threads and names, any width of the
counter, `None` none of them). The invariant adds two parts to the properties.
`Counter` ties the used ids to the counter: outside of an insertion they are those
below it, or all once the flag is set, and in each of the three steps of
an insertion they are one step apart from the thread's new id. `Calls` says that a
name found absent stays absent while the lock is held, and that an answer is an entry of
the map. From it follow `TypeCorrect`, `HandlesAlwaysResolve`, `CounterNeverWraps`
and, with the mapping that gives a call its answer when it found the id, inserted
it or saw the flag, `InternerRefinesTable`.

**Pipeline** (`Pipeline_proofs`; no assumption). None of the three theorems is
inductive: that nothing was made from a bad package says nothing of what is about to
be made. The invariant describes each step of `compile_package`: `Recorded`, which
stages are behind it and that each of them did its work or left its diagnostic in the
error bit; `Routes`, which exits can be there; `Stores`, which stores are open; and
`Returned`, what a result says of the stages. From it follow `VerdictCorrect`,
`HandlesAlwaysInScope` and `NeverPanicsAtAll`.

**Lowering** (`Lowering_proofs`; any set of bodies and any set of values that holds
their parts, `None` no number). That a block is ended once says nothing of the blocks
that are reserved and wait; the invariant `Inv` does. `Built`: an ended block is neither
current nor ended twice. `Shares`: each waiting block is owned by exactly one task, the
one that will switch to it. `Ordered` and `Stopped`: a task that switches comes right
after the end of a branch, when no block is current. `Returning`: the last task returns,
since `ensure_return_in_body` has put a return there. `Nested`: the entries of the loop
stack and the ends of loops among the tasks are matched in opposite order. From it
follow `BlocksEndOnceAlways` and `LoopsAlwaysNested`, for every body.

`CodeAlwaysWellFormed` adds `EdgeInv`: the edges made so far bind the arguments of
their targets, and the blocks that the tasks will lead to take what will be passed. It
assumes `IfsJoin`, that no `if` without `else` is used as a value, because the code
makes a wrong edge for one (above).

`NothingAfterNeverPanics` says of which bodies the builder never panics. `S` is a
set of values that includes every return, break and continue. `NothingAfter(S)` demands that
no operand, condition or initialiser is in `S`, that only literals and names come after a
member of `S` in a block, and that the body of a loop, or a block that is not itself in
`S`, does not end with one or with a call in tail position. The invariant `FlowInv` is
that there is a set of the places among the tasks at which no block may be current:
a task there needs none, and a task that may leave puts the place after it into the
set unless the next block is taken up there. It is a set and not a function of the state because
what a value will do when it is lowered is not yet known when its task is made.

Both hypotheses are statements about bodies, which TLC evaluates on those of the run
*lowering* (`TheseIfsJoin`, `NothingAfterThese` in `MCLowering`), so that the theorems
and the run speak of the same bodies. Without the second the theorem is false: of the body
`return x; g(x)` TLC finds the panic.

**Only model-checked.** Termination, `CallsReturn` and `CirclesReported` are liveness.
Soundness relates the checker to memory: it needs an invariant between each borrow and
the references to it in every frame. `RelationsMeanMemory` is false of types the compiler does not
build (`Deref` of a slice names other memory than an index of it), and so needs an
invariant of the type system that is not modelled. The lexer, the parser, the resolver,
the imports, the solver, and the agreement of the lowered code with the evaluator
are defined by RECURSIVE operators, or with values of any depth, which the provers do not
take.

## What is not modelled

* Formatting: diagnostics' wording, dumps, indentation of the printer.
* External libraries: LLVM's optimiser and object writer.
* `hir_validate` and `hir_mangle`: the one has a rule per kind of value and no
  state; what could go wrong in the other is in the encoding of characters.
* `hir_from_tree`: the two passes that declare items and then convert them, and the
  lookup of implementations; what it gives the solver is modelled.
* In the lexer: the values of literals, except where they decide a token.
* In the parser: spans, and the limit of 65536 elements of a list.
* In the resolver: canonicalisation of names.
* In the solver: the symbols of globals, collisions of hashes, structs of a program
  that are named like those of ranges, and the loop over the functions of a program:
  solving one function does not read what another one's learnt.
* In the borrow checker: aggregates and casts that carry references are walked by the
  rules but not run by `MirExec`, which has no array cells either.
* In the lowering: types, except whether a block has a value; shadowing of a `let` in
  an inner block (the names of locals are qualified by the function scope only, so such a
  `let` takes the name over); unresolved and static symbols.
* `nstring_forget_all`, which would let an old id name another string: nothing
  calls it.

## What comes next

1. *HIR construction and validation*: declaration before conversion; what validation
   lets through is what lowering can take.
2. *Evaluator*: widths, overflow, its limits, calls of functions with a body.
3. *Code generation of blocks*: phi lists, and two edges to one block.
4. *Mangling*: different names stay different, decoding inverts encoding.
5. *Driver*: manifest edits, the language server's documents.

Proofs to come: `ImportsIndependent`, and the soundness of the borrow checker on functions
without the constructs on which it fails (above).
