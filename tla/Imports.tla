------------------------------ MODULE Imports ------------------------------
(***************************************************************************)
(* The expansion of `use' items (tree_resolve/src/resolve_import.rs): each *)
(* import of a module is resolved to a file, the file is parsed, what may  *)
(* not be seen is taken away, its own imports are resolved the same way,   *)
(* and the import gets the module, or the item of it that it names.        *)
(*                                                                         *)
(* The recursion over files is a stack of frames, one for each file that   *)
(* is being resolved.  A path is a folder, a sequence of names, with the   *)
(* stem of a file of it, also a sequence: a stem of two names is the file  *)
(* `a::b.nit', which no world has.  The imports of a module are resolved   *)
(* in the order of the walk, so that what they are resolved to is a        *)
(* sequence beside the items.                                              *)
(***************************************************************************)
EXTENDS Integers, Sequences, SequencesExt, FiniteSets

CONSTANTS
  Worlds,     \* what the file system may hold, and where the compiler starts
  MaxDepth    \* MAX_IMPORT_DEPTH

ASSUME DepthAssumption == MaxDepth \in Nat

VARIABLES
  world,
  stack,      \* of frames, the innermost last
  visited,    \* the first segments of the imports being resolved
  depth,      \* the same, in their order
  issues      \* what was reported

vars == << world, stack, visited, depth, issues >>

-----------------------------------------------------------------------------
(* Items, modules and files.                                               *)

Item_(kind, vis, name, path, items) == [kind |-> kind, vis |-> vis, name |-> name, path |-> path, items |-> items]
PathPrefix == {"crate", "super", "self"}
Prefix(path) == IF path # << >> /\ Head(path) \in PathPrefix THEN Head(path) ELSE "none"

\* The imports of a module, those of its inner modules in their places.
RECURSIVE ImportsOf(_)
ImportsOf(items) ==
  FlattenSeq([n \in DOMAIN items |-> CASE items[n].kind = "Import" -> << items[n] >>
                                       [] items[n].kind = "Module" -> ImportsOf(items[n].items)
                                       [] OTHER                    -> << >>])

File(folder, stem) == [folder |-> folder, stem |-> stem]
NoFile == File(<< >>, << >>)
Exists(file) == file \in DOMAIN world.files

is_visible(vis, is_same_package) == vis = "public" \/ (vis = "protected" /\ is_same_package)
\* Mutant: inner modules keep their items.
mutant_outermost_only(items, is_same_package) ==
  SelectSeq(items, LAMBDA i : i.kind = "Impl" \/ is_visible(i.vis, is_same_package))
RECURSIVE filtered(_, _)
filtered(items, is_same_package) ==
  LET kept == SelectSeq(items, LAMBDA i : i.kind = "Impl" \/ is_visible(i.vis, is_same_package))
  IN [n \in DOMAIN kept |-> IF kept[n].kind # "Module" THEN kept[n]
                            ELSE [kept[n] EXCEPT !.items = filtered(kept[n].items, is_same_package)]]
visibility_filter(items, is_same_package) == filtered(items, is_same_package)

-----------------------------------------------------------------------------
(* Which file an import names.  A context is a package and a file of it.   *)

FirstOf(candidates) ==
  LET found == SelectSeq(candidates, Exists) IN IF found = << >> THEN NoFile ELSE found[1]
In(folder, stem) == FirstOf(<< File(folder, stem), File(folder \o stem, << "mod" >>) >>)

find_package(name) ==
  FirstOf([n \in DOMAIN world.search |-> File(world.search[n] \o << name, "src" >>, << "entry" >>)])

resolve_crate_path(relative) ==
  IF world.root = NoFile THEN NoFile ELSE In(Front(world.root.folder) \o << "src" >>, relative)
resolve_self_path(ctx, relative) == In(ctx.file.folder, relative)
resolve_super_path(ctx, count, relative) ==
  IF Len(ctx.file.folder) < count THEN NoFile
  ELSE In(SubSeq(ctx.file.folder, 1, Len(ctx.file.folder) - count), relative)
\* `use super' alone: the entry of a package further up.
super_entry(ctx, count) ==
  LET up == SubSeq(ctx.file.folder, 1, Len(ctx.file.folder) - count)
  IN IF Len(ctx.file.folder) < count THEN NoFile
     ELSE FirstOf(<< File(up, << "entry" >>), File(Append(up, "src"), << "entry" >>) >>)

supers(path) ==
  LET Others == {n \in DOMAIN path : path[n] # "super"}
  IN IF Others = {} THEN Len(path) ELSE (CHOOSE n \in Others : \A m \in Others : n <= m) - 1

Context(pkg, file) == [pkg |-> pkg, file |-> file]
decide_what_to_import(ctx, name) ==
  IF In(ctx.file.folder, << name >>) # NoFile THEN Context(ctx.pkg, In(ctx.file.folder, << name >>))
  ELSE Context(name, find_package(name))

\* The context of an import, with NoFile when there is none.
what(ctx, path) ==
  LET rest == Tail(path)
      relative == SubSeq(path, supers(path) + 1, Len(path))
  IN CASE Prefix(path) = "crate" /\ rest = << >>     -> Context(ctx.pkg, world.root)
       [] Prefix(path) = "crate" /\ rest # << >>     -> Context(ctx.pkg, resolve_crate_path(rest))
       [] Prefix(path) = "super" /\ relative = << >> -> Context(ctx.pkg, super_entry(ctx, supers(path)))
       [] Prefix(path) = "super" /\ relative # << >> -> Context(ctx.pkg, resolve_super_path(ctx, supers(path), relative))
       [] Prefix(path) = "self" /\ rest = << >>      -> ctx
       [] Prefix(path) = "self" /\ rest # << >>      -> Context(ctx.pkg, resolve_self_path(ctx, rest))
       [] Prefix(path) = "none"                      -> decide_what_to_import(ctx, Head(path))

\* Of a path that names an item, what is looked for in the module.
target(path) ==
  LET plain == IF Prefix(path) = "none" THEN path ELSE Tail(path)
  IN IF Len(plain) > 1 THEN Tail(plain) ELSE plain

Unresolved == << >>
Named == {"Function", "Struct", "Enum", "Trait", "TypeAlias", "Variable"}
\* What an import becomes: the module of a file, whose own imports are resolved,
\* or the items of it with the name the path ends in.
extracted(import, pkg, items, resolved) ==
  IF Len(import.path) > 1
  THEN SelectSeq(items, LAMBDA i : i.kind \in Named /\ << i.name >> = target(import.path))
  ELSE << [kind |-> "Loaded", vis |-> import.vis, name |-> pkg, items |-> items, resolved |-> resolved] >>

-----------------------------------------------------------------------------
(* The walk.                                                               *)

Frame(ctx, import, items) == [ctx |-> ctx, import |-> import, items |-> items, resolved |-> << >>]
Whole == Item_("Import", "public", "", << >>, << >>)    \* no import: the module that is compiled

Init ==
  /\ world \in Worlds
  /\ stack = << Frame(world.start, Whole, world.files[world.start.file]) >>
  /\ visited = {}
  /\ depth = << >>
  /\ issues = {}

Top == Last(stack)
Finished == Len(Top.resolved) = Len(ImportsOf(Top.items))
import_ == ImportsOf(Top.items)[Len(Top.resolved) + 1]
Key(import) == Head(import.path)

\* The frames after the import at hand got what it is resolved to.
Resolving(frames, to) == [frames EXCEPT ![Len(frames)].resolved = Append(@, to)]
Report(issue, name) == issues' = issues \cup {<< issue, name >>}
Skip == stack' = Resolving(stack, Unresolved) /\ UNCHANGED << world, visited, depth >>

DepthLimit ==
  /\ ~Finished
  /\ Len(depth) >= MaxDepth
  /\ Report("ImportDepthLimitExceeded", Key(import_))
  /\ Skip

\* Mutant: only the import around this one is looked at.
mutant_parent_only(key) == depth # << >> /\ Last(depth) = key
is_visited(key) == key \in visited

Circular ==
  /\ ~Finished
  /\ Len(depth) < MaxDepth
  /\ is_visited(Key(import_))
  /\ Report("CircularImport", Key(import_))
  /\ Skip

Followed == ~Finished /\ Len(depth) < MaxDepth /\ ~is_visited(Key(import_))

\* Only an import without prefix is reported when it names no file.
NotFound ==
  /\ Followed
  /\ what(Top.ctx, import_.path).file = NoFile
  /\ IF Prefix(import_.path) = "none" THEN Report("ImportNotFound", Key(import_)) ELSE UNCHANGED issues
  /\ Skip

\* The file is there and cannot be read, or is too big.
Unreadable ==
  /\ Followed
  /\ LET file == what(Top.ctx, import_.path).file IN file # NoFile /\ (file \in world.unreadable \/ ~Exists(file))
  /\ Report("ImportNotFound", Key(import_))
  /\ Skip

Load ==
  /\ Followed
  /\ \E ctx \in {what(Top.ctx, import_.path)} :
       /\ ctx.file # NoFile /\ ctx.file \notin world.unreadable /\ Exists(ctx.file)
       /\ stack' = Append(stack, Frame(ctx, import_, visibility_filter(world.files[ctx.file], ctx.pkg = Top.ctx.pkg)))
  /\ visited' = visited \cup {Key(import_)}
  /\ depth' = Append(depth, Key(import_))
  /\ UNCHANGED << world, issues >>

\* Mutant: an import of an item that is not there stays among the visited.
mutant_found_only(key, found) == IF found = Unresolved THEN visited ELSE visited \ {key}
unvisited(key, found) == visited \ {key}

Leave ==
  /\ Finished
  /\ Len(stack) > 1
  /\ \E found \in {extracted(Top.import, Top.ctx.pkg, Top.items, Top.resolved)} :
       /\ stack' = Resolving(Front(stack), found)
       /\ IF found = Unresolved THEN Report("ImportNotFound", Last(target(Top.import.path))) ELSE UNCHANGED issues
       /\ visited' = unvisited(Key(Top.import), found)
  /\ depth' = Front(depth)
  /\ UNCHANGED world

Next == DepthLimit \/ Circular \/ NotFound \/ Unreadable \/ Load \/ Leave
Spec == Init /\ [][Next]_vars /\ WF_vars(Next)

-----------------------------------------------------------------------------
(* Properties.                                                             *)

Done == Finished /\ Len(stack) = 1

\* What an import of a file becomes depends on the imports around it and on nothing
\* that was resolved before it (resolve_import.rs:303-322, 501-503).
RECURSIVE ExpectedOf(_, _, _)
ExpectedOf(ctx, import, around) ==
  LET to == what(ctx, import.path)
      items == visibility_filter(world.files[to.file], to.pkg = ctx.pkg)
      inner == ImportsOf(items)
  IN IF \/ Cardinality(around) >= MaxDepth
        \/ Key(import) \in around
        \/ ~Exists(to.file)
        \/ to.file \in world.unreadable
     THEN Unresolved
     ELSE extracted(import, to.pkg, items, [n \in DOMAIN inner |-> ExpectedOf(to, inner[n], around \cup {Key(import)})])
ImportsIndependent ==
  Done => \A n \in DOMAIN Top.resolved : Top.resolved[n] = ExpectedOf(Top.ctx, ImportsOf(Top.items)[n], {})

\* A file that is resolved again inside itself, with the same imports left to it,
\* ends in a report of the circle, as long as the limit allows to go round it
\* (resolve_import.rs:312-322).
Repeats == \E m, n \in DOMAIN stack : m < n /\ stack[m].ctx = stack[n].ctx /\ stack[m].items = stack[n].items
Keys == UNION {{Key(i) : i \in ToSet(ImportsOf(world.files[f]))} : f \in DOMAIN world.files}
CirclesReported == (Repeats /\ Cardinality(Keys) < MaxDepth) ~> (\E k \in Keys : << "CircularImport", k >> \in issues)

\* Nothing private comes with a file, at any depth of modules and of imports
\* (resolve_import.rs:106-190, 212-222).
RECURSIVE ShownIn(_)
ShownIn(items) ==
  UNION {{items[n]} \cup (IF items[n].kind \in {"Module", "Loaded"} THEN ShownIn(items[n].items) ELSE {}) \cup
         (IF items[n].kind = "Loaded" THEN UNION {ShownIn(items[n].resolved[m]) : m \in DOMAIN items[n].resolved} ELSE {})
         : n \in DOMAIN items}
Brought == UNION {ShownIn(stack[1].resolved[n]) : n \in DOMAIN stack[1].resolved}
NothingPrivate == \A i \in Brought : i.kind \notin {"Impl", "Loaded"} => i.vis # "private"

=============================================================================
