----------------------------- MODULE MCImports -----------------------------
(***************************************************************************)
(* A package `here' of an entry, two sibling files, a module directory and *)
(* a directory below it, and a package `there' on the search path, with    *)
(* the imports of each file chosen from a few paths.                       *)
(***************************************************************************)
EXTENDS Imports

Src == << "here", "src" >>
Entry == File(Src, << "entry" >>)
FileA == File(Src, << "a" >>)
FileB == File(Src \o << "b" >>, << "mod" >>)
There == File(<< "lib", "there", "src" >>, << "entry" >>)
Hidden == File(<< "lib", "there", "src" >>, << "a" >>)

Use(vis, path) == Item_("Import", vis, "", path, << >>)
Fn(vis, name) == Item_("Function", vis, name, << >>, << >>)
Mod(vis, items) == Item_("Module", vis, "m", << >>, items)
Own(name) == << Fn("public", name), Fn("private", "p"), Fn("protected", "q"), Item_("Impl", "private", "", << >>, << >>) >>

World(entry, a, b, there, hidden, root, unreadable) ==
  [files |-> [f \in {Entry, FileA, FileB, There, Hidden} |->
                CASE f = Entry -> entry [] f = FileA -> a [] f = FileB -> b [] f = There -> there [] f = Hidden -> hidden],
   start |-> Context("here", Entry), root |-> root, search |-> << << "lib" >> >>, unreadable |-> unreadable]

Paths == {<< "a" >>, << "b" >>, << "entry" >>, << "a", "f" >>, << "b", "z" >>, << "there" >>, << "there", "g" >>, << "none" >>,
          << "crate" >>, << "crate", "a" >>, << "crate", "f" >>, << "super" >>, << "super", "a" >>, << "super", "super" >>,
          << "self" >>, << "self", "f" >>, << "self", "b" >>}
Back == {<< "a" >>, << "entry" >>, << "there" >>, << "crate" >>, << "super", "a" >>, << "self" >>}
Nested(vis, path) == << Mod("public", << Use(vis, path), Fn("private", "p") >>), Mod("private", << Use("public", << "a" >>) >>) >>

\* Two imports in the entry, one in each of the others.
SmallWorlds ==
  {World(<< Use("private", p), Use("public", q) >>, << Use("public", r) >> \o Own("a"), << Use("public", s) >> \o Own("f"),
         Own("g") \o << Use("public", << "a" >>) >>, Own("f"), root, {}) :
     p \in {<< "b" >>, << "self", "b" >>, << "b", "f" >>}, q \in Paths, r \in Paths, s \in Back, root \in {Entry, NoFile}}
\* Imports in inner modules, visible or not, and files that cannot be read.
NestedWorlds ==
  {World(<< Use("public", p) >>, Own("a") \o Nested(vis, q), Own("f") \o << Use(vis, q) >>, Own("g") \o Nested(vis, r), Own("f"), Entry, bad) :
     p \in {<< "a" >>, << "b" >>, << "there" >>, << "self", "b" >>}, q \in Paths, r \in Back, vis \in {"public", "protected", "private"},
     bad \in {{}, {FileB}, {There}}}
\* A chain of five files with an import in the last.
DeepWorlds ==
  {World(<< Use("private", << "self", "b" >>), Use("public", << "there" >>) >>, << Use("public", << "crate" >>) >>,
         << Use("public", << "super", "a" >>) >>, << Use("public", << "a" >>) >>, << Use("public", p) >>, Entry, {}) : p \in Paths}
AllWorlds == SmallWorlds \cup NestedWorlds \cup DeepWorlds
=============================================================================
