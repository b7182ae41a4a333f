------------------------------ MODULE Pipeline ------------------------------
(***************************************************************************)
(* One compilation: compile_package of the driver takes a package through  *)
(* the stages of the type-state pipeline, and the command that asked for   *)
(* it uses what comes out.                                                 *)
(*                                                                         *)
(* A stage can do its work ("ok"), report diagnostics and still return its *)
(* result ("reported"), or return an error of its own without a            *)
(* diagnostic ("failed").  Which of these each stage would do is chosen    *)
(* once, in faults, so that the verdicts of different commands on the same *)
(* package can be compared.                                                *)
(*                                                                         *)
(* The two stores of a compilation (HIR and MIR) are reached through a     *)
(* thread-local pointer that using_storage sets for the time of a closure; *)
(* tls is, for each kind of store, the pointers nested closures have set,  *)
(* the current one first.                                                  *)
(***************************************************************************)
EXTENDS Naturals, Sequences

VARIABLES
  cmd,        \* the command: what is to be done with the package
  exit,       \* the flag of a build: where it stops
  faults,     \* [Stages -> what the stage would do]
  pc,         \* the next stage or step of compile_package
  errorBit,   \* the error bit of the log, one cell shared by all its clones
  result,     \* "none", or what compile_package returned
  tls,        \* [Kinds -> sequence of stores]
  erased,     \* TRUE when the HIR store has been reset
  made        \* what has been written: dumps, artifacts, deliveries

vars == <<cmd, exit, faults, pc, errorBit, result, tls, erased, made>>

Kinds == {"hir", "mir"}
Stages == {"load_source", "parse", "lower_hir", "validate", "lower_mir",
           "codegen", "emit_obj", "link_binary"}

\* What a stage can do: reading a file, creating an LLVM context, writing an
\* object file and linking fail without a diagnostic of the compiler.
Outcomes(s) ==
  CASE s \in {"load_source", "codegen", "emit_obj", "link_binary"} -> {"ok", "failed"}
    [] s = "lower_mir" -> {"ok", "reported"}
    [] OTHER           -> {"ok", "reported", "failed"}

Commands == {"build", "run", "test", "install", "check", "doc", "publish"}
Exits == {"show_ast", "show_hir", "check_only", "emit_mir", "show_llvmir",
          "show_asm", "show_obj", "binary"}

\* The options a command compiles with: a build takes them from its flags,
\* the commands that need the program ask for a binary, the others check.
ExitsOf(c) ==
  CASE c = "build" -> Exits \ {"check_only"}
    [] c \in {"run", "test", "install"} -> {"binary"}
    [] OTHER -> {"check_only"}

Artifacts == {"llvm_ir", "asm", "object", "executable"}

Init ==
  /\ cmd \in Commands
  /\ exit \in ExitsOf(cmd)
  /\ faults \in [Stages -> {"ok", "reported", "failed"}]
  /\ \A s \in Stages : faults[s] \in Outcomes(s)
  /\ pc = "load_source"
  /\ errorBit = FALSE
  /\ result = "none"
  /\ tls = [k \in Kinds |-> <<>>]
  /\ erased = FALSE
  /\ made = {}

-----------------------------------------------------------------------------
(* What the stages share.                                                  *)

\* report: a diagnostic of severity Error, which is the default of every one,
\* sets the bit.
Reports(s) == errorBit \/ faults[s] = "reported"

\* using_storage: the old pointer is kept by the closure and put back after it.
Entered(k, t) == [t EXCEPT ![k] = <<k>> \o @]
Left(k, t) == [t EXCEPT ![k] = Tail(@)]

\* A handle can be dereferenced when its store is the current one and still
\* holds what it points to.
Readable(k) == tls[k] # <<>> /\ (k = "hir" => ~erased)

\* The stores whose handles a step dereferences.
Reads(step) ==
  CASE step \in {"lower_hir", "dump_hir", "validate", "mangle"} -> {"hir"}
    [] step = "lower_mir" -> {"hir", "mir"}
    [] step \in {"dump_mir_dot", "dump_llvm_ir", "dump_asm", "emit_obj"} -> {"mir"}
    [] OTHER -> {}

\* compile_package returns, possibly out of a closure: `?' inside the closure
\* of a store ends the closure, whose pointer is put back on the way out.
Return(r) ==
  /\ result' = r
  /\ pc' = IF pc \in {"lower_hir", "dump_hir", "validate", "checked", "mangle", "lower_mir"}
           THEN "leave_hir" ELSE IF tls["mir"] # <<>> THEN "leave_mir" ELSE "deliver"

\* A stage that returns Result: with its own error, or the one the gate gives.
Stage(s, gate, next) ==
  /\ pc = s
  /\ IF gate = "before" /\ errorBit
     THEN Return("error") /\ UNCHANGED errorBit
     ELSE /\ errorBit' = Reports(s)
          /\ IF faults[s] = "failed" \/ (gate = "after" /\ Reports(s))
             THEN Return("error")
             ELSE pc' = next /\ UNCHANGED result

-----------------------------------------------------------------------------
(* The stages, in the order compile_package calls them.                    *)

load_source ==
  /\ Stage("load_source", "none", "lex")
  /\ UNCHANGED <<cmd, exit, faults, tls, erased, made>>

\* lex only tests the bit: the tokens are made on demand by the parser.
lex ==
  /\ pc = "lex"
  /\ IF errorBit THEN Return("error") ELSE pc' = "parse" /\ UNCHANGED result
  /\ UNCHANGED <<cmd, exit, faults, errorBit, tls, erased, made>>

parse ==
  /\ Stage("parse", "after", IF exit = "show_ast" THEN "dump_ast" ELSE "enter_hir")
  /\ UNCHANGED <<cmd, exit, faults, tls, erased, made>>

dump_ast ==
  /\ pc = "dump_ast"
  /\ made' = made \union {"ast"}
  /\ Return("nothing")
  /\ UNCHANGED <<cmd, exit, faults, errorBit, tls, erased>>

enter_hir ==
  /\ pc = "enter_hir"
  /\ tls' = Entered("hir", tls)
  /\ pc' = "lower_hir"
  /\ UNCHANGED <<cmd, exit, faults, errorBit, result, erased, made>>

\* lower_hir does not look at the bit: import and name errors are only
\* reported, and the module built without them is passed on.
lower_hir ==
  /\ Stage("lower_hir", "none", IF exit = "show_hir" THEN "dump_hir" ELSE "validate")
  /\ UNCHANGED <<cmd, exit, faults, tls, erased, made>>

dump_hir ==
  /\ pc = "dump_hir"
  /\ made' = made \union {"hir"}
  /\ Return("nothing")
  /\ UNCHANGED <<cmd, exit, faults, errorBit, tls, erased>>

validate ==
  /\ Stage("validate", "after", "mangle")
  /\ UNCHANGED <<cmd, exit, faults, tls, erased, made>>

mangle ==
  /\ pc = "mangle"
  /\ pc' = "lower_mir"
  /\ tls' = Entered("mir", tls)
  /\ UNCHANGED <<cmd, exit, faults, errorBit, result, erased, made>>

\* Mutant: the verdict of the borrow checker is lost.
mutant_verdict_dropped ==
  /\ pc = "lower_mir"
  /\ tls' = Left("mir", tls)
  /\ IF exit = "check_only" THEN pc' = "checked" ELSE pc' = "leave_hir"
  /\ UNCHANGED <<cmd, exit, faults, errorBit, result, erased, made>>

\* lower_mir drops the Result of the borrow checker: what it found is in the
\* bit.  Its closure over the MIR store ends with it.
lower_mir ==
  /\ pc = "lower_mir"
  /\ errorBit' = Reports("lower_mir")
  /\ tls' = Left("mir", tls)
  /\ IF exit = "check_only" THEN pc' = "checked" ELSE pc' = "leave_hir"
  /\ UNCHANGED <<cmd, exit, faults, result, erased, made>>

\* A check asks the bit itself: no gate of a later stage will.
checked ==
  /\ pc = "checked"
  /\ Return(IF errorBit THEN "error" ELSE "nothing")
  /\ UNCHANGED <<cmd, exit, faults, errorBit, tls, erased, made>>

\* Mutant: the stages after the HIR run without a MIR store of their own.
mutant_no_mir_store ==
  /\ pc = "leave_hir"
  /\ tls' = Left("hir", tls)
  /\ erased' = TRUE
  /\ pc' = CASE result # "none" -> "deliver"
             [] result = "none" /\ exit = "emit_mir" -> "dump_mir_dot"
             [] OTHER -> "codegen"
  /\ UNCHANGED <<cmd, exit, faults, errorBit, result, made>>

\* The closure over the HIR store ends and the store is reset, whatever it
\* returned; only then is its result looked at.
leave_hir ==
  /\ pc = "leave_hir"
  /\ tls' = IF result = "none" THEN Entered("mir", Left("hir", tls)) ELSE Left("hir", tls)
  /\ erased' = TRUE
  /\ pc' = CASE result # "none" -> "deliver"
             [] result = "none" /\ exit = "emit_mir" -> "dump_mir_dot"
             [] OTHER -> "codegen"
  /\ UNCHANGED <<cmd, exit, faults, errorBit, result, made>>

dump_mir_dot ==
  /\ pc = "dump_mir_dot"
  /\ made' = made \union {"mir_dot"}
  /\ Return("nothing")
  /\ UNCHANGED <<cmd, exit, faults, errorBit, tls, erased>>

codegen ==
  /\ Stage("codegen", "before", CASE exit = "show_llvmir" -> "dump_llvm_ir"
                                  [] exit = "show_asm" -> "dump_asm"
                                  [] OTHER -> "emit_obj")
  /\ UNCHANGED <<cmd, exit, faults, tls, erased, made>>

\* The two dumps of generated code differ in what they write only.
Dump(step, what) ==
  /\ pc = step
  /\ made' = IF errorBit THEN made ELSE made \union {what}
  /\ Return(IF errorBit THEN "error" ELSE "nothing")
  /\ UNCHANGED <<cmd, exit, faults, errorBit, tls, erased>>

dump_llvm_ir == Dump("dump_llvm_ir", "llvm_ir")
dump_asm == Dump("dump_asm", "asm")

emit_obj ==
  /\ Stage("emit_obj", "before", IF exit = "show_obj" THEN "show_obj" ELSE "link_binary")
  /\ made' = IF errorBit \/ faults["emit_obj"] = "failed" THEN made ELSE made \union {"object"}
  /\ UNCHANGED <<cmd, exit, faults, tls, erased>>

show_obj ==
  /\ pc = "show_obj"
  /\ Return("nothing")
  /\ UNCHANGED <<cmd, exit, faults, errorBit, tls, erased, made>>

link_binary ==
  /\ pc = "link_binary"
  /\ IF faults["link_binary"] = "failed"
     THEN Return("error") /\ UNCHANGED made
     ELSE Return("binary") /\ made' = made \union {"executable"}
  /\ UNCHANGED <<cmd, exit, faults, errorBit, tls, erased>>

leave_mir ==
  /\ pc = "leave_mir"
  /\ tls' = Left("mir", tls)
  /\ pc' = "deliver"
  /\ UNCHANGED <<cmd, exit, faults, errorBit, result, erased, made>>

-----------------------------------------------------------------------------
(* The commands that go on after compile_package: `?' ends them on an      *)
(* error, and those that need the program `expect' a path.                 *)

Delivery(c) == CASE c \in {"run", "test"} -> "executed"
                 [] c = "install" -> "installed"
                 [] c = "publish" -> "published"
                 [] c = "doc" -> "documented"
                 [] OTHER -> "finished"

deliver ==
  /\ pc = "deliver"
  /\ pc' = IF result = "nothing" /\ cmd \in {"run", "test", "install"} THEN "panicked" ELSE "done"
  /\ made' = IF result = "error" \/ pc' = "panicked" THEN made ELSE made \union {Delivery(cmd)}
  /\ UNCHANGED <<cmd, exit, faults, errorBit, result, tls, erased>>

Stopped == pc \in {"done", "panicked"} /\ UNCHANGED vars

Next == \/ load_source \/ lex \/ parse \/ dump_ast
        \/ enter_hir \/ lower_hir \/ dump_hir \/ validate \/ mangle \/ lower_mir \/ checked
        \/ leave_hir \/ dump_mir_dot \/ codegen \/ dump_llvm_ir \/ dump_asm
        \/ emit_obj \/ show_obj \/ link_binary \/ leave_mir \/ deliver \/ Stopped

Spec == Init /\ [][Next]_vars

-----------------------------------------------------------------------------
(* Properties.                                                             *)

FrontEnd == {"load_source", "parse", "lower_hir", "validate", "lower_mir"}
Clean == \A s \in FrontEnd : faults[s] = "ok"

\* Code is written, and a package run, installed, published or documented,
\* only when no stage before code generation has anything against it: the
\* borrow checker's verdict, whose Result lower_mir drops, included.
NoCodeFromBadProgram ==
  made \intersect (Artifacts \union {"executed", "installed", "published", "documented"}) # {} => Clean

\* A check passes exactly the packages that a build would take to code
\* generation: the two exits of compile_package test the bit in different
\* places and must come to the same verdict.
CheckAgreesWithBuild ==
  pc = "done" =>
    CASE exit = "check_only" -> result = "nothing" <=> Clean
      [] exit = "show_obj"   -> result = "nothing" <=> Clean /\ faults["codegen"] = "ok" /\ faults["emit_obj"] = "ok"
      [] OTHER -> TRUE

\* The error bit carries the verdict on a package through both exits.
VerdictDecides == NoCodeFromBadProgram /\ CheckAgreesWithBuild

\* Whatever a stage dereferences is in a store that is current and has not
\* been reset, on every path through the closures of compile_package, early
\* returns included; and no pointer outlives the compilation.
HandlesInScope ==
  /\ \A k \in Reads(pc) : Readable(k)
  /\ pc = "done" => \A k \in Kinds : tls[k] = <<>>

\* No command that needs the program is told that there is none.
NeverPanics == pc # "panicked"
=============================================================================
