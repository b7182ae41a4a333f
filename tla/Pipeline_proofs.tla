--------------------------- MODULE Pipeline_proofs ---------------------------
(***************************************************************************)
(* Proofs about Pipeline: whatever the stages do, the error bit carries    *)
(* the verdict to the end of the compilation, and every handle that is     *)
(* dereferenced is in a store that is current and not reset.               *)
(*                                                                         *)
(* The invariant says three things of each step of compile_package: which  *)
(* stages are behind it and what the bit knows of them (Recorded), which   *)
(* exits can be there (Routes), and which stores are open (Stores).  What  *)
(* was returned and what was made then follow from the step that did it.   *)
(***************************************************************************)
EXTENDS Pipeline, TLAPS, SequenceTheorems

Generating == {"codegen", "dump_llvm_ir", "dump_asm", "emit_obj", "show_obj", "link_binary"}
InHir == {"lower_hir", "dump_hir", "validate", "mangle", "lower_mir", "checked", "leave_hir"}
InMir == {"lower_mir", "dump_mir_dot", "leave_mir"} \cup Generating
Early == {"load_source", "lex", "parse", "dump_ast", "enter_hir"}
Over == {"deliver", "done", "panicked"}
Steps == Early \cup InHir \cup InMir \cup Over

\* The steps that come after a stage, as long as nothing is returned.
After(s) ==
  CASE s = "load_source" -> Steps \ {"load_source"}
    [] s = "parse" -> Steps \ {"load_source", "lex", "parse"}
    [] s = "lower_hir" -> Steps \ (Early \cup {"lower_hir"})
    [] s = "validate" -> {"mangle", "lower_mir", "checked", "leave_hir", "dump_mir_dot"} \cup Generating
    [] s = "lower_mir" -> {"checked", "leave_hir", "dump_mir_dot"} \cup Generating
    [] s = "codegen" -> Generating \ {"codegen"}
    [] s = "emit_obj" -> {"show_obj", "link_binary"}
    [] OTHER -> {}

\* A stage that did its work, or whose diagnostics are in the bit.
Fine(s) == faults[s] # "failed" /\ (faults[s] = "reported" => errorBit)

Types ==
  /\ cmd \in Commands /\ exit \in ExitsOf(cmd)
  /\ faults \in [Stages -> {"ok", "reported", "failed"}]
  /\ \A s \in Stages : faults[s] \in Outcomes(s)
  /\ pc \in Steps /\ errorBit \in BOOLEAN /\ erased \in BOOLEAN
  /\ result \in {"none", "error", "nothing", "binary"}

\* What is known of the stages behind a step, and of the step from the bit.
Recorded ==
  /\ result = "none" => \A s \in Stages : pc \in After(s) => Fine(s)
  /\ errorBit => ~Clean
  /\ pc \in Generating \ {"codegen"} => ~errorBit

\* Where each exit can be, and that nothing is done after a return but leaving.
Routes ==
  /\ pc \notin {"leave_hir", "leave_mir"} \cup Over => result = "none"
  /\ pc \in {"leave_mir"} \cup Over => result # "none"
  /\ pc = "dump_ast" => exit = "show_ast"
  /\ pc = "dump_hir" => exit = "show_hir"
  /\ pc = "checked" => exit = "check_only"
  /\ pc = "leave_hir" /\ result = "none" => exit # "check_only"
  /\ pc = "dump_mir_dot" => exit = "emit_mir"
  /\ pc \in Generating => exit # "check_only"
  /\ pc = "dump_llvm_ir" => exit = "show_llvmir"
  /\ pc = "dump_asm" => exit = "show_asm"
  /\ pc = "show_obj" => exit = "show_obj"
  /\ pc = "link_binary" => exit # "show_obj"

Built == faults["codegen"] = "ok" /\ faults["emit_obj"] = "ok"

\* What a result says of the stages.
Returned ==
  /\ result = "binary" => Clean /\ exit \notin {"show_obj", "check_only"}
  /\ result = "nothing" => exit # "binary"
  /\ result = "nothing" /\ exit = "check_only" => Clean
  /\ result = "nothing" /\ exit = "show_obj" => Clean /\ Built
  /\ result = "error" /\ exit = "check_only" => ~Clean
  /\ result = "error" /\ exit = "show_obj" => ~(Clean /\ Built)

\* The open stores at each step.
Stores ==
  /\ tls = [k \in Kinds |-> IF k = "hir" THEN (IF pc \in InHir THEN <<"hir">> ELSE << >>)
                            ELSE (IF pc \in InMir THEN <<"mir">> ELSE << >>)]
  /\ pc \in InHir => ~erased
  /\ pc \in Early => ~erased

Inv == Types /\ Recorded /\ Routes /\ Returned /\ Stores /\ NoCodeFromBadProgram /\ NeverPanics

-----------------------------------------------------------------------------
\* Opening a store where none is open, and leaving the only one.
LEMMA OpenAndLeave ==
  ASSUME NEW k \in Kinds
  PROVE  <<k>> \o << >> = <<k>> /\ Tail(<<k>>) = << >>
<1>1. <<k>> \in Seq(Kinds) /\ Len(<<k>>) = 1 /\ <<k>> # << >>
  OBVIOUS
<1>2. Tail(<<k>>) \in Seq(Kinds) /\ Len(Tail(<<k>>)) = 0
  BY <1>1, HeadTailProperties
<1>. QED
  BY <1>1, <1>2, EmptySeq, ConcatEmptySeq

\* The same of the two kinds there are.
LEMMA BothStores ==
  /\ <<"hir">> \o << >> = <<"hir">> /\ Tail(<<"hir">>) = << >>
  /\ <<"mir">> \o << >> = <<"mir">> /\ Tail(<<"mir">>) = << >>
BY OpenAndLeave DEF Kinds

-----------------------------------------------------------------------------
\* A compilation starts with nothing known, nothing open and nothing made.
LEMMA InitInv == Init => Inv
<1>. SUFFICES ASSUME Init PROVE Inv
  OBVIOUS
<1>. USE DEF Init
<1>1. Types
  BY DEF Types, Steps, Early
<1>2. Recorded
  BY DEF Recorded, After, Early, Stages, Generating, Steps
<1>3. Routes
  BY DEF Routes, Early, Generating, Over
<1>4. Returned
  BY DEF Returned
<1>5. Stores
  BY DEF Stores, Kinds, InHir, InMir, Early, Generating
<1>6. NoCodeFromBadProgram /\ NeverPanics
  BY DEF NoCodeFromBadProgram, NeverPanics
<1>. QED
  BY <1>1, <1>2, <1>3, <1>4, <1>5, <1>6 DEF Inv

\* Every step of compile_package, and what a command does after it, keeps the
\* invariant.
LEMMA StepInv == Inv /\ [Next]_vars => Inv'
<1>. SUFFICES ASSUME Inv, [Next]_vars PROVE Inv'
  OBVIOUS
<1>. USE DEF Inv, Types, Routes, Steps, Early, InHir, InMir, Generating, Over
<1>1. CASE load_source
  <2>. USE <1>1 DEF load_source, Stage, Return, Reports
  <2>1. Types'
    OBVIOUS
  <2>2. Recorded'
    BY DEF Recorded, After, Stages, Fine, Clean, FrontEnd, Outcomes
  <2>3. Routes'
    OBVIOUS
  <2>4. Returned'
    BY DEF Recorded, Returned, After, Stages, Fine, Clean, FrontEnd, Outcomes, Built
  <2>5. Stores'
    BY BothStores DEF Stores, Kinds, Entered, Left
  <2>6. NoCodeFromBadProgram'
    BY DEF NoCodeFromBadProgram, Recorded, Returned, After, Stages, Fine, Clean, FrontEnd,
           Outcomes, Artifacts
  <2>. QED
    BY <2>1, <2>2, <2>3, <2>4, <2>5, <2>6 DEF NeverPanics
<1>2. CASE lex
  <2>. USE <1>2 DEF lex, Return
  <2>1. Types'
    OBVIOUS
  <2>2. Recorded'
    BY DEF Recorded, After, Stages, Fine, Clean, FrontEnd, Outcomes
  <2>3. Routes'
    OBVIOUS
  <2>4. Returned'
    BY DEF Recorded, Returned, After, Stages, Fine, Clean, FrontEnd, Outcomes, Built
  <2>5. Stores'
    BY BothStores DEF Stores, Kinds, Entered, Left
  <2>6. NoCodeFromBadProgram'
    BY DEF NoCodeFromBadProgram, Recorded, Returned, After, Stages, Fine, Clean, FrontEnd,
           Outcomes, Artifacts
  <2>. QED
    BY <2>1, <2>2, <2>3, <2>4, <2>5, <2>6 DEF NeverPanics
<1>3. CASE parse
  <2>. USE <1>3 DEF parse, Stage, Return, Reports
  <2>1. Types'
    OBVIOUS
  <2>2. Recorded'
    BY DEF Recorded, After, Stages, Fine, Clean, FrontEnd, Outcomes
  <2>3. Routes'
    OBVIOUS
  <2>4. Returned'
    BY DEF Recorded, Returned, After, Stages, Fine, Clean, FrontEnd, Outcomes, Built
  <2>5. Stores'
    BY BothStores DEF Stores, Kinds, Entered, Left
  <2>6. NoCodeFromBadProgram'
    BY DEF NoCodeFromBadProgram, Recorded, Returned, After, Stages, Fine, Clean, FrontEnd,
           Outcomes, Artifacts
  <2>. QED
    BY <2>1, <2>2, <2>3, <2>4, <2>5, <2>6 DEF NeverPanics
<1>4. CASE dump_ast
  <2>. USE <1>4 DEF dump_ast, Return
  <2>1. Types'
    OBVIOUS
  <2>2. Recorded'
    BY DEF Recorded, After, Stages, Fine, Clean, FrontEnd, Outcomes
  <2>3. Routes'
    OBVIOUS
  <2>4. Returned'
    BY DEF Recorded, Returned, After, Stages, Fine, Clean, FrontEnd, Outcomes, Built
  <2>5. Stores'
    BY BothStores DEF Stores, Kinds, Entered, Left
  <2>6. NoCodeFromBadProgram'
    BY DEF NoCodeFromBadProgram, Recorded, Returned, After, Stages, Fine, Clean, FrontEnd,
           Outcomes, Artifacts
  <2>. QED
    BY <2>1, <2>2, <2>3, <2>4, <2>5, <2>6 DEF NeverPanics
<1>5. CASE enter_hir
  <2>. USE <1>5 DEF enter_hir
  <2>1. Types'
    OBVIOUS
  <2>2. Recorded'
    BY DEF Recorded, After, Stages, Fine, Clean, FrontEnd, Outcomes
  <2>3. Routes'
    OBVIOUS
  <2>4. Returned'
    BY DEF Recorded, Returned, After, Stages, Fine, Clean, FrontEnd, Outcomes, Built
  <2>5. Stores'
    BY BothStores DEF Stores, Kinds, Entered, Left
  <2>6. NoCodeFromBadProgram'
    BY DEF NoCodeFromBadProgram, Recorded, Returned, After, Stages, Fine, Clean, FrontEnd,
           Outcomes, Artifacts
  <2>. QED
    BY <2>1, <2>2, <2>3, <2>4, <2>5, <2>6 DEF NeverPanics
<1>6. CASE lower_hir
  <2>. USE <1>6 DEF lower_hir, Stage, Return, Reports
  <2>1. Types'
    OBVIOUS
  <2>2. Recorded'
    <3>1. errorBit' => ~Clean'
      BY DEF Recorded, Clean, FrontEnd
    <3>2. ASSUME result' = "none", NEW s \in Stages, pc' \in After(s) PROVE Fine(s)'
      <4>1. s \in {"load_source", "parse", "lower_hir"}
        BY <3>2 DEF After, Stages
      <4>2. s = "lower_hir" \/ pc \in After(s)
        BY <4>1 DEF After
      <4>. QED
        BY <3>2, <4>1, <4>2 DEF Recorded, Fine
    <3>. QED
      BY <3>1, <3>2 DEF Recorded
  <2>3. Routes'
    OBVIOUS
  <2>4. Returned'
    BY DEF Recorded, Returned, After, Stages, Fine, Clean, FrontEnd, Outcomes, Built
  <2>5. Stores'
    BY BothStores DEF Stores, Kinds, Entered, Left
  <2>6. NoCodeFromBadProgram'
    BY DEF NoCodeFromBadProgram, Recorded, Returned, After, Stages, Fine, Clean, FrontEnd,
           Outcomes, Artifacts
  <2>. QED
    BY <2>1, <2>2, <2>3, <2>4, <2>5, <2>6 DEF NeverPanics
<1>7. CASE dump_hir
  <2>. USE <1>7 DEF dump_hir, Return
  <2>1. Types'
    OBVIOUS
  <2>2. Recorded'
    BY DEF Recorded, After, Stages, Fine, Clean, FrontEnd, Outcomes
  <2>3. Routes'
    OBVIOUS
  <2>4. Returned'
    BY DEF Recorded, Returned, After, Stages, Fine, Clean, FrontEnd, Outcomes, Built
  <2>5. Stores'
    BY BothStores DEF Stores, Kinds, Entered, Left
  <2>6. NoCodeFromBadProgram'
    BY DEF NoCodeFromBadProgram, Recorded, Returned, After, Stages, Fine, Clean, FrontEnd,
           Outcomes, Artifacts
  <2>. QED
    BY <2>1, <2>2, <2>3, <2>4, <2>5, <2>6 DEF NeverPanics
<1>8. CASE validate
  <2>. USE <1>8 DEF validate, Stage, Return, Reports
  <2>1. Types'
    OBVIOUS
  <2>2. Recorded'
    BY DEF Recorded, After, Stages, Fine, Clean, FrontEnd, Outcomes
  <2>3. Routes'
    OBVIOUS
  <2>4. Returned'
    BY DEF Recorded, Returned, After, Stages, Fine, Clean, FrontEnd, Outcomes, Built
  <2>5. Stores'
    BY BothStores DEF Stores, Kinds, Entered, Left
  <2>6. NoCodeFromBadProgram'
    BY DEF NoCodeFromBadProgram, Recorded, Returned, After, Stages, Fine, Clean, FrontEnd,
           Outcomes, Artifacts
  <2>. QED
    BY <2>1, <2>2, <2>3, <2>4, <2>5, <2>6 DEF NeverPanics
<1>9. CASE mangle
  <2>. USE <1>9 DEF mangle
  <2>1. Types'
    OBVIOUS
  <2>2. Recorded'
    BY DEF Recorded, After, Stages, Fine, Clean, FrontEnd, Outcomes
  <2>3. Routes'
    OBVIOUS
  <2>4. Returned'
    BY DEF Recorded, Returned, After, Stages, Fine, Clean, FrontEnd, Outcomes, Built
  <2>5. Stores'
    BY BothStores DEF Stores, Kinds, Entered, Left
  <2>6. NoCodeFromBadProgram'
    BY DEF NoCodeFromBadProgram, Recorded, Returned, After, Stages, Fine, Clean, FrontEnd,
           Outcomes, Artifacts
  <2>. QED
    BY <2>1, <2>2, <2>3, <2>4, <2>5, <2>6 DEF NeverPanics
<1>10. CASE lower_mir
  <2>. USE <1>10 DEF lower_mir, Reports
  <2>1. Types'
    OBVIOUS
  <2>2. Recorded'
    <3>1. errorBit' => ~Clean'
      BY DEF Recorded, Clean, FrontEnd
    <3>2. ASSUME NEW s \in Stages, pc' \in After(s) PROVE Fine(s)'
      <4>1. s = "lower_mir" \/ pc \in After(s)
        BY <3>2 DEF After, Stages
      <4>2. result = "none" /\ faults' = faults /\ (errorBit => errorBit')
        OBVIOUS
      <4>3. CASE s = "lower_mir"
        BY <4>2, <4>3 DEF Fine, Stages, Outcomes
      <4>4. CASE pc \in After(s)
        BY <4>2, <4>4 DEF Recorded, Fine
      <4>. QED
        BY <4>1, <4>3, <4>4
    <3>. QED
      BY <3>1, <3>2 DEF Recorded
  <2>3. Routes'
    OBVIOUS
  <2>4. Returned'
    BY DEF Recorded, Returned, After, Stages, Fine, Clean, FrontEnd, Outcomes, Built
  <2>5. Stores'
    BY BothStores DEF Stores, Kinds, Entered, Left
  <2>6. NoCodeFromBadProgram'
    BY DEF NoCodeFromBadProgram, Recorded, Returned, After, Stages, Fine, Clean, FrontEnd,
           Outcomes, Artifacts
  <2>. QED
    BY <2>1, <2>2, <2>3, <2>4, <2>5, <2>6 DEF NeverPanics
<1>11. CASE checked
  <2>. USE <1>11 DEF checked, Return
  <2>1. Types'
    OBVIOUS
  <2>2. Recorded'
    BY DEF Recorded, After, Stages, Fine, Clean, FrontEnd, Outcomes
  <2>3. Routes'
    OBVIOUS
  <2>4. Returned'
    BY DEF Recorded, Returned, After, Stages, Fine, Clean, FrontEnd, Outcomes, Built
  <2>5. Stores'
    BY BothStores DEF Stores, Kinds, Entered, Left
  <2>6. NoCodeFromBadProgram'
    BY DEF NoCodeFromBadProgram, Recorded, Returned, After, Stages, Fine, Clean, FrontEnd,
           Outcomes, Artifacts
  <2>. QED
    BY <2>1, <2>2, <2>3, <2>4, <2>5, <2>6 DEF NeverPanics
<1>12. CASE leave_hir
  <2>. USE <1>12 DEF leave_hir
  <2>1. Types'
    OBVIOUS
  <2>2. Recorded'
    BY DEF Recorded, After, Stages, Fine, Clean, FrontEnd, Outcomes
  <2>3. Routes'
    OBVIOUS
  <2>4. Returned'
    BY DEF Recorded, Returned, After, Stages, Fine, Clean, FrontEnd, Outcomes, Built
  <2>5. Stores'
    BY BothStores DEF Stores, Kinds, Entered, Left
  <2>6. NoCodeFromBadProgram'
    BY DEF NoCodeFromBadProgram, Recorded, Returned, After, Stages, Fine, Clean, FrontEnd,
           Outcomes, Artifacts
  <2>. QED
    BY <2>1, <2>2, <2>3, <2>4, <2>5, <2>6 DEF NeverPanics
<1>13. CASE dump_mir_dot
  <2>. USE <1>13 DEF dump_mir_dot, Return
  <2>1. Types'
    OBVIOUS
  <2>2. Recorded'
    BY DEF Recorded, After, Stages, Fine, Clean, FrontEnd, Outcomes
  <2>3. Routes'
    OBVIOUS
  <2>4. Returned'
    BY DEF Recorded, Returned, After, Stages, Fine, Clean, FrontEnd, Outcomes, Built
  <2>5. Stores'
    BY BothStores DEF Stores, Kinds, Entered, Left
  <2>6. NoCodeFromBadProgram'
    BY DEF NoCodeFromBadProgram, Recorded, Returned, After, Stages, Fine, Clean, FrontEnd,
           Outcomes, Artifacts
  <2>. QED
    BY <2>1, <2>2, <2>3, <2>4, <2>5, <2>6 DEF NeverPanics
<1>14. CASE codegen
  <2>. USE <1>14 DEF codegen, Stage, Return, Reports
  <2>1. Types'
    OBVIOUS
  <2>2. Recorded'
    BY DEF Recorded, After, Stages, Fine, Clean, FrontEnd, Outcomes
  <2>3. Routes'
    OBVIOUS
  <2>4. Returned'
    BY DEF Recorded, Returned, After, Stages, Fine, Clean, FrontEnd, Outcomes, Built
  <2>5. Stores'
    BY BothStores DEF Stores, Kinds, Entered, Left
  <2>6. NoCodeFromBadProgram'
    BY DEF NoCodeFromBadProgram, Recorded, Returned, After, Stages, Fine, Clean, FrontEnd,
           Outcomes, Artifacts
  <2>. QED
    BY <2>1, <2>2, <2>3, <2>4, <2>5, <2>6 DEF NeverPanics
<1>15. CASE dump_llvm_ir
  <2>. USE <1>15 DEF dump_llvm_ir, Return, Dump
  <2>1. Types'
    OBVIOUS
  <2>2. Recorded'
    BY DEF Recorded, After, Stages, Fine, Clean, FrontEnd, Outcomes
  <2>3. Routes'
    OBVIOUS
  <2>4. Returned'
    BY DEF Recorded, Returned, After, Stages, Fine, Clean, FrontEnd, Outcomes, Built
  <2>5. Stores'
    BY BothStores DEF Stores, Kinds, Entered, Left
  <2>6. NoCodeFromBadProgram'
    BY DEF NoCodeFromBadProgram, Recorded, Returned, After, Stages, Fine, Clean, FrontEnd,
           Outcomes, Artifacts
  <2>. QED
    BY <2>1, <2>2, <2>3, <2>4, <2>5, <2>6 DEF NeverPanics
<1>16. CASE dump_asm
  <2>. USE <1>16 DEF dump_asm, Return, Dump
  <2>1. Types'
    OBVIOUS
  <2>2. Recorded'
    BY DEF Recorded, After, Stages, Fine, Clean, FrontEnd, Outcomes
  <2>3. Routes'
    OBVIOUS
  <2>4. Returned'
    BY DEF Recorded, Returned, After, Stages, Fine, Clean, FrontEnd, Outcomes, Built
  <2>5. Stores'
    BY BothStores DEF Stores, Kinds, Entered, Left
  <2>6. NoCodeFromBadProgram'
    BY DEF NoCodeFromBadProgram, Recorded, Returned, After, Stages, Fine, Clean, FrontEnd,
           Outcomes, Artifacts
  <2>. QED
    BY <2>1, <2>2, <2>3, <2>4, <2>5, <2>6 DEF NeverPanics
<1>17. CASE emit_obj
  <2>. USE <1>17 DEF emit_obj, Stage, Return, Reports
  <2>1. Types'
    OBVIOUS
  <2>2. Recorded'
    BY DEF Recorded, After, Stages, Fine, Clean, FrontEnd, Outcomes
  <2>3. Routes'
    OBVIOUS
  <2>4. Returned'
    BY DEF Recorded, Returned, After, Stages, Fine, Clean, FrontEnd, Outcomes, Built
  <2>5. Stores'
    BY BothStores DEF Stores, Kinds, Entered, Left
  <2>6. NoCodeFromBadProgram'
    BY DEF NoCodeFromBadProgram, Recorded, Returned, After, Stages, Fine, Clean, FrontEnd,
           Outcomes, Artifacts
  <2>. QED
    BY <2>1, <2>2, <2>3, <2>4, <2>5, <2>6 DEF NeverPanics
<1>18. CASE show_obj
  <2>. USE <1>18 DEF show_obj, Return
  <2>1. Types'
    OBVIOUS
  <2>2. Recorded'
    BY DEF Recorded, After, Stages, Fine, Clean, FrontEnd, Outcomes
  <2>3. Routes'
    OBVIOUS
  <2>4. Returned'
    BY DEF Recorded, Returned, After, Stages, Fine, Clean, FrontEnd, Outcomes, Built
  <2>5. Stores'
    BY BothStores DEF Stores, Kinds, Entered, Left
  <2>6. NoCodeFromBadProgram'
    BY DEF NoCodeFromBadProgram, Recorded, Returned, After, Stages, Fine, Clean, FrontEnd,
           Outcomes, Artifacts
  <2>. QED
    BY <2>1, <2>2, <2>3, <2>4, <2>5, <2>6 DEF NeverPanics
<1>19. CASE link_binary
  <2>. USE <1>19 DEF link_binary, Return
  <2>1. Types'
    OBVIOUS
  <2>2. Recorded'
    BY DEF Recorded, After, Stages, Fine, Clean, FrontEnd, Outcomes
  <2>3. Routes'
    OBVIOUS
  <2>4. Returned'
    BY DEF Recorded, Returned, After, Stages, Fine, Clean, FrontEnd, Outcomes, Built
  <2>5. Stores'
    BY BothStores DEF Stores, Kinds, Entered, Left
  <2>6. NoCodeFromBadProgram'
    BY DEF NoCodeFromBadProgram, Recorded, Returned, After, Stages, Fine, Clean, FrontEnd,
           Outcomes, Artifacts
  <2>. QED
    BY <2>1, <2>2, <2>3, <2>4, <2>5, <2>6 DEF NeverPanics
<1>20. CASE leave_mir
  <2>. USE <1>20 DEF leave_mir
  <2>1. Types'
    OBVIOUS
  <2>2. Recorded'
    BY DEF Recorded, After, Stages, Fine, Clean, FrontEnd, Outcomes
  <2>3. Routes'
    OBVIOUS
  <2>4. Returned'
    BY DEF Recorded, Returned, After, Stages, Fine, Clean, FrontEnd, Outcomes, Built
  <2>5. Stores'
    BY BothStores DEF Stores, Kinds, Entered, Left
  <2>6. NoCodeFromBadProgram'
    BY DEF NoCodeFromBadProgram, Recorded, Returned, After, Stages, Fine, Clean, FrontEnd,
           Outcomes, Artifacts
  <2>. QED
    BY <2>1, <2>2, <2>3, <2>4, <2>5, <2>6 DEF NeverPanics
<1>21. CASE deliver
  <2>. USE <1>21 DEF deliver
  <2>1. Types'
    OBVIOUS
  <2>2. Recorded'
    BY DEF Recorded, After, Stages, Fine, Clean, FrontEnd, Outcomes
  <2>3. Routes'
    OBVIOUS
  <2>4. Returned'
    BY DEF Recorded, Returned, After, Stages, Fine, Clean, FrontEnd, Outcomes, Built
  <2>5. Stores'
    BY BothStores DEF Stores, Kinds, Entered, Left
  <2>6. NoCodeFromBadProgram'
    BY DEF NoCodeFromBadProgram, Recorded, Returned, After, Stages, Fine, Clean, FrontEnd,
           Outcomes, Artifacts, Delivery, ExitsOf
  <2>7. NeverPanics'
    BY DEF Returned, ExitsOf, NeverPanics
  <2>. QED
    BY <2>1, <2>2, <2>3, <2>4, <2>5, <2>6, <2>7
<1>22. CASE UNCHANGED vars
  BY <1>22 DEF vars, Recorded, Returned, Stores, NoCodeFromBadProgram, NeverPanics, Fine, Clean,
              Built
<1>. QED
  BY <1>1, <1>2, <1>3, <1>4, <1>5, <1>6, <1>7, <1>8, <1>9, <1>10, <1>11, <1>12, <1>13, <1>14, <1>15, <1>16, <1>17, <1>18, <1>19, <1>20, <1>21, <1>22 DEF Next, Stopped

-----------------------------------------------------------------------------
\* What the invariant gives: the verdict on a finished compilation, and the
\* stores that the next step reads.
LEMMA InvDecides == Inv => VerdictDecides
<1>. SUFFICES ASSUME Inv PROVE VerdictDecides
  OBVIOUS
<1>1. CheckAgreesWithBuild
  BY DEF Inv, Types, Routes, Returned, Built, Over, CheckAgreesWithBuild
<1>. QED
  BY <1>1 DEF Inv, VerdictDecides

LEMMA InvInScope == Inv => HandlesInScope
<1>. SUFFICES ASSUME Inv PROVE HandlesInScope
  OBVIOUS
<1>1. ASSUME NEW k \in Kinds, k \in Reads(pc) PROVE Readable(k)
  BY <1>1 DEF Inv, Stores, Kinds, Reads, Readable, InHir, InMir, Generating
<1>2. Reads(pc) \subseteq Kinds
  BY DEF Reads, Kinds
<1>3. pc = "done" => \A k \in Kinds : tls[k] = << >>
  BY DEF Inv, Stores, Kinds, InHir, InMir, Generating
<1>. QED
  BY <1>1, <1>2, <1>3 DEF HandlesInScope

\* Whatever each stage reports or fails with, code comes only from a package
\* that no stage before code generation has anything against, and a check
\* comes to the verdict a build comes to.
THEOREM VerdictCorrect == Spec => []VerdictDecides
<1>. QED
  BY InitInv, StepInv, InvDecides, PTL DEF Spec

\* Every handle a stage dereferences is in a store that is current and not
\* reset, and no store is left current by a compilation that is over.
THEOREM HandlesAlwaysInScope == Spec => []HandlesInScope
<1>. QED
  BY InitInv, StepInv, InvInScope, PTL DEF Spec

\* No command that needs the program is handed a compilation without one.
THEOREM NeverPanicsAtAll == Spec => []NeverPanics
<1>. QED
  BY InitInv, StepInv, PTL DEF Spec, Inv
=============================================================================
