--------------------------- MODULE VariableAnalyzer ---------------------------
(***************************************************************************)
(* Variable lookup: fe/variable-analyzer.{h,cpp}.  The parser walks a      *)
(* program once and tells a Variable_Analyzer what it meets, one visit at  *)
(* a time: a scope opens or closes, a variable is declared, a variable is  *)
(* used.  The analyzer never sees the program again, so a use which no     *)
(* declaration explains yet is remembered in its scope until a later       *)
(* declaration, an enclosing scope or the end of the module settles it.    *)
(*                                                                         *)
(* There is one action per visit.  The programs are all the sequences of   *)
(* visits the parser can make, up to a bound.  A source span identifies a  *)
(* declaration or a use: here it is "at", the position of the visit in     *)
(* "program", which is a history variable, like "in", the position of the  *)
(* visit that opened a scope.                                              *)
(***************************************************************************)
EXTENDS Integers, Sequences, FiniteSets, SequencesExt

CONSTANTS
    Corpora,  \* the families of programs: which scopes, declarations and
              \* uses they have, the linter options, and the bounds
              \* "visits" (scopes, declarations and uses) and "depth"
    Globals   \* the global variables, a function from their names

RuntimeKinds == {"arrow_parameter", "catch", "class", "const", "enum",
    "function", "function_parameter", "function_type_parameter", "import",
    "import_alias", "index_signature_parameter", "let", "namespace", "var"}

TypeKinds == {"class", "enum", "generic_parameter", "import", "import_alias",
    "import_type", "infer_type", "interface", "namespace", "type_alias"}

RuntimeUses == {"delete", "export", "typeof", "assignment", "use"}
TypeUses == {"export", "type"}

\* The uses are those of the parser, and there is room for the module scope.
ASSUME CorporaAssumption ==
    \A c \in Corpora :
        /\ c.visits \in Nat /\ c.depth \in Nat \ {0}
        /\ \A u \in c.uses : u.use \in RuntimeUses \cup TypeUses \cup {"predicate"}

\* Variables which exist from the start of their scope, but not usably so.
PseudoHoisted == {"class", "const", "let"}

Hoisted == {"function", "var"}
Parameters == {"arrow_parameter", "function_parameter",
               "function_type_parameter", "index_signature_parameter"}

VARIABLES
    corpus,   \* the family this program belongs to
    scopes,   \* the stack of scopes, the module scope first
    reports,  \* the diagnostics reported so far
    status,   \* "analyzing", "done" or "crashed"
    program   \* history: the visits so far

vars == <<corpus, scopes, reports, status, program>>

-----------------------------------------------------------------------------
(* Declared variables and the sets they are looked up in.                  *)

NoVariable == [at |-> 0, name |-> "", kind |-> "", flags |-> {},
               descendant |-> FALSE, used |-> FALSE]

Matches(namespace, kind) ==
    /\ namespace = "runtime" => kind \in RuntimeKinds
    /\ namespace = "type" => kind \in TypeKinds

\* find, find_runtime and find_type: the first declaration of the name.
Find(declared, name, namespace) ==
    LET i == SelectInSeq(declared, LAMBDA d : d.name = name
                                           /\ Matches(namespace, d.kind))
    IN  IF i = 0 THEN NoVariable ELSE declared[i]

Found(d) == d # NoVariable

NamespaceOf(use) ==
    IF use = "type" THEN "type" ELSE IF use = "export" THEN "any" ELSE "runtime"

MarkUsed(declared, ats) ==
    [i \in DOMAIN declared |->
        [declared[i] EXCEPT !.used = @ \/ declared[i].at \in ats]]

\* The global variable of this name: as a declaration at no position.
FindGlobal(name, namespace) ==
    IF name \in DOMAIN Globals /\ ~(namespace = "runtime" /\ Globals[name].typeOnly)
    THEN [NoVariable EXCEPT !.name = name,
             !.kind = IF Globals[name].writable \/ Globals[name].typeOnly
                      THEN "let" ELSE "const"]
    ELSE NoVariable

NewScope(kind, in, functionName) ==
    [kind |-> kind, in |-> in, body |-> FALSE, functionName |-> functionName,
     declared |-> <<>>, uses |-> {}, usesBelow |-> {},
     evalHere |-> FALSE, evalBelow |-> FALSE]

-----------------------------------------------------------------------------
(* Diagnostics.  A report names what it is about and the declaration it    *)
(* blames, 0 for none.  QLJS_UNREACHABLE and QLJS_UNIMPLEMENTED are        *)
(* reports too, which end the analysis.                                    *)

Faults == {"unreachable", "unimplemented"}

Report(diag, at, of) == [diag |-> diag, at |-> at, of |-> of]

\* report_error_if_assignment_is_illegal.
AssignmentDiags(kind, isGlobal, before) ==
    IF kind = "const" /\ isGlobal THEN {"Assignment_To_Const_Global_Variable"}
    ELSE IF kind = "const" /\ before
    THEN {"Assignment_To_Const_Variable_Before_Its_Declaration"}
    ELSE IF kind = "const" THEN {"Assignment_To_Const_Variable"}
    ELSE IF kind = "import" THEN {"Assignment_To_Imported_Variable"}
    ELSE IF kind \in Parameters \cup {"catch", "class", "function", "let", "var"}
    THEN IF before THEN {"Assignment_Before_Variable_Declaration"} ELSE {}
    ELSE IF kind = "interface" THEN {"unreachable"} ELSE {"unimplemented"}

\* report_errors_for_variable_use; a global variable is at no position.
UseDiags(u, d, before) ==
    (IF u.use = "assignment" THEN AssignmentDiags(d.kind, d.at = 0, before) ELSE {})
    \cup (IF u.use = "delete" /\ d.at # 0
          THEN {"Redundant_Delete_Statement_On_Variable"} ELSE {})

Blame(diags, u, d) == {Report(diag, u.at, d.at) : diag \in diags}

\* The redeclarations which are fine whatever else is known: <<new, old>>.
MergingKinds ==
    ({"const", "let"} \X {"namespace", "type_alias"})
    \cup ({"type_alias"} \X {"const", "let", "var"})
    \cup ({"enum"} \X {"catch", "enum", "namespace"})
    \cup ({"function"} \X ({"function", "var"} \cup Parameters))
    \cup ({"var"} \X ({"catch", "function", "namespace", "type_alias", "var"}
                      \cup Parameters))
    \cup (Parameters \X ({"function"} \cup Parameters))
    \cup ({"function_parameter"} \X {"generic_parameter"})
    \cup ({"class", "import"} \X {"interface"})
    \cup ({"interface"} \X {"class", "import", "interface"})
    \cup ({"namespace"} \X {"class", "const", "enum", "function", "let",
                            "namespace", "var"})

\* A mutant: any function may be declared over, not only one of a block.
RedeclarationOk_AnyFunction(new, old) ==
    <<new.kind, old.kind>> \in MergingKinds \/ old.kind = "function"

RedeclarationOk(new, old) ==
    \/ <<new.kind, old.kind>> \in MergingKinds
    \/ new.kind = "interface" /\ old.kind \notin TypeKinds
    \/ old.kind = "interface" /\ new.kind \notin TypeKinds
    \/ /\ old.kind = "namespace" /\ new.kind \in {"class", "function"}
       /\ "non_empty_namespace" \notin old.flags
    \/ new.kind = "function" /\ new.descendant
    \/ old.kind = "function" /\ old.descendant

\* report_error_if_variable_declaration_conflicts.  "old" is the first
\* declaration of the name only.
ConflictReports(new, old) ==
    IF ~Found(old) THEN {}
    ELSE IF old.kind \in {"import_alias", "import_type", "infer_type"}
    THEN {Report("unimplemented", new.at, old.at)}
    ELSE IF RedeclarationOk(new, old) THEN {}
    ELSE {Report(IF old.at = 0 THEN "Redeclaration_Of_Global_Variable"
                 ELSE "Redeclaration_Of_Variable", new.at, old.at)}

-----------------------------------------------------------------------------
(* A declaration settles the uses which were waiting for it.               *)

\* A use in the scope itself, before the declaration.
EarlyUseDiags(u, d) ==
    UseDiags(u, d, d.kind \in PseudoHoisted)
    \cup (IF d.kind = "function" /\ d.descendant /\ u.use = "use"
          THEN {"Function_Call_Before_Declaration_In_Block_Scope"} ELSE {})
    \cup (IF \/ u.use \in {"use", "typeof"} /\ d.kind \in PseudoHoisted
             \/ u.use = "type" /\ d.kind = "generic_parameter"
          THEN {"Variable_Used_Before_Declaration"} ELSE {})

\* A mutant: the uses of an inner function are treated like the scope's own.
LateUseDiags_Early(u, d) == EarlyUseDiags(u, d)

\* A use in a function inside the scope, which runs later.
LateUseDiags(u, d) ==
    IF d.kind \in RuntimeKinds THEN UseDiags(u, d, FALSE) ELSE {}

SettledEarly(scope, d) == {u \in scope.uses : u.name = d.name}

SettledLate(scope, d) ==
    {u \in scope.usesBelow :
        /\ u.name = d.name
        /\ \/ d.kind \in RuntimeKinds /\ u.use \in RuntimeUses
           \/ d.kind \in TypeKinds /\ u.use \in TypeUses}

\* declare_variable: the scope afterwards, and the reports.
DeclareVariable(scope, d) ==
    LET early == SettledEarly(scope, d)
        late  == SettledLate(scope, d)
        used  == \/ early # {}
                 \/ \E u \in late : \/ u.use \in {"delete", "typeof", "use"}
                                    \/ u.use = "assignment" /\ d.kind \in RuntimeKinds
    IN  [scope |-> [scope EXCEPT
             !.declared = Append(@, [d EXCEPT !.used = used]),
             !.uses = @ \ early,
             !.usesBelow = @ \ late,
             !.evalHere = @ /\ ~(d.name = "eval" /\ d.kind \in Hoisted)],
         reports |-> ConflictReports(d, Find(scope.declared, d.name, "any"))
             \cup UNION {Blame(EarlyUseDiags(u, d), u, d) : u \in early}
             \cup UNION {Blame(LateUseDiags(u, d), u, d) : u \in late}]

-----------------------------------------------------------------------------
(* The end of a scope hands what is left to the scope around it.           *)

WaitingIn(scope) == scope.uses \cup scope.usesBelow

\* propagate_variable_uses_to_parent_scope.  look[u] is the variable of the
\* parent which use u finds.  The parent's variables come before a function
\* expression's own name.
PropagateUses(child, parent, look, beforeOk, consumeArguments) ==
    LET dropped == corpus.evalCanDeclareVariables /\ child.evalHere
        direct  == IF dropped THEN {} ELSE child.uses
        below   == IF dropped THEN {} ELSE child.usesBelow
        found   == {u \in direct \cup below : Found(look[u])}
        marked  == {look[u].at : u \in found \cap direct}
        ours(u) == child.functionName = u.name
        passed  == {u \in direct \ found :
                       ~(consumeArguments /\ u.name = "arguments") /\ ~ours(u)}
        lower   == {u \in below \ found : ~ours(u)}
    IN  [scope |-> [parent EXCEPT
             !.declared = MarkUsed(@, marked),
             !.uses = IF beforeOk THEN @ ELSE @ \cup passed,
             !.usesBelow = @ \cup lower \cup (IF beforeOk THEN passed ELSE {}),
             !.evalHere = @ \/ (~beforeOk /\ child.evalHere),
             !.evalBelow = @ \/ child.evalHere \/ child.evalBelow],
         reports |-> UNION {Blame(UseDiags(u, look[u], FALSE), u, look[u]) : u \in found}]

UsesToParent(child, parent, beforeOk, consumeArguments) ==
    PropagateUses(child, parent,
        [u \in WaitingIn(child) |-> Find(parent.declared, u.name, NamespaceOf(u.use))],
        beforeOk, consumeArguments)

\* The variables which one may have meant to assign to.
\* A mutant: var is forgotten.
Assignable_NotVar == {"const", "let"}

Assignable == {"const", "let", "var"}

\* An unused "let x = ..." which was perhaps meant to assign to an outer x.
ShadowReports(child, parent, d) ==
    LET outer == Find(parent.declared, d.name, "any")
    IN  IF /\ "initialized_with_equals" \in d.flags /\ ~d.used
           /\ d.kind \in {"const", "let"}
           /\ ~child.evalHere /\ ~child.evalBelow
           /\ outer.kind \in Assignable
        THEN {Report("Unused_Variable_Shadows", d.at, outer.at)} ELSE {}

\* One variable of a scope that ends.  Hoisted ones become the parent's.
HandDeclaration(child, acc, d) ==
    LET next == IF d.kind \in Hoisted
                THEN DeclareVariable(acc.scope, [d EXCEPT !.descendant = TRUE])
                ELSE [scope |-> acc.scope, reports |-> {}]
    IN  [scope |-> next.scope,
         reports |-> acc.reports \cup next.reports \cup ShadowReports(child, next.scope, d)]

\* propagate_variable_declarations_to_parent_scope.
DeclarationsToParent(child, parent) ==
    LET handed[i \in 0 .. Len(child.declared)] ==
            IF i = 0 THEN [scope |-> parent, reports |-> {}]
            ELSE HandDeclaration(child, handed[i - 1], child.declared[i])
    IN  handed[Len(child.declared)]

-----------------------------------------------------------------------------
(* The visits.                                                             *)

Top   == Last(scopes)
Under == scopes[Len(scopes) - 1]
Here  == Len(program) + 1   \* the position of the visit being made

\* What the parser lets a scope declare and open (fe/parse-*.cpp).
StatementKinds == {"class", "const", "enum", "function", "interface", "let",
                   "namespace", "type_alias", "var"}

Declarable(scope) ==
    CASE scope.kind = "module" ->
             StatementKinds \cup {"import", "import_alias", "import_type"}
      [] scope.kind = "namespace" -> StatementKinds \cup {"import_alias"}
      [] scope.kind = "block" -> StatementKinds \cup
             (IF scope.in = Len(program) THEN {"catch"} ELSE {})
      [] scope.kind = "with" -> {"var"}
      [] scope.kind = "for" -> {"const", "let", "var"}
      [] scope.kind \in {"function", "named_function"} ->
             IF scope.body THEN StatementKinds
             ELSE {"arrow_parameter", "function_parameter",
                   "function_type_parameter", "generic_parameter"}
      [] scope.kind \in {"class", "interface", "type_alias"} ->
             IF scope.body THEN {} ELSE {"generic_parameter"}
      [] scope.kind = "index_signature" -> {"index_signature_parameter"}
      [] scope.kind = "conditional_type" -> {"infer_type"}
      [] OTHER -> {}

Statements(scope) ==
    \/ scope.kind \in {"module", "namespace", "block", "with", "for"}
    \/ scope.kind \in {"function", "named_function"} /\ scope.body

Opens(scope, kind) ==
    Statements(scope) \/ kind \in {"function", "named_function", "class",
                                   "conditional_type", "index_signature"}

Init ==
    /\ corpus \in Corpora
    /\ scopes = <<NewScope("module", 0, "")>>
    /\ reports = {}
    /\ status = "analyzing"
    /\ program = <<>>

Visit(visit, name, kind, flags) ==
    /\ status = "analyzing"
    /\ Len(program) < corpus.visits
    /\ program' = Append(program, [visit |-> visit, name |-> name, kind |-> kind,
                                   flags |-> flags, in |-> Top.in])
    /\ UNCHANGED corpus

Say(new) ==
    /\ reports' = reports \cup new
    /\ status' = IF \E r \in new : r.diag \in Faults THEN "crashed" ELSE status

\* The top scope, or the top two, are replaced.
Become(scope) == scopes' = Append(Front(scopes), scope)

\* visit_enter_..._scope.
EnterScope(kind) ==
    /\ Opens(Top, kind)
    /\ Len(scopes) < corpus.depth
    /\ Visit("enter", "", kind, {})
    /\ scopes' = Append(scopes, NewScope(kind, Here, ""))
    /\ UNCHANGED <<reports, status>>

EnterNamedFunctionScope(name) ==
    /\ Opens(Top, "named_function")
    /\ Len(scopes) < corpus.depth
    /\ Visit("enter", name, "named_function", {})
    /\ scopes' = Append(scopes, NewScope("named_function", Here, name))
    /\ UNCHANGED <<reports, status>>

\* A mutant: the uses of the parameters stay, and see the body.
EnterFunctionScopeBody_KeepUses ==
    /\ Top.kind \in {"function", "named_function"} /\ ~Top.body
    /\ Visit("body", "", "", {})
    /\ Become([Top EXCEPT !.body = TRUE])
    /\ Say({})

\* The parameters are complete: what they used cannot see the body.
EnterFunctionScopeBody ==
    /\ Top.kind \in {"function", "named_function"} /\ ~Top.body
    /\ Visit("body", "", "", {})
    /\ LET up == UsesToParent(Top, Under, TRUE, TRUE)
           me == [Top EXCEPT !.body = TRUE, !.uses = {}, !.usesBelow = {}]
       IN  /\ scopes' = Front(Front(scopes)) \o <<up.scope, me>>
           /\ Say(up.reports)

Declaration(name, kind, flags) ==
    [NoVariable EXCEPT !.at = Here, !.name = name, !.kind = kind, !.flags = flags]

EnterClassScopeBody(name) ==
    /\ Top.kind = "class" /\ ~Top.body
    /\ Visit("body", name, "class", {})
    /\ LET me   == [Top EXCEPT !.body = TRUE]
           next == IF name = "" THEN [scope |-> me, reports |-> {}]
                   ELSE DeclareVariable(me, Declaration(name, "class", {}))
       IN  Become(next.scope) /\ Say(next.reports)

VisitVariableDeclaration(name, kind, flags) ==
    /\ kind \in Declarable(Top)
    /\ Visit("declare", name, kind, flags)
    /\ LET next == DeclareVariable(Top, Declaration(name, kind, flags))
       IN  Become(next.scope) /\ Say(next.reports)

\* The use is remembered: no declaration of the current scope explains it.
Remember(name, use) ==
    [Top EXCEPT !.uses = @ \cup {[name |-> name, use |-> use, at |-> Here]}]

VisitVariableAssignment(name) ==
    /\ Visit("use", name, "assignment", {})
    /\ LET var == Find(Top.declared, name, "runtime")
       IN  IF Found(var)
           THEN /\ Become([Top EXCEPT !.declared = MarkUsed(@, {var.at})])
                /\ Say(Blame(AssignmentDiags(var.kind, FALSE, FALSE),
                             [at |-> Here], var))
           ELSE Become(Remember(name, "assignment")) /\ Say({})

VisitVariableDeleteUse(name) ==
    /\ Visit("use", name, "delete", {})
    /\ LET var == Find(Top.declared, name, "runtime")
       IN  IF ~corpus.allowDeletingVariables
           THEN /\ Say({Report("TypeScript_Delete_Cannot_Delete_Variables", Here, 0)})
                /\ UNCHANGED scopes
           ELSE IF Found(var)
           THEN /\ Say({Report("Redundant_Delete_Statement_On_Variable", Here, var.at)})
                /\ UNCHANGED scopes
           ELSE Become(Remember(name, "delete")) /\ Say({})

VisitVariableTypePredicateUse(name) ==
    /\ Visit("use", name, "predicate", {})
    /\ UNCHANGED scopes
    /\ Say(IF Found(Find(Top.declared, name, "runtime")) THEN {}
           ELSE {Report("Use_Of_Undeclared_Parameter_In_Type_Predicate", Here, 0)})

\* visit_variable_use, ..._typeof_use, ..._type_use and ..._export_use.
VisitVariableUse(name, use) ==
    /\ use = "export" => Top.kind \in {"module", "namespace"}
    /\ Visit("use", name, use, {})
    /\ LET var == Find(Top.declared, name, NamespaceOf(use))
       IN  IF Found(var)
           THEN Become([Top EXCEPT !.declared = MarkUsed(@, {var.at})])
           ELSE Become([Remember(name, use) EXCEPT !.evalHere = @ \/ name = "eval"])
    /\ Say({})

\* The scopes whose uses are not looked up outside, those which allow a
\* use before the declaration outside, those whose "var"s are hoisted.
Opaque   == {"with", "enum", "namespace"}
Deferred == {"function", "named_function", "index_signature"}
Leaky    == {"block", "with", "for"}

\* visit_exit_..._scope.
ExitScope ==
    /\ status = "analyzing"
    /\ Len(scopes) > 1
    /\ LET late == Top.kind \in Deferred
           uses == IF Top.kind \in Opaque THEN [scope |-> Under, reports |-> {}]
                   ELSE UsesToParent(Top, Under, late, late)
           decl == IF Top.kind \in Leaky THEN DeclarationsToParent(Top, uses.scope)
                   ELSE [scope |-> uses.scope, reports |-> {}]
       IN  /\ scopes' = Append(Front(Front(scopes)), decl.scope)
           /\ Say(uses.reports \cup decl.reports)
    /\ UNCHANGED <<corpus, program>>

UndeclaredDiags(use) ==
    IF use = "assignment" THEN {"Assignment_To_Undeclared_Variable"}
    ELSE IF use = "type" THEN {"Use_Of_Undeclared_Type"}
    ELSE IF use \in {"export", "use"} THEN {"Use_Of_Undeclared_Variable"} ELSE {}

VisitEndOfModule ==
    /\ status = "analyzing"
    /\ Len(scopes) = 1
    /\ LET Global(d)  == FindGlobal(d.name, "any")
           fixed      == {i \in DOMAIN Top.declared :
                             /\ Found(Global(Top.declared[i]))
                             /\ ~Globals[Top.declared[i].name].shadowable}
           conflicts  == UNION {ConflictReports(Top.declared[i], Global(Top.declared[i]))
                                   : i \in fixed}
           look       == [u \in WaitingIn(Top) |-> FindGlobal(u.name, NamespaceOf(u.use))]
           up         == PropagateUses(Top, NewScope("global", 0, ""), look, FALSE, FALSE)
           left       == WaitingIn(up.scope)
           typeofs    == {u.name : u \in {v \in left : v.use = "typeof"}}
           undeclared == {u \in left : u.name \notin typeofs}
           new        == conflicts \cup up.reports
                         \cup UNION {Blame(UndeclaredDiags(u.use), u, NoVariable)
                                        : u \in undeclared}
       IN  /\ reports' = reports \cup new
           /\ status' = IF \E r \in new : r.diag \in Faults THEN "crashed" ELSE "done"
    /\ UNCHANGED <<corpus, scopes, program>>

Next ==
    \/ \E kind \in corpus.scopes : EnterScope(kind)
    \/ \E name \in corpus.functions : EnterNamedFunctionScope(name)
    \/ EnterFunctionScopeBody
    \/ \E name \in corpus.classes : EnterClassScopeBody(name)
    \/ \E d \in corpus.declarations : VisitVariableDeclaration(d.name, d.kind, d.flags)
    \/ \E u \in corpus.uses :
          \/ u.use = "assignment" /\ VisitVariableAssignment(u.name)
          \/ u.use = "delete" /\ VisitVariableDeleteUse(u.name)
          \/ u.use = "predicate" /\ VisitVariableTypePredicateUse(u.name)
          \/ /\ u.use \notin {"assignment", "delete", "predicate"}
             /\ VisitVariableUse(u.name, u.use)
    \/ ExitScope
    \/ VisitEndOfModule

Spec == Init /\ [][Next]_vars

-----------------------------------------------------------------------------
(* Every scope keeps well-formed variables and uses.                       *)
TypeOK ==
    /\ corpus \in Corpora
    /\ status \in {"analyzing", "done", "crashed"}
    /\ Len(scopes) \in 1..corpus.depth
    /\ Len(program) <= corpus.visits
    /\ \A i \in DOMAIN scopes :
          LET s == scopes[i] IN
          /\ {s.evalHere, s.evalBelow, s.body} \subseteq BOOLEAN
          /\ s.in \in 0..Len(program)
          /\ \A j \in DOMAIN s.declared :
                /\ s.declared[j].at \in 1..Len(program)
                /\ s.declared[j].kind \in RuntimeKinds \cup TypeKinds
                /\ s.declared[j].descendant => s.declared[j].kind \in {"function", "var"}
          /\ \A u \in s.uses \cup s.usesBelow :
                /\ u.at \in 1..Len(program)
                /\ u.use \in RuntimeUses \cup TypeUses
=============================================================================
