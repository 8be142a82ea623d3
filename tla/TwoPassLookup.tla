---------------------------- MODULE TwoPassLookup ----------------------------
(***************************************************************************)
(* What Variable_Analyzer is meant to compute.  The comment at the head of *)
(* variable-analyzer.cpp (22-98) explains that its one pass stands for the *)
(* two passes of a textbook linter: find every declaration, then bind each *)
(* use to the innermost scope that declares its name.  This module defines *)
(* that binding on the whole program, where position and nesting are all   *)
(* there is to know, and states what the one pass must agree on.           *)
(***************************************************************************)
EXTENDS VariableAnalyzer

Positions == DOMAIN program
Uses      == {u \in Positions :
                 /\ program[u].visit = "use" /\ program[u].kind # "predicate"
                 /\ program[u].kind = "delete" => corpus.allowDeletingVariables}

\* A scope is named by the position which opened it, 0 for the module.
ScopeKind(s) == IF s = 0 THEN "module" ELSE program[s].kind

Declarations ==
    {d \in Positions : \/ program[d].visit = "declare"
                       \/ program[d].visit = "body" /\ program[d].name # ""}

\* The scopes a position lies in, each with the place of the position in
\* it: the position itself, or the inner scope which holds it.
Nesting[p \in Positions] ==
    {[scope |-> program[p].in, place |-> p]}
    \cup (IF program[p].in = 0 THEN {} ELSE Nesting[program[p].in])

Holds(s, p) == \E n \in Nesting[p] : n.scope = s
PlaceIn(s, p) == (CHOOSE n \in Nesting[p] : n.scope = s).place

\* p is in the head of function s: its parameters and their defaults.
InHead(s, p) ==
    /\ ScopeKind(s) \in {"function", "named_function"}
    /\ \A b \in Positions : program[b].visit = "body" /\ program[b].in = s
                            => PlaceIn(s, p) < b

\* The scopes strictly between position p and an outer scope s.
Between(s, p) ==
    {n.scope : n \in {m \in Nesting[p] : m.scope > s}}

\* d is a variable of scope s: declared there, or hoisted to it.
BoundIn(s, d) ==
    /\ Holds(s, d)
    /\ \/ program[d].in = s
       \/ /\ program[d].kind \in Hoisted
          /\ \A t \in Between(s, d) : ScopeKind(t) \in Leaky

Explains(d, u) ==
    /\ program[d].name = program[u].name
    /\ Matches(NamespaceOf(program[u].kind), program[d].kind)

\* The declarations of scope s which a use sees.  What the head of a
\* function uses cannot see what its body declares.
Visible(s, u) ==
    {d \in Declarations :
        /\ BoundIn(s, d) /\ Explains(d, u)
        /\ InHead(s, u) => InHead(s, d)}

\* A function's own variables: its name and "arguments".
Intrinsic(s, u) ==
    \/ program[u].name = "arguments" /\ ScopeKind(s) \in Deferred
    \/ ScopeKind(s) = "named_function" /\ program[s].name = program[u].name

\* Anything may be declared in s by eval: it runs in s, or in a block of s.
RunsEval(s, u) ==
    /\ corpus.evalCanDeclareVariables
    /\ \E e \in Uses :
        /\ program[e].name = "eval" /\ program[e].kind # "assignment"
        /\ Holds(s, e)
        /\ \A t \in Between(s, e) : ScopeKind(t) \notin Deferred \cup Opaque
        /\ InHead(s, u) => InHead(s, e)

\* The scope that settles use u: the innermost one that explains it or
\* hides what is outside; 0, the module, if there is none.
Settles(s, u) ==
    \/ Visible(s, u) # {} \/ Intrinsic(s, u) \/ RunsEval(s, u)
    \/ ScopeKind(s) \in Opaque

Settler(u) ==
    LET all == {n.scope : n \in Nesting[u]}
        can == {s \in all : Settles(s, u)}
    IN  IF can = {} THEN 0 ELSE CHOOSE s \in can : \A t \in can : t <= s

Binding(u) ==
    LET seen == Visible(Settler(u), u)
    IN  IF seen = {} THEN 0 ELSE CHOOSE d \in seen : TRUE

\* u runs after d is initialised, as far as one can tell: u is textually
\* later, or in a function which may be called later.
RunsBefore(u, d) ==
    /\ u < d
    /\ \A t \in Between(Settler(u), u) : ScopeKind(t) \notin Deferred

BoundDiags(u, d) ==
    LET use == program[u].kind
        kind == program[d].kind
        early == RunsBefore(u, d) /\ kind \in PseudoHoisted
    IN  (IF use = "assignment" THEN AssignmentDiags(kind, FALSE, early) ELSE {})
        \cup (IF use = "delete" THEN {"Redundant_Delete_Statement_On_Variable"} ELSE {})
        \cup (IF \/ use \in {"use", "typeof"} /\ early
                 \/ use = "type" /\ kind = "generic_parameter" /\ RunsBefore(u, d)
              THEN {"Variable_Used_Before_Declaration"} ELSE {})
        \cup (IF /\ use = "use" /\ kind = "function" /\ RunsBefore(u, d)
                 /\ program[d].in # Settler(u)
              THEN {"Function_Call_Before_Declaration_In_Block_Scope"} ELSE {})

\* No scope explains the use or hides the globals.
Free(u) == ~Settles(Settler(u), u)

FreeDiags(u) ==
    LET global == FindGlobal(program[u].name, NamespaceOf(program[u].kind))
    IN  IF Found(global)
        THEN IF program[u].kind = "assignment"
             THEN AssignmentDiags(global.kind, TRUE, FALSE) ELSE {}
        ELSE IF \E t \in Uses : /\ program[t].kind = "typeof" /\ Free(t)
                                /\ program[t].name = program[u].name
        THEN {} ELSE UndeclaredDiags(program[u].kind)

\* The diagnostics about how a use is bound.
BindingDiags ==
    {"Assignment_To_Const_Global_Variable", "Assignment_To_Const_Variable",
     "Assignment_To_Const_Variable_Before_Its_Declaration",
     "Assignment_To_Imported_Variable", "Assignment_Before_Variable_Declaration",
     "Redundant_Delete_Statement_On_Variable", "Variable_Used_Before_Declaration",
     "Function_Call_Before_Declaration_In_Block_Scope",
     "Assignment_To_Undeclared_Variable", "Use_Of_Undeclared_Type",
     "Use_Of_Undeclared_Variable"} \cup Faults

TwoPassReports ==
    UNION {LET d == Binding(u)
           IN  IF d # 0 THEN {Report(diag, u, d) : diag \in BoundDiags(u, d)}
               ELSE IF Free(u) THEN {Report(diag, u, 0) : diag \in FreeDiags(u)}
               ELSE {} : u \in Uses}

-----------------------------------------------------------------------------
\* Two declarations whose order changes nothing about a use.
Interchangeable(d, e) ==
    {program[d].kind, program[e].kind} \subseteq {"var"} \cup Parameters

\* Each name means one thing in each scope.
Unambiguous ==
    \A u \in Uses : LET seen == Visible(Settler(u), u)
                    IN  \A d, e \in seen : d = e \/ Interchangeable(d, e)

(***************************************************************************)
(* The one pass agrees with the two: at the end of a module the reports    *)
(* about uses are the ones of the textbook binding, no more and no less,   *)
(* however the declarations and uses were interleaved, hoisted and nested. *)
(***************************************************************************)
DiagnosticsMatchTwoPass ==
    status = "done" /\ Unambiguous
        => {r \in reports : r.diag \in BindingDiags} = TwoPassReports

Lexical == {"class", "const", "let"}

SameNameIn(s, d) == {e \in Declarations : BoundIn(s, e) /\ program[e].name = program[d].name}

HoistedFunction(s, d) == program[d].kind = "function" /\ program[d].in # s

(***************************************************************************)
(* docs/errors/E0034.md: a variable declared with class, const or let can  *)
(* be declared only once in a scope.  Every second declaration, before or  *)
(* after, in the scope or hoisted to it, is reported.                      *)
(***************************************************************************)
DeclaredOnce(s, d, e) ==
    /\ d # e /\ e \in SameNameIn(s, d) /\ program[d].kind \in Lexical
    => \E r \in reports : r.diag = "Redeclaration_Of_Variable" /\ r.at \in {d, e}

\* ... as long as no function comes from a block: it may be a mere value
\* of the block, and is let past.
DuplicatesAreReported ==
    status = "done" =>
        \A d \in Declarations :
            LET s == program[d].in
            IN  (\A f \in SameNameIn(s, d) :
                    /\ ~HoistedFunction(s, f)
                    /\ program[f].kind \in Lexical \cup Hoisted \cup Parameters)
                => \A e \in Declarations : DeclaredOnce(s, d, e)

\* A variable which is used or assigned.
IsUsed(d) == \E u \in Uses : program[u].kind \in {"use", "assignment"} /\ Binding(u) = d

(***************************************************************************)
(* docs/errors/E0196.md: a const or let of a block which is initialised    *)
(* with "=", never used, and named like a const, let or var of the scope   *)
(* around, is reported.                                                    *)
(***************************************************************************)
UnusedShadowingIsReported ==
    status = "done" /\ Unambiguous =>
        \A d, outer \in Declarations :
            LET s == program[d].in IN
            /\ s # 0 /\ ScopeKind(s) \in Leaky
            /\ program[d].kind \in {"const", "let"}
            /\ "initialized_with_equals" \in program[d].flags
            /\ \A u \in Uses : program[u].name = "eval" => ~Holds(s, u)
            /\ SameNameIn(s, d) = {d} /\ ~IsUsed(d)
            /\ SameNameIn(program[s].in, d) = {outer}
            /\ program[outer].kind \in {"const", "let", "var"} /\ outer < s
            => Report("Unused_Variable_Shadows", d, outer) \in reports

=============================================================================
