-------------------------- MODULE ExpressionVisits --------------------------
(***************************************************************************)
(* How the tree of an expression is told to the visitor once the parser    *)
(* knows what it is (src/quick-lint-js/fe/parse-expression.cpp and         *)
(* parse-statement.cpp): as an expression, whose names are used, as the    *)
(* target of an assignment, or as a pattern that declares its names.       *)
(***************************************************************************)
EXTENDS ParserState

RECURSIVE WithoutParen(_)
WithoutParen(ast) ==
    IF ast.kind = "Paren" THEN WithoutParen(ast.kids[1]) ELSE ast

\* The names that a program may use more than once are those of keywords.
IsSameVariable(p, lhs, rhs) ==
    /\ lhs.kind = "Variable" /\ rhs.kind = "Variable"
    /\ p.tokens[lhs.at] = p.tokens[rhs.at]
    /\ p.tokens[lhs.at] # "id"

RECURSIVE maybe_visit_assignment(_, _), MaybeVisitAssignments(_, _, _)
maybe_visit_assignment(ast, p) ==
    CASE ast.kind = "Array" -> MaybeVisitAssignments(ast.kids, 1, p)
      [] ast.kind = "Object" ->
             MaybeVisitAssignments([i \in DOMAIN ast.kids |-> ast.kids[i].value], 1, p)
      [] ast.kind = "Paren" -> maybe_visit_assignment(ast.kids[1], p)
      [] ast.kind = "Variable" -> Visit(p, "assign", ast.at)
      [] OTHER -> p
MaybeVisitAssignments(kids, i, p) ==
    IF i > Len(kids) THEN p
    ELSE MaybeVisitAssignments(kids, i + 1, maybe_visit_assignment(kids[i], p))

\* visit_expression: the context says whether a variable is used ("rhs") or
\* is the target of an assignment ("lhs"), which is visited last.
RECURSIVE visit_expression(_, _, _), VisitChildren(_, _, _, _),
          VisitEntries(_, _, _, _)
visit_assignment_expression(lhs, rhs, p) ==
    maybe_visit_assignment(lhs,
        visit_expression(rhs, visit_expression(lhs, p, "lhs"), "rhs"))
visit_expression(ast, p, context) ==
    LET First == ast.kids[1]
        Second == ast.kids[2]
    IN CASE ast.kind \in {"Invalid", "Missing", "Nothing", "Arrow_Function",
                          "Function", "Literal", "Yield_None"} -> p
         [] ast.kind \in {"Array", "Call", "Binary_Operator", "Conditional"} ->
                VisitChildren(ast.kids, 1, p, context)
         [] ast.kind = "Trailing_Comma" ->
                VisitChildren(ast.kids, 1,
                              Report(p, "Missing_Operand_For_Operator"), context)
         [] ast.kind = "Assignment" ->
                ReportIf(IsSameVariable(p, WithoutParen(First), WithoutParen(Second)),
                         visit_assignment_expression(First, Second, p),
                         "Variable_Assigned_To_Self_Is_Noop")
         [] ast.kind = "Compound_Assignment" ->
                maybe_visit_assignment(First,
                    visit_expression(Second,
                        visit_expression(First, p, "rhs"), "rhs"))
         [] ast.kind = "Spread" ->
                visit_expression(First,
                    ReportIf(First.kind = "Missing", p, "Spread_Must_Precede_Expression"),
                    context)
         [] ast.kind \in {"Await", "Unary_Operator", "Yield_Many", "Yield_One",
                          "Paren"} ->
                visit_expression(First, p, context)
         [] ast.kind = "Dot" -> visit_expression(First, p, "rhs")
         [] ast.kind = "Index" ->
                ReportIf(HasComma(Second),
                         VisitChildren(ast.kids, 1, p, "rhs"),
                         "Misleading_Comma_Operator_In_Index_Operation")
         [] ast.kind = "Object" -> VisitEntries(ast.kids, 1, p, context)
         [] ast.kind = "Optional" ->
                Report(visit_expression(First, p, context),
                       "Unexpected_Question_In_Expression")
         [] ast.kind = "Paren_Empty" ->
                Report(p, "Missing_Expression_Between_Parentheses")
         [] ast.kind \in {"RW_Unary_Prefix", "RW_Unary_Suffix"} ->
                maybe_visit_assignment(First, visit_expression(First, p, "rhs"))
         [] ast.kind = "Variable" ->
                IF context = "rhs" THEN Visit(p, "use", ast.at) ELSE p
VisitChildren(kids, i, p, context) ==
    IF i > Len(kids) THEN p
    ELSE VisitChildren(kids, i + 1, visit_expression(kids[i], p, context), context)
VisitEntries(kids, i, p, context) ==
    IF i > Len(kids) THEN p
    ELSE LET entry == kids[i]
             merged == IsMergedPropertyAndValueShorthand(entry)
             named == visit_expression(entry.property, p, "rhs")
         IN VisitEntries(kids, i + 1,
              CASE entry.init = Nothing -> visit_expression(entry.value, named, context)
                [] entry.init # Nothing /\ merged ->
                     visit_expression(entry.init,
                       visit_expression(entry.property,
                         Report(p, "Object_Literal_Default_In_Expression"), "rhs"),
                       context)
                [] entry.init # Nothing /\ ~merged ->
                     maybe_visit_assignment(entry.value,
                       visit_expression(entry.value,
                         visit_expression(entry.init, named, context), "lhs")),
              context)

-----------------------------------------------------------------------------
(* Patterns *)

RECURSIVE check_assignment_lhs(_, _)
check_assignment_lhs(ast, p) ==
    IF ast.kind \in {"Paren", "Optional"} THEN check_assignment_lhs(ast.kids[1], p)
    ELSE ReportIf(ast.kind \notin {"Invalid", "Missing", "Paren_Empty", "Array",
                                   "Dot", "Index", "Object", "Variable"},
                  p, "Invalid_Expression_Left_Of_Assignment")

\* The declarations that start with a keyword.
Declares(kind) == kind \in {"let", "const", "var"}

\* visit_binding_element: the declarations of a pattern.  Initializers are
\* visited before what they initialize.
RECURSIVE visit_binding_element(_, _, _, _), VisitBindingElements(_, _, _, _)
visit_binding_element(ast, p, kind, is_destructuring) ==
    LET First == ast.kids[1]
    IN CASE ast.kind = "Array" -> VisitBindingElements(ast.kids, 1, p, kind)
         [] ast.kind \in {"Assignment", "Compound_Assignment"} ->
                LET updated == ReportIf(ast.kind = "Compound_Assignment", p,
                                   IF Declares(kind)
                                   THEN "Cannot_Update_Variable_During_Declaration"
                                   ELSE "Invalid_Parameter")
                    optional == ReportIf(First.kind = "Optional", updated,
                                    "Optional_Parameter_Cannot_Have_Initializer")
                IN visit_binding_element(First,
                       visit_expression(ast.kids[2], optional, "rhs"),
                       kind, is_destructuring)
         [] ast.kind = "Variable" ->
                Visit(ReportIf(kind \in {"let", "const"} /\ p.tokens[ast.at] = "let", p,
                               "Cannot_Declare_Variable_Named_Let_With_Let"),
                      kind, ast.at)
         [] ast.kind = "Object" -> VisitBindingElements(ast.kids, 1, p, kind)
         [] ast.kind = "Spread" ->
                visit_binding_element(First,
                    ReportIf(First.kind = "Missing", p,
                             "Spread_Must_Precede_Variable_Name"),
                    kind, is_destructuring)
         [] ast.kind = "Await" ->
                Report(Visit(p, kind, ast.at), "Cannot_Declare_Await_In_Async_Function")
         [] ast.kind = "Yield_None" ->
                Report(Visit(p, kind, ast.at), "Cannot_Declare_Yield_In_Generator_Function")
         [] ast.kind \in {"Arrow_Function", "Binary_Operator", "Conditional", "Dot",
                          "Function", "Index", "RW_Unary_Prefix", "RW_Unary_Suffix",
                          "Unary_Operator", "Yield_Many", "Yield_One", "Call"} ->
                Report(p, "Invalid_Parameter")
         [] ast.kind = "Trailing_Comma" ->
                visit_binding_element(First, Report(p, "Stray_Comma_In_Parameter"),
                                      kind, is_destructuring)
         [] ast.kind \in {"Invalid", "Missing", "Nothing"} -> p
         [] ast.kind = "Optional" ->
                visit_binding_element(First,
                    Report(p, IF is_destructuring
                              THEN "Unexpected_Question_When_Destructuring"
                              ELSE "TypeScript_Optional_Parameters_Not_Allowed_In_JavaScript"),
                    kind, is_destructuring)
         [] ast.kind = "Paren" ->
                visit_binding_element(First,
                    Report(p, "Unexpected_Function_Parameter_Is_Parenthesized"),
                    kind, is_destructuring)
         [] ast.kind = "Paren_Empty" ->
                Report(p, "Missing_Expression_Between_Parentheses")
         [] ast.kind = "Literal" -> Report(p, "Unexpected_Literal_In_Parameter_List")
\* The elements of an array or the entries of an object.
VisitBindingElements(kids, i, p, kind) ==
    IF i > Len(kids) THEN p
    ELSE LET entry == kids[i]
         IN VisitBindingElements(kids, i + 1,
              IF "value" \in DOMAIN entry
              THEN visit_binding_element(entry.value,
                       visit_expression(entry.init, p, "rhs"), kind, TRUE)
              ELSE visit_binding_element(entry, p, kind, TRUE),
              kind)
=============================================================================
