------------------------------- MODULE Parser -------------------------------
(***************************************************************************)
(* The recursive descent parser of quick-lint-js for JavaScript            *)
(* (src/quick-lint-js/fe/parse-expression.cpp and parse-statement.cpp):    *)
(* what it does at every token of any input, valid or not.  An expression  *)
(* becomes a tree first and is visited when it is complete; statements,    *)
(* and the functions inside of expressions, are visited while they are     *)
(* read.                                                                   *)
(*                                                                         *)
(* Left out, with the tokens they need: TypeScript, JSX, classes, modules, *)
(* templates, regular expressions, the unary keywords, labels of loops     *)
(* that do not exist, and warnings about the values of literals.           *)
(***************************************************************************)
EXTENDS ExpressionVisits

R(p, e) == [p |-> p, e |-> e]

\* An expression, the rest of one, or a statement, inside of what is being
\* parsed.
RECURSIVE Descend(_, _, _)
parse_expression(p, prec) == Descend(p, "expression", prec)
parse_expression_remainder(p, builder, prec) ==
    Descend(p, "remainder", [builder |-> builder, prec |-> prec])
parse_and_visit_statement(p, type) == Descend(p, "statement", type)
RECURSIVE ParseArray(_, _), VisitParameters(_, _, _), ParseArguments(_, _, _),
          parse_primary_expression(_, _),
          ParseObject(_, _, _), ParseKeyed(_, _), ParseEntry(_),
          parse_end_of_expression_statement(_),
          parse_and_visit_function_parameters(_, _), ParseParameterList(_, _),
          parse_and_visit_function_parameters_and_body_no_scope(_, _, _),
          parse_and_visit_function_parameters_and_body(_, _, _),
          parse_and_visit_let_bindings(_, _, _, _, _),
          parse_and_visit_statement_block_after_left_curly(_),
          parse_and_visit_statement_block_no_scope(_), ParseMaybeElse(_),
          ParseSwitchCases(_, _), ParseExtraSemicolons(_), parse_and_visit_module(_)

-----------------------------------------------------------------------------
(* Expressions *)

\* What was read, visited, and what was read, with the operators after it.
Visited(r) == visit_expression(r.e, r.p, "rhs")
WithOperators(r, prec) == parse_expression_remainder(r.p, Builder(r.e), prec)

WholeExpression(p, prec) ==
    LET is_operand == ~prec.binary_operators /\ prec.math_or_logical_or_assignment
        Rest(r) == IF is_operand THEN r ELSE WithOperators(r, prec)
    IN Rest(parse_primary_expression(p, prec))

parse_and_visit_expression(p, prec) == Visited(parse_expression(p, prec))

\* An operator whose operand is missing says so.
ReportMissingOperand(r, kinds) ==
    ReportIf(r.e.kind \in kinds, r.p, "Missing_Operand_For_Operator")

Prefix(kind, p, prec) ==
    LET r == parse_expression(Skip(p), prec)
    IN R(ReportMissingOperand(r, {"Missing"}), Tree(kind, <<r.e>>))

ParseYield(p, prec) ==
    LET q == Skip(p)
        Yield(kind, from) == LET r == parse_expression(from, prec)
                             IN R(r.p, Tree(kind, <<r.e>>))
    IN CASE Peek(q) \in {":", ",", "eof", "in", "?", "}", ")", "]", ";"} ->
              R(q, Leaf("Yield_None", p.at))
         [] Peek(q) = "*" -> Yield("Yield_Many", Skip(q))
         [] OTHER -> Yield("Yield_One", q)

ParseParen(p) ==
    LET q == Skip(p)
        r == parse_expression(q, [AnyOperator EXCEPT !.colon_type_annotation = TRUE,
                                                     !.trailing_identifiers = TRUE])
    IN CASE Peek(q) = ")" -> R(Skip(q), Leaf("Paren_Empty", 0))
         [] Peek(q) # ")" /\ Peek(r.p) = ")" -> R(Skip(r.p), Tree("Paren", <<r.e>>))
         [] OTHER -> R(Report(r.p, "Unmatched_Parenthesis"), Tree("Paren", <<r.e>>))

ParseArray(p, kids) ==
    LET r == parse_expression(p, NoCommas)
    IN CASE Peek(p) = "]" -> R(Skip(p), Tree("Array", kids))
         [] Peek(p) = "," -> ParseArray(Skip(p), kids)
         [] Peek(p) \notin {"]", ","} /\ Begin(r.p) = Begin(p) ->
              R(Report(r.p, "Missing_Array_Close"), Tree("Array", kids))
         [] OTHER -> ParseArray(r.p, Append(kids, r.e))

\* The statement of a function or the expression of one: its parameters are
\* visited once the arrow is seen, and then its body.
VisitParameters(p, parameters, i) ==
    IF i > Len(parameters) THEN p
    ELSE VisitParameters(
             visit_binding_element(parameters[i], p, "arrow_parameter", FALSE),
             parameters, i + 1)

ParseArrowBody(p, prec) ==
    IF Peek(p) = "{" THEN parse_and_visit_statement_block_no_scope(p)
    ELSE parse_and_visit_expression(p,
           [NoCommas EXCEPT !.in_operator = prec.in_operator,
                            !.colon_type_annotation = prec.colon_type_annotation])
parse_arrow_function_body_no_scope(p, attributes, prec, parameters) ==
    LET q == Visit(VisitParameters(EnterFunction(p, attributes), parameters, 1),
                   "enter_function_scope_body", 0)
    IN R(ExitFunction(ParseArrowBody(q, prec), p), Leaf("Arrow_Function", 0))

ExitFunctionScope(r) == R(Visit(r.p, "exit_function_scope", 0), r.e)
parse_arrow_function_body(p, attributes, prec, parameters) ==
    ExitFunctionScope(parse_arrow_function_body_no_scope(
                        Visit(p, "enter_function_scope", 0), attributes, prec, parameters))

\* Reading an arrow function once its parameters were read as an expression.
ArrowParameters(e, x, next) ==
    CASE x.kind \in {"Binary_Operator", "Trailing_Comma"} -> x.kids
      [] x.kind \in {"Paren", "Paren_Empty", "Dot", "Literal"} -> <<>>
      [] x.kind = "Call" -> IF next = "{" THEN Tail(x.kids) ELSE <<>>
      [] OTHER -> <<x>>
maybe_wrap_erroneous_arrow_function(r, x) ==
    CASE x.kind = "Trailing_Comma" ->
           R(ReportIf(x.kids[Len(x.kids)].kind = "Spread", r.p,
                      "Comma_Not_Allowed_After_Spread_Parameter"), r.e)
      [] x.kind = "Call" ->
           R(Report(r.p, "Missing_Operator_Between_Expression_And_Arrow_Function"),
             BinaryOperator(<<x.kids[1], r.e>>, <<"(">>))
      [] OTHER -> r
parse_arrow_function_expression_remainder(p, e, prec) ==
    LET in_parens == e.kind = "Paren"
        x == IF in_parens THEN e.kids[1] ELSE e
        reported ==
          CASE x.kind = "Optional" ->
                 ReportIf(~in_parens, p, "Optional_Arrow_Parameter_Requires_Parentheses")
            [] x.kind = "Paren" ->
                 Report(p, "Unexpected_Function_Parameter_Is_Parenthesized")
            [] x.kind = "Paren_Empty" ->
                 ReportIf(in_parens, p, "Missing_Expression_Between_Parentheses")
            [] OTHER -> p
    IN ExitFunctionScope(
         maybe_wrap_erroneous_arrow_function(
           parse_arrow_function_body_no_scope(
             Visit(reported, "enter_function_scope", 0), "normal", prec,
             ArrowParameters(e, x, Peek(p))), x))

parse_function_expression(p, attributes) ==
    LET q == Skip(p)
        starred == SkipStar(q)
        named == Peek(starred) \in ContextualKeyword \cup {"await", "yield", "id"}
        entered == IF named
                   THEN Skip(Visit(starred, "enter_named_function_scope", starred.at))
                   ELSE Visit(starred, "enter_function_scope", 0)
    IN R(Visit(parse_and_visit_function_parameters_and_body_no_scope(
                   entered, WithStar(q, attributes),
                   IF named THEN Peek(starred) ELSE ""),
               "exit_function_scope", 0),
         Leaf("Function", 0))

\* *function f() {}: a star in front of the keyword is a mistake for one after
\* it.  The attributes are "" if this is no such function.
try_parse_function_with_leading_star(p) ==
    LET q == Skip(p)
        is_async == Peek(q) = "async"
        r == IF is_async THEN Skip(q) ELSE q
        is_function == ~HasLeadingNewline(q) /\ Peek(r) = "function"
        star == IF Peek(Skip(r)) = "id"
                THEN "Generator_Function_Star_Belongs_Before_Name"
                ELSE "Generator_Function_Star_Belongs_After_Keyword_Function"
    IN [attributes |-> CASE ~is_function -> ""
                         [] is_function /\ is_async -> "async_generator"
                         [] is_function /\ ~is_async -> "generator",
        p |-> IF is_function THEN Report(r, star) ELSE p]

parse_call_expression_remainder(p, callee) ==
    LET Close(r) == R(IF Peek(r.p) = ")" THEN Skip(r.p)
                      ELSE Report(r.p, "Expected_Right_Paren_For_Function_Call"),
                      Tree("Call", r.e))
    IN Close(ParseArguments(Skip(p), <<callee>>,
                            [NoCommas EXCEPT !.trailing_identifiers = TRUE]))

\* The arguments up to the ")"; parse_arrow_function_parameters_or_call_arguments
\* is the same loop.
ParseArguments(p, kids, prec) ==
    LET After(r) == IF Peek(r.p) = ","
                    THEN ParseArguments(Skip(r.p), Append(kids, r.e), prec)
                    ELSE R(r.p, Append(kids, r.e))
    IN CASE Peek(p) = ")" -> R(p, kids)
         [] Peek(p) = "," ->
              ParseArguments(
                Skip(Report(p, "Extra_Comma_Not_Allowed_Between_Arguments")), kids, prec)
         [] OTHER -> After(parse_expression(p, prec))

parse_index_expression_remainder(p, lhs) ==
    LET r == parse_expression(Skip(p), [AnyOperator EXCEPT !.trailing_identifiers = TRUE])
    IN R(IF Peek(r.p) = "]"
         THEN Skip(ReportIf(r.e.kind = "Missing", r.p, "Indexing_Requires_Expression"))
         ELSE Report(r.p, "Unmatched_Indexing_Bracket"),
         Tree("Index", <<lhs, r.e>>))

-----------------------------------------------------------------------------
(* async and await *)

ParseAwaitOperator(p, token) ==
    LET q == ReportIf(~(p.in_async_function \/ p.in_top_level), p,
                      "Await_Operator_Outside_Async")
        r == parse_expression(q, [UnaryOperand(FALSE) EXCEPT
                                    !.equals_assignment = FALSE,
                                    !.trailing_curly_is_arrow_body = FALSE])
    IN R(ReportMissingOperand(r, {"Missing"}),
         [Leaf("Await", token) EXCEPT !.kids = <<r.e>>])

ParseArrowAndBody(p, is_await, prec, parameters) ==
    LET q == IF Peek(p) = "=>" THEN Skip(p)
             ELSE Report(p, "Missing_Arrow_Operator_In_Arrow_Function")
    IN parse_arrow_function_body(
           ReportIf(is_await, q, "Await_Followed_By_Arrow_Function"),
           "async", prec, parameters)

\* After `await` the text in parentheses is read as parameters first, and read
\* again as an operand when no arrow follows: the lexer goes back, the visits
\* and diagnostics of the first reading stay.
AfterAsyncParens(q, parameters, p, token, is_await, prec) ==
    LET is_arrow == \/ Peek(q) = "=>"
                    \/ ~HasLeadingNewline(q) /\ Peek(q) = "{"
        newline == ReportIf(HasLeadingNewline(p), q,
                       "Newline_Not_Allowed_Between_Async_And_Parameter_List")
        declares_await == \E i \in DOMAIN parameters :
                             /\ parameters[i].kind = "Variable"
                             /\ q.tokens[parameters[i].at] = "await"
    IN CASE is_arrow ->
              ParseArrowAndBody(
                ReportIf(declares_await, newline, "Cannot_Declare_Await_In_Async_Function"),
                is_await, prec, parameters)
         [] ~is_arrow /\ ~is_await ->
              R(q, Tree("Call", <<Leaf("Variable", token)>>
                                \o SelectSeq(parameters, LAMBDA e : e.kind # "Invalid")))
         [] ~is_arrow /\ is_await -> ParseAwaitOperator(RollBackLexer(q, p), token)
ParseAsyncParens(p, token, is_await, prec) ==
    LET After(r) == AfterAsyncParens(Skip(UnimplementedIfNot(r.p, ")")), r.e,
                                     p, token, is_await, prec)
    IN After(ParseArguments(Skip(p), <<>>, NoCommas))

\* async x => y, or await x.
ParseAsyncParameter(p, token, is_await, prec) ==
    LET is_parameter_await == Peek(p) = "await"
        variable == Leaf("Variable", p.at)
        named == ReportIf(is_parameter_await /\ ~is_await, p,
                          "Cannot_Declare_Await_In_Async_Function")
        q == Skip(named)
        is_optional == Peek(q) = "?"
    IN CASE is_await /\ is_optional -> ParseAwaitOperator(p, token)
         [] is_await /\ ~is_optional /\ Peek(q) # "=>" ->
              ParseAwaitOperator(ReportIf(is_parameter_await, p, "Redundant_Await"), token)
         [] ~is_await /\ is_optional ->
              ParseArrowAndBody(
                Report(Skip(q), "Optional_Arrow_Parameter_Requires_Parentheses"),
                FALSE, prec, <<Tree("Optional", <<variable>>)>>)
         [] OTHER -> ParseArrowAndBody(q, is_await, prec, <<variable>>)

parse_async_expression_only(p, token, is_await, prec) ==
    CASE Peek(p) = "(" -> ParseAsyncParens(p, token, is_await, prec)
      [] /\ Peek(p) \in ContextualKeyword \cup {"id", "await", "yield"}
         /\ is_await \/ ~HasLeadingNewline(p) ->
           ParseAsyncParameter(p, token, is_await, prec)
      [] Peek(p) = "function" /\ ~is_await -> parse_function_expression(p, "async")
      [] OTHER -> IF is_await THEN ParseAwaitOperator(p, token)
                  ELSE R(p, Leaf("Variable", token))

parse_async_expression(p, token, prec) ==
    LET Rest(r) == IF prec.binary_operators THEN WithOperators(r, prec) ELSE r
    IN Rest(parse_async_expression_only(p, token, FALSE, prec))

\* Whether `await` in front of the next token is a name: it is an operator in
\* an async function, and outside of functions where it could be either.
IsAwaitIdentifier(p) ==
    /\ ~p.in_async_function
    /\ \/ Peek(p) \in {"*", "+=", ":", ",", ".", "eof", "=", "=>", "in", "?",
                       "}", ")", "]", ";"}
       \/ Peek(p) \in {"of", "++", "[", "+", "("} /\ ~p.in_top_level
parse_await_expression(p, token, prec) ==
    IF IsAwaitIdentifier(p) THEN R(p, Leaf("Variable", token))
    ELSE parse_async_expression_only(p, token, TRUE, prec)

-----------------------------------------------------------------------------

MissingBefore ==
    {"eof", "break", "case", "catch", "const", "continue", "default", "do",
     "else", "finally", "for", "if", "return", "switch", "throw", "try", "var",
     "while", "}", ")", "]", ";"}

parse_primary_expression(p, prec) ==
    LET t == Peek(p)
        q == Skip(p)
        star == try_parse_function_with_leading_star(p)
    IN CASE t \in {"id", "let", "of"} \/ (t = "yield" /\ ~p.in_generator_function) ->
              R(q, Leaf("Variable", p.at))
         [] t = "num" -> R(q, Leaf("Literal", p.at))
         [] t = "await" -> parse_await_expression(q, p.at, prec)
         [] t = "yield" /\ p.in_generator_function -> ParseYield(p, prec)
         [] t = "..." -> LET r == parse_expression(q, NoCommas)
                         IN R(r.p, Tree("Spread", <<r.e>>))
         [] t = "+" -> Prefix("Unary_Operator", p, UnaryOperand(prec.in_operator))
         [] t = "++" -> Prefix("RW_Unary_Prefix", p,
                               [UnaryOperand(prec.in_operator) EXCEPT
                                  !.binary_operators = FALSE])
         [] t = "(" -> ParseParen(p)
         [] t = "async" -> parse_async_expression(q, p.at, prec)
         [] t = "[" -> ParseArray(q, <<>>)
         [] t = "{" -> ParseObject(q, <<>>, FALSE)
         [] t = "function" -> parse_function_expression(p, "normal")
         [] t = "*" /\ star.attributes # "" ->
              parse_function_expression(star.p, star.attributes)
         [] \/ t \in {"+=", ",", ".", "=", "in", "?"}
            \/ t = "*" /\ star.attributes = "" ->
              R(ReportIf(prec.binary_operators, p, "Missing_Operand_For_Operator"), Missing)
         [] t = "=>" ->
              parse_arrow_function_body(
                Skip(Report(p, "Missing_Arrow_Function_Parameter_List")),
                "normal", prec, <<>>)
         [] t = ":" -> R(Skip(Report(p, "Unexpected_Token")), Leaf("Invalid", 0))
         [] t \in MissingBefore -> R(p, Missing)

-----------------------------------------------------------------------------
(* What may follow an operand *)

OptionalMark == {",", "=", "=>", "}", ")", "]"}

\* b ? x : y.  Nothing follows a conditional expression.
ParseAlternatives(x, b, prec) ==
    LET Conditional(r) ==
          R(ReportMissingOperand(r, {"Missing"}),
            Tree("Conditional", <<BuildExpression(b), x.e, r.e>>))
    IN IF Peek(x.p) = ":"
       THEN Conditional(parse_expression(Skip(x.p), prec))
       ELSE R(Report(x.p, "Missing_Colon_In_Conditional_Expression"),
              Tree("Conditional", <<BuildExpression(b), x.e, Missing>>))
ParseConditional(q, b, prec) ==
    ParseAlternatives(IF Peek(q) = ":"
                      THEN R(Report(q, "Missing_Operand_For_Operator"), Missing)
                      ELSE parse_expression(q, AnyOperator), b, prec)

ParseDot(p, b, prec) ==
    LET q == Skip(p)
        dot == ReplaceLast(b, Tree("Dot", <<LastExpression(b)>>))
        second == parse_expression(Skip(Report(q, "Dot_Dot_Is_Not_An_Operator")), Operand)
    IN CASE Peek(q) \in Keyword \cup {"id"} ->
              parse_expression_remainder(Skip(q), dot, prec)
         [] Peek(q) \in {"*", "+=", ":", ",", "eof", "=", "(", "+", "?", ")", ";"} ->
              parse_expression_remainder(
                Report(q, "Missing_Property_Name_For_Dot_Operator"), dot, prec)
         [] Peek(q) = "." ->
              parse_expression_remainder(second.p, AddChild(b, ".", second.e), prec)
         [] OTHER -> R(Unimplemented(q), BuildExpression(b))

\* What is in front of an arrow must be parameters.
ParseArrow(p, b, prec) ==
    LET q == Skip(p)
        lhs == LastExpression(b)
        kind == WithoutParen(lhs).kind
        is_bad == kind \in {"Call", "Dot", "Literal"}
        is_call_with_body == kind = "Call" /\ Peek(q) = "{"
        reported == ReportIf(is_bad /\ ~is_call_with_body, q,
                             IF kind = "Literal" THEN "Unexpected_Arrow_After_Literal"
                             ELSE "Unexpected_Arrow_After_Expression")
        rhs == parse_expression(reported, Operand)
        arrow == parse_arrow_function_expression_remainder(reported, lhs, prec)
    IN IF is_bad /\ Peek(q) # "{"
       THEN parse_expression_remainder(rhs.p, AddChild(b, "=>", rhs.e), prec)
       ELSE parse_expression_remainder(arrow.p, ReplaceLast(b, arrow.e), prec)

\* (x) { return x; } lacks an arrow.
LooksLikeArrowFunctionBody(p, b, prec) ==
    LET last == LastExpression(b)
        inner == WithoutParen(last).kind
    IN /\ prec.trailing_curly_is_arrow_body
       /\ ~HasMultipleChildren(b)
       /\ \/ ~HasLeadingNewline(p) /\ inner = "Binary_Operator"
          \/ last.kind = "Paren" /\ inner = "Variable"
          \/ last.kind = "Paren_Empty"

ParseAssignment(p, b, prec) ==
    LET lhs == BuildExpression(b)
        kind == IF Peek(p) = "=" THEN "Assignment" ELSE "Compound_Assignment"
        rhs == parse_expression(check_assignment_lhs(lhs, Skip(p)),
                 [NoCommas EXCEPT !.in_operator = prec.in_operator,
                                  !.colon_type_annotation = prec.colon_type_annotation])
    IN parse_expression_remainder(ReportMissingOperand(rhs, {"Missing"}),
                                  Builder(Tree(kind, <<lhs, rhs.e>>)), prec)

WholeRemainder(p, b, prec) ==
    LET t == Peek(p)
        q == Skip(p)
        done == R(p, BuildExpression(b))
        last == LastExpression(b)
        operand(with) == parse_expression(q, with)
        binary(r, kinds) ==
            parse_expression_remainder(ReportMissingOperand(r, kinds),
                                       AddChild(b, t, r.e), prec)
        postfix(r) == parse_expression_remainder(r.p, ReplaceLast(b, r.e), prec)
    IN CASE t = "," /\ prec.commas ->
              IF Peek(q) = ")" THEN R(q, Tree("Trailing_Comma", b.kids))
              ELSE binary(operand(NoCommas), {"Invalid", "Missing"})
         [] t \in {"+", "*"} /\ prec.math_or_logical_or_assignment ->
              binary(operand(Operand), {"Missing"})
         [] t = "in" /\ prec.in_operator -> binary(operand(prec), {})
         [] t = "(" ->
              postfix(parse_call_expression_remainder(
                ReportIf(last.kind = "Arrow_Function", p,
                         "Missing_Parentheses_Around_Self_Invoked_Function"), last))
         [] \/ t = "=" /\ prec.equals_assignment /\ prec.math_or_logical_or_assignment
            \/ t = "+=" /\ prec.math_or_logical_or_assignment ->
              ParseAssignment(p, b, prec)
         [] t = "." -> ParseDot(p, b, prec)
         [] t = "[" -> postfix(parse_index_expression_remainder(p, last))
         [] t = "++" /\ ~HasLeadingNewline(p) ->
              postfix(R(q, Tree("RW_Unary_Suffix", <<last>>)))
         [] t = "?" /\ prec.conditional_operator ->
              IF \/ Peek(q) \in OptionalMark
                 \/ Peek(q) = ":" /\ prec.colon_question_is_optional
              THEN postfix(R(q, Tree("Optional", <<last>>)))
              ELSE ParseConditional(q, b, prec)
         [] t = "=>" ->
              \* await (x) => y, where await was taken for the name of a function.
              IF /\ last.kind = "Call" /\ last.kids[1].kind = "Variable"
                 /\ p.tokens[last.kids[1].at] = "await"
              THEN postfix(parse_arrow_function_body(
                             Report(q, "Await_Followed_By_Arrow_Function"),
                             "async", prec, Tail(last.kids)))
              ELSE ParseArrow(p, b, prec)
         [] t = "id" /\ prec.trailing_identifiers ->
              LET rhs == parse_expression(
                           Report(p, "Unexpected_Identifier_In_Expression"), Operand)
              IN parse_expression_remainder(rhs.p, AddChild(b, "", rhs.e), prec)
         [] t = "{" /\ LooksLikeArrowFunctionBody(p, b, prec) ->
              LET arrow == parse_arrow_function_expression_remainder(
                             Report(p, "Missing_Arrow_Operator_In_Arrow_Function"),
                             last, prec)
              IN R(arrow.p, BuildExpression(ReplaceLast(b, arrow.e)))
         [] t = ":" /\ prec.colon_type_annotation -> R(GiveUp(p, "beyond"), BuildExpression(b))
         [] t \in {"catch", "finally", "..."} -> R(Unimplemented(p), BuildExpression(b))
         [] OTHER -> done

-----------------------------------------------------------------------------
(* Object literals *)

ParseObject(p, entries, expect_comma_or_end) ==
    LET done == Tree("Object", entries)
        After(entry) == ParseObject(entry.p, Append(entries, entry.e), TRUE)
    IN CASE Peek(p) = "}" -> R(Skip(p), done)
         [] Peek(p) = "," -> ParseObject(Skip(p), entries, FALSE)
         [] Peek(p) = ";" ->
              ParseObject(Skip(Report(p, "Expected_Comma_To_Separate_Object_Literal_Entries")),
                          entries, FALSE)
         [] Peek(p) \in {"eof", ")", "]"} -> R(Report(p, "Unclosed_Object_Literal"), done)
         [] OTHER ->
              After(ParseEntry(ReportIf(expect_comma_or_end, p,
                                        "Missing_Comma_Between_Object_Literal_Entries")))

ParseValue(p, property) ==
    LET value == parse_expression(p, [NoCommas EXCEPT !.equals_assignment = FALSE])
        init == parse_expression(Skip(value.p), NoCommas)
    IN IF Peek(value.p) = "=" THEN R(init.p, Entry(property, value.e, init.e))
       ELSE R(value.p, Entry(property, value.e, Nothing))

ParseComputedPropertyName(p) ==
    LET r == parse_expression(Skip(p), AnyOperator)
    IN R(Skip(UnimplementedIfNot(r.p, "]")), r.e)

ParseEqual(p, key) ==
    LET is_literal == p.tokens[key] = "num"
        rhs == parse_expression(Skip(p), NoCommas)
    IN R(ReportIf(is_literal, rhs.p, "Missing_Key_For_Object_Entry"),
         Entry(Leaf("Literal", key),
               Leaf(IF is_literal THEN "Literal" ELSE "Variable", key), rhs.e))

ParseMethod(p, key, attributes) ==
    LET name == IF key.kind = "Literal" THEN p.tokens[key.at] ELSE "method"
    IN R(IF Peek(p) = "}" THEN Report(p, "Missing_Function_Parameter_List")
         ELSE parse_and_visit_function_parameters_and_body(
                p, attributes,
                IF attributes \in {"normal", "generator"} THEN name ELSE "method"),
         Entry(key, Leaf("Function", 0), Nothing))

\* The name of a method, a token or [expression], and the method.
ParseNamedMethod(p, attributes) ==
    LET computed == ParseComputedPropertyName(p)
    IN CASE Peek(p) \in Keyword \cup {"id", "num"} ->
              ParseMethod(Skip(p), Leaf("Literal", p.at), attributes)
         [] Peek(p) = "[" -> ParseMethod(computed.p, computed.e, attributes)
         [] OTHER -> R(Unimplemented(p), Entry(Nothing, Missing, Nothing))

\* The key alone stands for a variable of that name.
KeyAlone(p, key) ==
    LET t == p.tokens[key]
        Alone(q, value) == R(q, Entry(Leaf("Literal", key), value, Nothing))
    IN CASE t = "num" -> Alone(Report(p, "Invalid_Lone_Literal_In_Object_Literal"), Missing)
         [] t \in ReservedExceptAwaitAndYield ->
              Alone(Report(p, "Missing_Value_For_Object_Literal_Entry"), Missing)
         [] OTHER -> Alone(p, Leaf("Variable", key))

ExpressionWithoutKey(p, key) ==
    LET lhs == Leaf(IF p.tokens[key] = "num" THEN "Literal" ELSE "Variable", key)
        r == parse_expression_remainder(p, Builder(lhs), NoCommas)
    IN R(Report(r.p, "Missing_Key_For_Object_Entry"), Entry(Leaf("Literal", key), r.e, Nothing))

\* The entry whose key is the token before p.
ParseKeyed(p, key) ==
    LET is_function == p.tokens[key] = "function"
        no_keyword == Report(p, "Methods_Should_Not_Use_Function_Keyword")
        next == Peek(Skip(p))
        next_but_one == Peek(Skip(Skip(p)))
    IN CASE Peek(p) = "id" /\ is_function -> ParseEntry(no_keyword)
         [] Peek(p) \in {",", "}", ";", "eof"} \/ (Peek(p) = "id" /\ ~is_function) ->
              KeyAlone(p, key)
         [] Peek(p) = ":" -> ParseValue(Skip(p), Leaf("Literal", key))
         [] Peek(p) = "=" -> ParseEqual(p, key)
         [] Peek(p) \in {"+=", ".", "+", "++"} -> ExpressionWithoutKey(p, key)
         [] Peek(p) = "(" -> ParseMethod(p, Leaf("Literal", key), "normal")
         [] Peek(p) = "*" /\ is_function -> ParseNamedMethod(Skip(no_keyword), "generator")
         [] Peek(p) = "*" /\ ~is_function ->
              CASE next = "(" -> ParseMethod(p, Leaf("Literal", key), "normal")
                [] next # "(" /\ next_but_one = "(" -> KeyAlone(p, key)
                [] OTHER -> ExpressionWithoutKey(p, key)
         [] OTHER -> R(Unimplemented(p), Entry(Nothing, Missing, Nothing))

ParseAsyncEntry(p) ==
    LET q == Skip(p)
        is_method == Peek(q) = "function" /\ Peek(Skip(q)) # "("
        r == IF is_method THEN Report(Skip(q), "Methods_Should_Not_Use_Function_Keyword")
             ELSE q
        s == SkipStar(r)
        key == Leaf("Literal", p.at)
    IN CASE Peek(s) \in Keyword \cup {"id", "num", "["} ->
              ParseNamedMethod(s, WithStar(r, "async"))
         [] Peek(s) = "=" -> ParseEqual(s, p.at)
         [] Peek(s) = ":" -> ParseValue(Skip(s), key)
         [] Peek(s) = "(" -> ParseMethod(s, key, "normal")
         [] Peek(s) \in {",", "}", ";"} -> R(s, Entry(key, Leaf("Variable", p.at), Nothing))
         [] OTHER -> R(Unimplemented(s), Entry(Nothing, Missing, Nothing))

ParseComputedEntry(p) ==
    LET key == ParseComputedPropertyName(p)
        q == key.p
    IN CASE Peek(q) = ":" -> ParseValue(Skip(q), key.e)
         [] Peek(q) \in {"(", "*"} -> ParseMethod(q, key.e, "normal")
         [] Peek(q) \in {",", "}", ";"} ->
              R(Report(q, "Missing_Value_For_Object_Literal_Entry"),
                Entry(key.e, Missing, Nothing))
         [] OTHER -> R(Unimplemented(q), Entry(Nothing, Missing, Nothing))

ParseStarEntry(p) ==
    LET q == Skip(p)
        computed == ParseComputedPropertyName(q)
    IN IF Peek(q) = "["
       THEN ParseMethod(UnimplementedIfNot(computed.p, "("), computed.e, "generator")
       ELSE ParseNamedMethod(q, "generator")

ParseEntry(p) ==
    CASE Peek(p) \in (Keyword \ {"async"}) \cup {"id", "num"} -> ParseKeyed(Skip(p), p.at)
      [] Peek(p) = "async" -> ParseAsyncEntry(p)
      [] Peek(p) = "[" -> ParseComputedEntry(p)
      [] Peek(p) = "*" -> ParseStarEntry(p)
      [] Peek(p) = "..." -> ParseValue(p, Nothing)
      [] OTHER -> R(Unimplemented(p), Entry(Nothing, Missing, Nothing))

-----------------------------------------------------------------------------
(* The ends of statements *)

consume_semicolon(p) ==
    CASE Peek(p) = ";" -> Skip(p)
      [] Peek(p) \in {"eof", "}"} \/ HasLeadingNewline(p) -> p
      [] OTHER -> Skip(Report(InsertSemicolon(p), "Missing_Semicolon_After_Statement"))

parse_end_of_expression_statement(p) ==
    IF Peek(p) = ")"
    THEN parse_end_of_expression_statement(Skip(Report(p, "Unmatched_Parenthesis")))
    ELSE consume_semicolon(p)

ParseExpressionStatement(p) ==
    parse_end_of_expression_statement(parse_and_visit_expression(p, AnyOperator))

\* Whether the `let` before p is a name.
is_let_token_a_variable_reference(p, allow_declarations) ==
    CASE Peek(p) \in {"*", "+=", ",", ".", "eof", "=", "=>", "(", "+", "++", "?",
                      ";", "in"} -> TRUE
      [] Peek(p) \in Keyword \ (ContextualKeyword \cup {"in"}) -> HasLeadingNewline(p)
      [] Peek(p) = "[" -> FALSE
      [] OTHER -> ~allow_declarations /\ HasLeadingNewline(p)

error_on_lexical_declaration(p) ==
    ReportIf(\/ Peek(p) = "const"
             \/ Peek(p) = "let" /\ ~is_let_token_a_variable_reference(Skip(p), FALSE),
             p, "Lexical_Declaration_Not_Allowed_In_Body")
is_maybe_function_statement(p) ==
    \/ Peek(p) = "function"
    \/ Peek(p) = "async" /\ Peek(Skip(p)) = "function"
\* What the body of a loop must not be.
ReportBadBody(p) ==
    error_on_lexical_declaration(
        ReportIf(is_maybe_function_statement(p), p,
                 "Function_Statement_Not_Allowed_In_Body"))

\* The declarations that a function and its parameters may not make.
ReportBadName(p) ==
    CASE Peek(p) = "await" ->
           ReportIf(p.in_async_function, p, "Cannot_Declare_Await_In_Async_Function")
      [] Peek(p) = "yield" ->
           ReportIf(p.in_generator_function, p,
                    "Cannot_Declare_Yield_In_Generator_Function")
      [] OTHER -> p
BindingName == ContextualKeyword \cup {"id", "await", "yield"}

-----------------------------------------------------------------------------
(* Functions *)

\* The result says whether a body follows ("body"), is not expected any more
\* ("ignore") or is missing ("missing").
parse_and_visit_function_parameters(p, last) ==
    LET q == IF last = "" THEN p ELSE Skip(p)
        r == parse_expression(q, [NoCommas EXCEPT !.colon_type_annotation = TRUE,
                                                  !.colon_question_is_optional = TRUE])
        visited == visit_binding_element(r.e, r.p, "parameter", FALSE)
    IN CASE last # "" /\ Peek(p) # "," -> p
         [] Peek(q) \in BindingName \cup {"...", "{", "(", "[", "num"} ->
              parse_and_visit_function_parameters(
                ReportIf(last = "Optional" /\ r.e.kind # "Optional", visited,
                         "Optional_Parameter_Cannot_Be_Followed_By_Required_Parameter"),
                r.e.kind)
         [] Peek(q) = ")" ->
              ReportIf(last = "Spread", q, "Comma_Not_Allowed_After_Spread_Parameter")
         [] OTHER -> Unimplemented(q)

AfterParameters(p) ==
    LET typed == IF Peek(p) = ":" THEN GiveUp(p, "beyond") ELSE p
        arrow == IF Peek(typed) = "=>"
                 THEN Skip(Report(typed,
                             "Functions_Or_Methods_Should_Not_Have_Arrow_Operator"))
                 ELSE typed
    IN R(arrow, IF Peek(arrow) = "{" THEN "body" ELSE "missing")
ParseParameterList(p, name) ==
    LET starred == IF Peek(p) = "*"
                   THEN [Skip(Report(p, "Generator_Function_Star_Belongs_Before_Name"))
                           EXCEPT !.in_generator_function = TRUE]
                   ELSE p
        q == IF Peek(p) = "*" /\ name = "" THEN Unimplemented(p) ELSE starred
        missing == Report(q, "Missing_Function_Parameter_List")
    IN CASE Peek(q) = "(" ->
              AfterParameters(Skip(UnimplementedIfNot(
                parse_and_visit_function_parameters(Skip(q), ""), ")")))
         [] Peek(q) = "{" -> R(missing, "body")
         [] Peek(q) \in {",", ".", "num", "}"} -> R(missing, "ignore")
         [] Peek(q) = "id" /\ name = "async" ->
              ParseParameterList(Skip(Report(q, "Function_Async_Function")), name)
         [] OTHER -> R(Unimplemented(q), "ignore")

ParseFunctionBody(list) ==
    CASE list.e = "body" ->
           parse_and_visit_statement_block_no_scope(
             Visit(list.p, "enter_function_scope_body", 0))
      [] list.e = "ignore" -> list.p
      [] list.e = "missing" -> Report(list.p, "Missing_Function_Body")
parse_and_visit_function_parameters_and_body_no_scope(p, attributes, name) ==
    ExitFunction(ParseFunctionBody(ParseParameterList(EnterFunction(p, attributes), name)), p)

parse_and_visit_function_parameters_and_body(p, attributes, name) ==
    Visit(parse_and_visit_function_parameters_and_body_no_scope(
            Visit(p, "enter_function_scope", 0), attributes, name),
          "exit_function_scope", 0)

parse_and_visit_function_declaration(p, attributes) ==
    LET q == Skip(p)
        r == SkipStar(q)
        with_star == WithStar(q, attributes)
        body(from, name) ==
            parse_and_visit_function_parameters_and_body(from, with_star, name)
        unnamed == body(r, "")
        called == parse_expression_remainder(
                    Report(unnamed, "Missing_Name_Or_Parentheses_For_Function"),
                    Builder(Leaf("Function", 0)), AnyOperator)
    IN CASE Peek(r) \in BindingName ->
              body(Skip(Visit(ReportBadName(r), "function", r.at)), Peek(r))
         [] Peek(r) = "(" ->
              IF Peek(unnamed) = "(" THEN visit_expression(called.e, called.p, "rhs")
              ELSE Report(unnamed, "Missing_Name_In_Function_Statement")
         [] OTHER -> Report(r, "Missing_Name_In_Function_Statement")

-----------------------------------------------------------------------------
(* let, const and var *)

\* for (let x = a in b ...) is read as x = (a in b), and read again if no
\* semicolon follows; the visits of the first reading stay.
ParseBindingBeforeIn(r, second, kind) ==
    LET not_in == [r.p EXCEPT !.visits = second.p.visits]
    IN CASE second.p.ended # "" -> second
         [] second.p.ended = "" /\ Peek(second.p) = ";" ->
              R(Report(second.p, "In_Disallowed_In_C_Style_For_Loop"),
                [r.e EXCEPT !.kids[2] = second.e])
         [] OTHER ->
              R(ReportIf(kind # "var", not_in,
                         "Cannot_Assign_To_Loop_Variable_In_For_Of_Or_In_Loop"), r.e)

\* A variable and what is assigned to it.  `in_for` says whether it is in the
\* head of a `for`, where an `in` ends an initializer.
ParseInitializer(r, kind, in_for) ==
    CASE in_for /\ Peek(r.p) = "in" ->
           ParseBindingBeforeIn(
             r, parse_expression_remainder(r.p, Builder(r.e.kids[2]), NoCommas), kind)
      [] in_for /\ Peek(r.p) = "of" ->
           R(Report(r.p, "Cannot_Assign_To_Loop_Variable_In_For_Of_Or_In_Loop"), r.e)
      [] OTHER -> r
ParseInitializedBinding(q, variable, kind, in_for) ==
    LET prec == [NoCommas EXCEPT !.in_operator = ~in_for]
        Declared(r) == visit_binding_element(r.e, r.p, kind, FALSE)
    IN Declared(ParseInitializer(parse_expression_remainder(q, Builder(variable), prec),
                                 kind, in_for))

ParseNamedBinding(p, kind, in_for, allow_const) ==
    LET variable == Leaf("Variable", p.at)
        named == Skip(ReportBadName(p))
        q == IF Peek(named) = ":" THEN GiveUp(named, "beyond") ELSE named
        declared(from) == visit_binding_element(variable, from, kind, FALSE)
    IN CASE Peek(q) \in {"=", "+="} -> ParseInitializedBinding(q, variable, kind, in_for)
         [] Peek(q) \in {"await", "function"} /\ HasLeadingNewline(q) ->
              InsertSemicolon(declared(q))
         [] Peek(q) \in {"await", "function"} /\ ~HasLeadingNewline(q) ->
              declared(parse_and_visit_expression(
                         Report(q, "Missing_Equal_After_Variable"),
                         [NoCommas EXCEPT !.in_operator = ~in_for]))
         [] OTHER ->
              declared(ReportIf(kind = "const" /\ ~allow_const, q,
                                "Missing_Initializer_In_Const_Declaration"))

ParseBinding(p, kind, in_for, allow_const, first) ==
    LET prec == [NoCommas EXCEPT !.in_operator = ~in_for]
        Declared(pattern) == visit_binding_element(pattern.e, pattern.p, kind, FALSE)
    IN CASE Peek(p) \in BindingName -> ParseNamedBinding(p, kind, in_for, allow_const)
         [] Peek(p) \in {"{", "["} -> Declared(parse_expression(p, prec))
         [] /\ Peek(p) \in ReservedExceptAwaitAndYield
            /\ Peek(Skip(p)) \in {"eof", "=", ";"} ->
              parse_and_visit_expression(
                Skip(Report(Skip(p), "Cannot_Declare_Variable_With_Keyword_Name")), prec)
         [] /\ Peek(p) \in ReservedExceptAwaitAndYield
            /\ Peek(Skip(p)) \notin {"eof", "=", ";"} ->
              IF HasLeadingNewline(p) THEN Report(p, "Let_With_No_Bindings")
              ELSE InsertSemicolon(Report(p, "Unexpected_Token_In_Variable_Declaration"))
         [] Peek(p) = "num" ->
              InsertSemicolon(Report(p, "Unexpected_Token_In_Variable_Declaration"))
         [] Peek(p) \in {"+=", ",", ".", "=>", "(", "+", "?"} -> Unimplemented(p)
         [] Peek(p) = "=" ->
              parse_and_visit_expression(
                Skip(Report(p, "Missing_Variable_Name_In_Declaration")), prec)
         [] OTHER -> Report(p, IF first THEN "Let_With_No_Bindings"
                               ELSE "Stray_Comma_In_Let_Statement")

\* The names that a declaration declares, until one is not followed by a comma.
parse_and_visit_let_bindings(p, kind, in_for, allow_const, first) ==
    LET q == IF Peek(p) = "," /\ ~first THEN Skip(p)
             ELSE ReportIf(~first, p, "Missing_Comma_Between_Variable_Declarations")
        is_missing_comma == Peek(p) \in {"id", "{", "["} /\ ~HasLeadingNewline(p)
    IN IF first \/ Peek(p) = "," \/ is_missing_comma
       THEN parse_and_visit_let_bindings(ParseBinding(q, kind, in_for, allow_const, first),
                                         kind, in_for, allow_const, FALSE)
       ELSE p

ParseVariableDeclaration(p, kind) ==
    consume_semicolon(parse_and_visit_let_bindings(Skip(p), kind, FALSE, FALSE, TRUE))

-----------------------------------------------------------------------------
(* Blocks and control *)

parse_and_visit_statement_block_after_left_curly(p) ==
    LET After(s) ==
          CASE s.e -> parse_and_visit_statement_block_after_left_curly(s.p)
            [] ~s.e /\ Peek(s.p) = "}" -> Skip(s.p)
            [] OTHER -> Report(s.p, "Unclosed_Code_Block")
    IN After(parse_and_visit_statement(p, "any_statement_in_block"))
parse_and_visit_statement_block_no_scope(p) ==
    parse_and_visit_statement_block_after_left_curly(Skip(p))
ParseBlock(p) ==
    Visit(parse_and_visit_statement_block_no_scope(Visit(p, "enter_block_scope", 0)),
          "exit_block_scope", 0)

\* A statement that must be there.
ParseRequired(p, type) ==
    LET s == parse_and_visit_statement(p, type)
    IN IF s.e THEN s.p ELSE Unimplemented(s.p)
\* A statement that is reported if it is missing.
ParseBody(p, diag) ==
    LET s == parse_and_visit_statement(p, "no_declarations")
    IN ReportIf(~s.e, s.p, diag)

error_on_sketchy_condition(p, ast) ==
    ReportIf(ast.kind = "Assignment" /\ ast.kids[2].kind = "Literal", p,
             "Assignment_Makes_Condition_Constant")
WarnOnComma(p, ast) ==
    ReportIf(HasComma(ast), p, "Misleading_Comma_Operator_In_Conditional_Statement")

VisitCondition(r, check_for_sketchy_conditions) ==
    WarnOnComma(IF check_for_sketchy_conditions
                THEN error_on_sketchy_condition(Visited(r), r.e)
                ELSE Visited(r), r.e)
CloseCondition(p, opened) ==
    LET closed == Peek(p) = ")"
        s == IF closed THEN Skip(p) ELSE p
    IN CASE opened /\ closed -> s
         [] ~opened /\ ~closed -> Report(s, "Expected_Parentheses_Around_Condition")
         [] OTHER -> Report(s, "Expected_Parenthesis_Around_Condition")
parse_and_visit_parenthesized_expression(p, check_for_sketchy_conditions) ==
    LET opened == Peek(p) = "("
        q == IF opened
             THEN ReportIf(Peek(Skip(p)) = ")", Skip(p),
                           "Empty_Paren_After_Control_Statement")
             ELSE p
    IN CloseCondition(VisitCondition(parse_expression(q, AnyOperator),
                                     check_for_sketchy_conditions), opened)
ParseCondition(p, missing, check_for_sketchy_conditions) ==
    IF Peek(p) = "{" THEN Report(p, missing)
    ELSE parse_and_visit_parenthesized_expression(p, check_for_sketchy_conditions)

\* if: a function as its body gets a scope of its own.
ParseIfBody(p) ==
    LET q == error_on_lexical_declaration(p)
        is_function == is_maybe_function_statement(p)
        s == ParseRequired(IF is_function THEN Visit(q, "enter_block_scope", 0) ELSE q,
                           "no_declarations")
    IN IF is_function THEN Visit(s, "exit_block_scope", 0) ELSE s
ParseMaybeElse(p) ==
    LET q == Skip(p)
        condition == parse_and_visit_expression(q,
                       [AnyOperator EXCEPT !.trailing_curly_is_arrow_body = FALSE])
    IN CASE Peek(p) # "else" -> p
         [] Peek(p) = "else" /\ Peek(q) # "(" -> ParseIfBody(q)
         [] OTHER ->
              IF Peek(condition) = "{" /\ ~HasLeadingNewline(condition)
              THEN ParseMaybeElse(ParseIfBody(Report(condition, "Missing_If_After_Else")))
              ELSE consume_semicolon(condition)
parse_and_visit_if(p) ==
    LET Then(q) == IF Peek(q) \in {"eof", "else", "}"}
                   THEN Report(q, "Missing_Body_For_If_Statement")
                   ELSE ParseIfBody(q)
    IN ParseMaybeElse(Then(ParseCondition(Skip(p), "Missing_Condition_For_If_Statement",
                                          TRUE)))

parse_and_visit_while(p) ==
    LET q == ParseCondition(EnterLoop(Skip(p)), "Missing_Condition_For_While_Statement", TRUE)
    IN ExitLoop(ParseBody(ReportBadBody(q), "Missing_Body_For_While_Statement"), p)

\* The condition of a do is inside of the loop too.
ParseDoCondition(body, p) ==
    LET condition == ExitLoop(parse_and_visit_parenthesized_expression(
                                Skip(EnterLoop(body)), TRUE), p)
    IN CASE Peek(body) # "while" ->
              Report(body, IF Peek(Skip(p)) = "while"
                           THEN "Missing_Body_For_Do_While_Statement"
                           ELSE "Missing_While_And_Condition_For_Do_While_Statement")
         [] Peek(body) = "while" /\ Peek(condition) = ";" -> Skip(condition)
         [] OTHER -> condition
parse_and_visit_do_while(p) ==
    LET q == ReportBadBody(EnterLoop(Skip(p)))
    IN ParseDoCondition(ExitLoop(ParseRequired(q, "any_statement"), p), p)

\* The cases of a switch are statements of one block.
ParseCase(p) ==
    LET q == Skip(p)
    IN IF Peek(q) = ":" THEN Skip(Report(q, "Expected_Expression_For_Switch_Case"))
       ELSE Skip(UnimplementedIfNot(parse_and_visit_expression(q, AnyOperator), ":"))
ParseSwitchCases(p, is_before_first_switch_case) ==
    CASE Peek(p) = "}" -> Skip(p)
      [] p.ended # "" -> p
      [] Peek(p) = "case" -> ParseSwitchCases(ParseCase(p), FALSE)
      [] Peek(p) = "default" ->
           ParseSwitchCases(Skip(UnimplementedIfNot(Skip(p), ":")), FALSE)
      [] OTHER ->
           ParseSwitchCases(
             ParseRequired(ReportIf(is_before_first_switch_case, p,
                                    "Statement_Before_First_Switch_Case"),
                           "any_statement_in_block"),
             is_before_first_switch_case)
ParseSwitchBody(p) ==
    LET opened == IF Peek(p) = "{" THEN Skip(p) ELSE Report(p, "Expected_Left_Curly")
    IN IF Peek(p) \in {"{", "case", "default"}
       THEN Visit(ParseSwitchCases(Visit(opened, "enter_block_scope", 0), TRUE),
                  "exit_block_scope", 0)
       ELSE Report(p, "Missing_Body_For_Switch_Statement")
parse_and_visit_switch(p) ==
    ExitSwitch(ParseSwitchBody(ParseCondition(EnterSwitch(Skip(p)),
                                 "Missing_Condition_For_Switch_Statement", FALSE)), p)

\* try, catch and finally
ParseCatchPattern(p) ==
    LET Declared(r) == visit_binding_element(r.e, r.p, "catch", FALSE)
    IN CASE Peek(p) \in BindingName -> Skip(Visit(ReportBadName(p), "catch", p.at))
         [] Peek(p) \in {"{", "["} ->
              Declared(parse_expression(p, [NoCommas EXCEPT !.in_operator = FALSE]))
         [] Peek(p) = ")" -> Report(p, "Missing_Catch_Variable_Between_Parentheses")
         [] OTHER -> Unimplemented(p)
CloseCatch(p) ==
    Skip(UnimplementedIfNot(IF Peek(p) = ":" THEN GiveUp(p, "beyond") ELSE p, ")"))
ParseCatchBody(p) ==
    IF Peek(p) = "{" THEN parse_and_visit_statement_block_no_scope(p)
    ELSE Report(p, "Missing_Body_For_Catch_Clause")
ParseCatch(p) ==
    LET q == Visit(Skip(p), "enter_block_scope", 0)
        named == IF Peek(q) = "(" THEN CloseCatch(ParseCatchPattern(Skip(q))) ELSE q
    IN Visit(ParseCatchBody(named), "exit_block_scope", 0)
ParseFinally(p) ==
    IF Peek(Skip(p)) = "{" THEN ParseBlock(Skip(p))
    ELSE Report(Skip(p), "Missing_Body_For_Finally_Clause")
parse_and_visit_catch_or_finally_or_both(p) ==
    LET Finally(q) == IF Peek(q) = "finally" THEN ParseFinally(q) ELSE q
    IN Finally(IF Peek(p) = "catch" THEN ParseCatch(p) ELSE p)
parse_and_visit_try_maybe_catch_maybe_finally(p) ==
    LET q == Skip(p)
        has_body == Peek(q) = "{"
        Catch(body) ==
            IF Peek(body) \in {"catch", "finally"}
            THEN parse_and_visit_catch_or_finally_or_both(body)
            ELSE ReportIf(has_body, body, "Missing_Catch_Or_Finally_For_Try_Statement")
    IN Catch(IF has_body THEN ParseBlock(q)
             ELSE Report(q, "Missing_Body_For_Try_Statement"))

-----------------------------------------------------------------------------
(* for *)

\* The tail of the head of a loop: condition; update.  The update is visited
\* after the body, so it is the tree of the result.
AfterCondition(q) ==
    LET s == IF Peek(q) = ";" THEN Skip(q)
             ELSE Report(q, "Missing_Semicolon_Between_For_Loop_Condition_And_Update")
    IN CASE Peek(q) = ")" ->
              R(Report(q, "C_Style_For_Loop_Is_Missing_Third_Component"), Nothing)
         [] Peek(q) # ")" /\ Peek(s) = ")" -> R(s, Nothing)
         [] OTHER -> parse_expression(s, AnyOperator)
ParseCStyleRemainder(p) ==
    AfterCondition(IF Peek(p) = ";" THEN p
                   ELSE VisitCondition(parse_expression(p, AnyOperator), TRUE))

\* What follows the expression that a head starts with.
AfterIn(p) ==
    IF Peek(p) = ";"
    THEN ParseCStyleRemainder(Skip(Report(p, "In_Disallowed_In_C_Style_For_Loop")))
    ELSE R(p, Nothing)
ParseInOrOfOrConditionUpdate(p, init) ==
    LET Assigned(rhs) == visit_assignment_expression(init, rhs.e, rhs.p)
        s == IF Peek(p) = ";" THEN Skip(p)
             ELSE Report(p, "Missing_Semicolon_Between_For_Loop_Init_And_Condition")
    IN CASE Peek(p) = "in" -> AfterIn(Assigned(parse_expression(Skip(p), AnyOperator)))
         [] Peek(p) = "of" ->
              R(Assigned(parse_expression(Skip(p), AnyOperator)), Nothing)
         [] Peek(p) = ")" ->
              R(visit_expression(init,
                  Report(p, "Missing_For_Loop_Rhs_Or_Components_After_Expression"),
                  "rhs"), Nothing)
         [] OTHER -> ParseCStyleRemainder(visit_expression(init, s, "rhs"))

\* The declarations of a head, from the keyword to what is assigned to them;
\* their visits are kept apart as `buffered`.
ParseForBindings(p) ==
    LET kind == Peek(p)
        q == Skip(p)
        let_is_variable ==
            kind = "let" /\ is_let_token_a_variable_reference(q, TRUE)
        r == parse_expression(p, [AnyOperator EXCEPT !.in_operator = FALSE])
        Apart(from) == [from EXCEPT !.visits = <<>>]
        Kept(before, after) ==
            [p |-> [after EXCEPT !.visits = before.visits],
             buffered |-> IF after.ended = "" THEN after.visits ELSE <<>>]
        let_of == kind = "let" /\ Peek(q) = "of"
    IN CASE let_is_variable ->
              Kept(r.p, maybe_visit_assignment(r.e,
                          visit_expression(r.e, Apart(r.p), "lhs")))
         [] let_of /\ Peek(Skip(q)) = "id" ->
              Kept(q, Report(Apart(q), "Let_With_No_Bindings"))
         [] OTHER ->
              Kept(q, parse_and_visit_let_bindings(Apart(q), kind, TRUE, ~let_of, TRUE))

ParseForDeclaration(p, head) ==
    LET q == head.p
        Move(from) == IF from.ended = "" THEN [from EXCEPT !.visits = @ \o head.buffered]
                      ELSE from
        rhs == parse_expression(Skip(q), AnyOperator)
        \* for (var x = init in xs) evaluates init before xs.
        is_var_in == Peek(p) = "var" /\ Peek(q) = "in"
    IN CASE Peek(q) = ";" -> ParseCStyleRemainder(Move(Skip(q)))
         [] Peek(q) \in {"in", "of"} ->
              R(IF is_var_in THEN visit_expression(rhs.e, Move(rhs.p), "rhs")
                ELSE Move(visit_expression(rhs.e, rhs.p, "rhs")), Nothing)
         [] Peek(q) = ")" ->
              R(Move(Report(q, "Missing_For_Loop_Rhs_Or_Components_After_Declaration")),
                Nothing)
         [] OTHER -> R(Unimplemented(q), Nothing)

\* The head after its "(", with the update as the tree.
ParseForHead(p) ==
    LET q == Skip(p)
        entered == IF Peek(p) = "var" THEN p ELSE Visit(p, "enter_for_scope", 0)
        From(init) == ParseInOrOfOrConditionUpdate(init.p, init.e)
    IN CASE Peek(p) = ";" -> ParseCStyleRemainder(q)
         [] Peek(p) \in {"const", "let", "var"} ->
              ParseForDeclaration(p, ParseForBindings(entered))
         [] Peek(p) = "async" /\ Peek(q) = "of" /\ Peek(Skip(q)) # "=>" ->
              ParseInOrOfOrConditionUpdate(
                Report(q, "Cannot_Assign_To_Variable_Named_Async_In_For_Of_Loop"),
                Leaf("Variable", p.at))
         [] Peek(p) = ")" -> R(Report(p, "Missing_Header_Of_For_Loop"), Nothing)
         [] OTHER -> From(parse_expression(p, [AnyOperator EXCEPT !.in_operator = FALSE]))

ParseExtraSemicolons(p) ==
    LET q == Skip(Report(p, "Unexpected_Semicolon_In_For_Loop"))
    IN CASE Peek(p) # ";" -> p
         [] Peek(p) = ";" /\ Peek(q) \in {";", ")"} -> ParseExtraSemicolons(q)
         [] OTHER -> ParseExtraSemicolons(parse_and_visit_expression(q, AnyOperator))

\* mutated: the update is visited where it is read
UpdateBeforeBody(head) ==
    LET updated == visit_expression(head.e, ParseExtraSemicolons(head.p), "rhs")
    IN ParseBody(ReportBadBody(Skip(UnimplementedIfNot(updated, ")"))),
                 "Missing_Body_For_For_Statement")
\* The update is visited after the body, which runs before it.
ParseForBody(head) ==
    LET closed == Skip(UnimplementedIfNot(ParseExtraSemicolons(head.p), ")"))
    IN visit_expression(head.e,
                        ParseBody(ReportBadBody(closed), "Missing_Body_For_For_Statement"),
                        "rhs")
\* mutated: only let leaves the scope of the loop
ForgetConstScope(p) ==
    LET q == EnterLoop(Skip(p))
        opened == IF Peek(q) = "await" THEN Skip(q) ELSE q
        inside == Skip(opened)
        looped == ParseForBody(ParseForHead(inside))
        exited == IF Peek(inside) = "let"
                  THEN Visit(looped, "exit_for_scope", 0) ELSE looped
    IN ExitLoop(IF Peek(opened) = "(" THEN exited
                ELSE Report(opened, "Missing_For_Loop_Header"), p)
parse_and_visit_for(p) ==
    LET q == EnterLoop(Skip(p))
        opened == IF Peek(q) = "await" THEN Skip(q) ELSE q
        inside == Skip(opened)
        looped == ParseForBody(ParseForHead(inside))
        exited == IF Peek(inside) \in {"const", "let"}
                  THEN Visit(looped, "exit_for_scope", 0) ELSE looped
    IN ExitLoop(IF Peek(opened) = "(" THEN exited
                ELSE Report(opened, "Missing_For_Loop_Header"), p)

-----------------------------------------------------------------------------
(* Statements *)

parse_and_visit_break_or_continue(p) ==
    LET q == Skip(p)
        is_break == Peek(p) = "break"
        may_break == p.in_switch_statement \/ p.in_loop_statement
    IN consume_semicolon(
         CASE Peek(q) \in BindingName ->
                IF HasLeadingNewline(q) THEN InsertSemicolon(q) ELSE Skip(q)
           [] Peek(q) \notin BindingName /\ is_break ->
                ReportIf(~may_break, q, "Invalid_Break")
           [] OTHER -> ReportIf(~p.in_loop_statement, q, "Invalid_Continue"))

parse_and_visit_throw_statement(p) ==
    LET q == Skip(p)
    IN CASE Peek(q) = ";" -> Skip(Report(q, "Expected_Expression_Before_Semicolon"))
         [] HasLeadingNewline(q) -> Report(q, "Expected_Expression_Before_Newline")
         [] OTHER -> ParseExpressionStatement(q)

parse_and_visit_return_statement(p, type) ==
    LET q == Skip(p)
        starts_expression == Peek(q) \in {"id", "await", "function", "{", "(", "[",
                                          "num", "+"}
    IN CASE Peek(q) = ";" -> Skip(q)
         [] Peek(q) = "}" -> q
         [] Peek(q) \notin {";", "}"} /\ HasLeadingNewline(q) ->
              ReportIf(starts_expression /\ type = "any_statement_in_block", q,
                       "Return_Statement_Returns_Nothing")
         [] OTHER -> ParseExpressionStatement(q)

ParseLabelled(p, type) ==
    parse_and_visit_statement(error_on_lexical_declaration(Skip(p)), type)

ParseLet(p, type) ==
    LET q == Skip(p)
        is_variable ==
            is_let_token_a_variable_reference(q, type # "no_declarations")
    IN CASE Peek(q) = ":" -> ParseLabelled(q, type)
         [] Peek(q) # ":" /\ is_variable -> R(ParseExpressionStatement(p), TRUE)
         [] OTHER -> R(ParseVariableDeclaration(p, "let"), TRUE)

ParseAsync(p, type) ==
    LET q == Skip(p)
    IN CASE Peek(q) = "function" ->
              R(IF HasLeadingNewline(q) THEN Visit(q, "use", p.at)
                ELSE parse_and_visit_function_declaration(q, "async"), TRUE)
         [] Peek(q) \in ContextualKeyword \cup
                        {"*", "+=", ",", ".", "eof", "=", "=>", "id", "in", "yield",
                         "(", "[", "+", "++", "?", "}", ";"} ->
              R(consume_semicolon(Visited(parse_async_expression(q, p.at, AnyOperator))), TRUE)
         [] Peek(q) = ":" -> ParseLabelled(q, type)
         [] OTHER -> R(Unimplemented(q), TRUE)

ParseAwait(p, type) ==
    LET q == Skip(p)
        operation == WithOperators(parse_await_expression(q, p.at, AnyOperator),
                                   AnyOperator)
    IN IF Peek(q) = ":"
       THEN ParseLabelled(
              ReportIf(p.in_async_function, q,
                       "Label_Named_Await_Not_Allowed_In_Async_Function"), type)
       ELSE R(parse_end_of_expression_statement(Visited(operation)), TRUE)

ParseLoopLabelOrExpression(p, type) ==
    LET q == Skip(p)
        named == WithOperators(R(q, Leaf("Variable", p.at)), AnyOperator)
    IN IF Peek(q) = ":" THEN ParseLabelled(q, type)
       ELSE R(parse_end_of_expression_statement(Visited(named)), TRUE)

\* Statements that may be a part of another one by their label.
ParseNamed(p, type) ==
    CASE Peek(p) = "let" -> ParseLet(p, type)
      [] Peek(p) = "async" -> ParseAsync(p, type)
      [] Peek(p) = "await" -> ParseAwait(p, type)
      [] Peek(p) = "yield" /\ p.in_generator_function -> R(ParseExpressionStatement(p), TRUE)
      [] OTHER -> ParseLoopLabelOrExpression(p, type)

StartsExpressionStatement ==
    {"*", "+=", ",", ".", "=", "=>", "in", "(", "[", "num", "+", "++", ")"}

\* The statements that start with a token of their own.
ParseOther(p, type) ==
    LET t == Peek(p)
        q == Skip(p)
        star == try_parse_function_with_leading_star(p)
        \* A case outside of a switch.
        case == parse_and_visit_expression(
                  Skip(Report(p, "Unexpected_Case_Outside_Switch_Statement")), AnyOperator)
        default == Skip(Report(p, "Unexpected_Default_Outside_Switch_Statement"))
    IN CASE t = ";" -> q
         [] t = "function" -> parse_and_visit_function_declaration(p, "normal")
         [] t \in {"const", "var"} -> ParseVariableDeclaration(p, t)
         [] t = "*" /\ star.attributes # "" ->
              parse_and_visit_function_declaration(star.p, star.attributes)
         [] t \in StartsExpressionStatement /\ ~(t = "*" /\ star.attributes # "") ->
              ParseExpressionStatement(p)
         [] t = "switch" -> parse_and_visit_switch(p)
         [] t = "return" -> parse_and_visit_return_statement(p, type)
         [] t = "throw" -> parse_and_visit_throw_statement(p)
         [] t = "try" -> parse_and_visit_try_maybe_catch_maybe_finally(p)
         [] t = "catch" ->
              parse_and_visit_catch_or_finally_or_both(Report(p, "Catch_Without_Try"))
         [] t = "finally" ->
              parse_and_visit_catch_or_finally_or_both(Report(p, "Finally_Without_Try"))
         [] t = "do" -> parse_and_visit_do_while(p)
         [] t = "for" -> parse_and_visit_for(p)
         [] t = "while" -> parse_and_visit_while(p)
         [] t = "if" -> parse_and_visit_if(p)
         [] t = "else" -> ParseRequired(Skip(Report(p, "Else_Has_No_If")), "any_statement")
         [] t \in {"break", "continue"} -> parse_and_visit_break_or_continue(p)
         [] t = "{" -> ParseBlock(p)
         [] t = "case" -> IF Peek(case) = ":" THEN Skip(case) ELSE case
         [] t = "default" -> IF Peek(default) = ":" THEN Skip(default) ELSE default
         [] t \in {":", "?"} -> Skip(Report(p, "Unexpected_Token"))
         [] t \in {"...", "]"} -> Unimplemented(p)

\* Whether there was a statement, and the parser after it.
WholeStatement(p, type) ==
    CASE Peek(p) \in {"eof", "}"} -> R(p, FALSE)
      [] Peek(p) \in BindingName -> ParseNamed(p, type)
      [] OTHER -> R(ParseOther(p, type), TRUE)

Descend(p, goal, how) ==
    CASE goal = "expression" -> WholeExpression(p, how)
      [] goal = "remainder" -> WholeRemainder(p, how.builder, how.prec)
      [] goal = "statement" -> WholeStatement(p, how)

parse_and_visit_module(p) ==
    LET After(s) ==
          CASE s.e -> parse_and_visit_module(s.p)
            [] ~s.e /\ Peek(s.p) = "}" ->
                 parse_and_visit_module(Skip(Report(s.p, "Unmatched_Right_Curly")))
            [] OTHER -> Visit(s.p, "end_of_module", 0)
    IN After(parse_and_visit_statement(p, "any_statement_in_block"))
=============================================================================
