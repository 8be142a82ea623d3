---------------------------- MODULE ParserState ----------------------------
(***************************************************************************)
(* What the parser (src/quick-lint-js/fe/parse.h) keeps while it reads a   *)
(* JavaScript program, and the trees it builds for expressions.            *)
(*                                                                         *)
(* A token is written as its spelling: "id" is any identifier, "num" a     *)
(* literal, "eof" the end of the file, which every program ends with.      *)
(* `newlines` are the tokens that a line terminator precedes.  Names are   *)
(* told apart by the place they are written at, so no two identifiers of a *)
(* program are equal.                                                      *)
(*                                                                         *)
(* The visitor of the program (the variable analyzer) is a sequence of     *)
(* visits <<kind, token>>; diagnostics are kept by their names.            *)
(*                                                                         *)
(* The operators of this module and of the modules above it are the        *)
(* functions of the parser, under their names.  Each takes the parser and  *)
(* returns it; where the function returns a tree too, the result is a      *)
(* record of the parser p and the tree e.                                  *)
(***************************************************************************)
EXTENDS Naturals, Sequences

Keyword == {"async", "let", "of", "await", "yield", "function", "break",
            "case", "catch", "const", "continue", "default", "do", "else",
            "finally", "for", "if", "in", "return", "switch", "throw", "try",
            "var", "while"}

ContextualKeyword == {"async", "let", "of"}

\* The keywords that are not names anywhere.
ReservedExceptAwaitAndYield == Keyword \ (ContextualKeyword \cup {"await", "yield"})

Token == Keyword \cup {"id", "num", ";", ",", ":", ".", "?", "=", "=>", "+",
                       "+=", "*", "...", "++", "(", ")", "[", "]", "{", "}"}

(***************************************************************************)
(* A parser at the start of a program.  `ended` says why the parser gave   *)
(* up, if it did: "fatal" for QLJS_PARSER_UNIMPLEMENTED, the error it does *)
(* not recover from, and "beyond" where the program goes on into a part    *)
(* that this model leaves out (the types of TypeScript).                   *)
(***************************************************************************)
NewParser(tokens, newlines) ==
    [tokens |-> tokens, newlines |-> newlines, at |-> 1, inserted |-> FALSE,
     visits |-> <<>>, diags |-> <<>>, ended |-> "",
     in_top_level |-> TRUE, in_async_function |-> FALSE,
     in_generator_function |-> FALSE, in_loop_statement |-> FALSE,
     in_switch_statement |-> FALSE]

Peek(p) == IF p.inserted THEN ";" ELSE p.tokens[p.at]
HasLeadingNewline(p) == ~p.inserted /\ p.at \in p.newlines
AtEnd(p) == Peek(p) = "eof"

\* The token, told apart from the semicolon that may be inserted before it.
Begin(p) == <<p.at, p.inserted>>

Skip(p) ==
    CASE p.inserted -> [p EXCEPT !.inserted = FALSE]
      [] p.at < Len(p.tokens) -> [p EXCEPT !.at = @ + 1]
      [] OTHER -> p

InsertSemicolon(p) == IF p.ended = "" THEN [p EXCEPT !.inserted = TRUE] ELSE p

Visit(p, kind, token) ==
    IF p.ended = "" THEN [p EXCEPT !.visits = Append(@, <<kind, token>>)] ELSE p

Report(p, diag) ==
    IF p.ended = "" THEN [p EXCEPT !.diags = Append(@, diag)] ELSE p

ReportIf(condition, p, diag) == IF condition THEN Report(p, diag) ELSE p

\* The parser stops: it neither reads, visits nor reports any more.
GiveUp(p, why) ==
    IF p.ended # "" THEN p
    ELSE [p EXCEPT !.ended = why, !.at = Len(p.tokens), !.inserted = FALSE]
Unimplemented(p) == GiveUp(p, "fatal")
UnimplementedIfNot(p, token) ==
    IF Peek(p) = token THEN p ELSE Unimplemented(p)

\* Lexer::roll_back_transaction: the parser p reads again from where q was;
\* its visits and diagnostics stay.
RollBackLexer(p, q) ==
    IF p.ended = "" THEN [p EXCEPT !.at = q.at, !.inserted = q.inserted] ELSE p

-----------------------------------------------------------------------------
(* Guards: what the parser is inside of, restored when the guard ends *)

\* mutated: a function in an async function is async
EnterAsyncFunction(p, attributes) ==
    [p EXCEPT !.in_async_function = @ \/ attributes \in {"async", "async_generator"},
              !.in_generator_function = attributes \in {"generator", "async_generator"},
              !.in_top_level = FALSE,
              !.in_loop_statement = FALSE,
              !.in_switch_statement = FALSE]
EnterFunction(p, attributes) ==
    [p EXCEPT !.in_async_function = attributes \in {"async", "async_generator"},
              !.in_generator_function = attributes \in {"generator", "async_generator"},
              !.in_top_level = FALSE,
              !.in_loop_statement = FALSE,
              !.in_switch_statement = FALSE]
ExitFunction(p, q) ==
    [p EXCEPT !.in_async_function = q.in_async_function,
              !.in_generator_function = q.in_generator_function,
              !.in_top_level = q.in_top_level,
              !.in_loop_statement = q.in_loop_statement,
              !.in_switch_statement = q.in_switch_statement]
EnterLoop(p) == [p EXCEPT !.in_loop_statement = TRUE]
ExitLoop(p, q) == [p EXCEPT !.in_loop_statement = q.in_loop_statement]
EnterSwitch(p) == [p EXCEPT !.in_switch_statement = TRUE]
ExitSwitch(p, q) == [p EXCEPT !.in_switch_statement = q.in_switch_statement]

\* parse_generator_star: the attributes of a function whose "*" may follow.
WithStar(p, attributes) ==
    CASE Peek(p) # "*" -> attributes
      [] attributes \in {"async", "async_generator"} -> "async_generator"
      [] OTHER -> "generator"
SkipStar(p) == IF Peek(p) = "*" THEN Skip(p) ELSE p

-----------------------------------------------------------------------------
(* Trees of expressions *)

Leaf(kind, token) == [kind |-> kind, at |-> token, kids |-> <<>>]
Tree(kind, kids) == [kind |-> kind, at |-> 0, kids |-> kids]
Nothing == Leaf("Nothing", 0)
Missing == Leaf("Missing", 0)

\* A binary operator keeps the operators between its operands.
BinaryOperator(kids, ops) ==
    [kind |-> "Binary_Operator", at |-> 0, kids |-> kids, ops |-> ops]

\* The operands read so far of what may become a binary operator.
Builder(ast) == [kids |-> <<ast>>, ops |-> <<>>]
LastExpression(b) == b.kids[Len(b.kids)]
AddChild(b, operator, child) ==
    [kids |-> Append(b.kids, child), ops |-> Append(b.ops, operator)]
ReplaceLast(b, ast) == [b EXCEPT !.kids[Len(b.kids)] = ast]
HasMultipleChildren(b) == Len(b.kids) > 1
BuildExpression(b) ==
    IF HasMultipleChildren(b) THEN BinaryOperator(b.kids, b.ops) ELSE b.kids[1]

HasComma(ast) ==
    ast.kind = "Binary_Operator" /\ \E i \in DOMAIN ast.ops : ast.ops[i] = ","

\* An entry of an object literal; any of the property and the initializer may
\* be Nothing.
Entry(property, value, init) ==
    [property |-> property, value |-> value, init |-> init]
IsMergedPropertyAndValueShorthand(entry) ==
    /\ entry.property.kind = "Literal"
    /\ entry.value.kind = "Variable"
    /\ entry.property.at = entry.value.at

-----------------------------------------------------------------------------
(* Precedence: which operators an expression may contain.  In JavaScript a *)
(* colon starts a type only where the parser says `always`.                *)

AnyOperator ==
    [binary_operators |-> TRUE, math_or_logical_or_assignment |-> TRUE,
     equals_assignment |-> TRUE, commas |-> TRUE, in_operator |-> TRUE,
     colon_type_annotation |-> FALSE, trailing_identifiers |-> FALSE,
     trailing_curly_is_arrow_body |-> TRUE, conditional_operator |-> TRUE,
     colon_question_is_optional |-> FALSE]
NoCommas == [AnyOperator EXCEPT !.commas = FALSE]
Operand == [NoCommas EXCEPT !.binary_operators = FALSE]

\* An operand of an operator that binds tighter than every binary one.
UnaryOperand(in_operator) ==
    [NoCommas EXCEPT !.math_or_logical_or_assignment = FALSE,
                     !.in_operator = in_operator,
                     !.conditional_operator = FALSE]
=============================================================================
