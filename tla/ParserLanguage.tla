--------------------------- MODULE ParserLanguage ---------------------------
(***************************************************************************)
(* Programs of JavaScript, with what they mean to the visitor: the         *)
(* language that the parser must accept without a diagnostic.              *)
(*                                                                         *)
(* A grammar is a sequence of rules.  The text of a rule is made of tokens *)
(* and of names of what other rules derive; "newline" stands for a line    *)
(* terminator in front of the next token.  A program is given by the rules *)
(* of its leftmost derivation.                                             *)
(*                                                                         *)
(* What a rule means are two sequences of visits: those that happen        *)
(* `during` the text is read (the functions inside of an expression) and   *)
(* those `after` it was read.  <<kind, i>> in them is a visit of the token *)
(* that is the i-th of the rule's text, D(i) and A(i) the two parts of     *)
(* what its i-th name derives.                                             *)
(***************************************************************************)
EXTENDS Parser, FiniteSets, SequencesExt

IsToken(symbol) == symbol \in Token
IsName(symbol) == symbol \notin Token \cup {"newline"}

D(i) == <<"during", i>>
A(i) == <<"after", i>>
Use(i) == <<"use", i>>
Assign(i) == <<"assign", i>>
Declare(i) == <<"declare", i>>

\* A rule means what its parts mean, in the order of the text, ...
NamesOf(text) ==
    SelectSeq([i \in DOMAIN text |-> i], LAMBDA i : IsName(text[i]))
Rule(of, text) ==
    [of |-> of, text |-> text, declares |-> "declare",
     during |-> [i \in DOMAIN NamesOf(text) |-> D(NamesOf(text)[i])],
     after |-> [i \in DOMAIN NamesOf(text) |-> A(NamesOf(text)[i])]]
\* ... unless it says something else.
Means(rule, after) == [rule EXCEPT !.after = after]
\* A statement is read and visited part by part.
Does(rule, after) == [rule EXCEPT !.during = <<>>, !.after = after]
InTurn(of, text) ==
    LET names == NamesOf(text)
    IN Does(Rule(of, text),
            FlattenSeq([i \in DOMAIN names |-> <<D(names[i]), A(names[i])>>]))
\* A function inside of an expression is visited while it is read.
IsVisitedEarly(rule, during) == [rule EXCEPT !.during = during, !.after = <<>>]
\* The kind of the declarations in the parts of the rule.
Declaring(rule, kind) == [rule EXCEPT !.declares = kind]

Block(parts) == <<<<"enter_block_scope", 0>>>> \o parts \o <<<<"exit_block_scope", 0>>>>
Function(parameters, body) ==
    <<<<"enter_function_scope", 0>>>> \o parameters
    \o <<<<"enter_function_scope_body", 0>>>> \o body \o <<<<"exit_function_scope", 0>>>>

-----------------------------------------------------------------------------
(* What a derivation means *)

\* The result of a part of a derivation: how many rules and tokens it takes
\* and its visits.
RECURSIVE Derived(_, _, _, _), DerivedText(_, _, _, _, _)

\* The parts of the text of rule r from its i-th symbol on.
DerivedText(grammar, rules, r, at, i) ==
    LET text == grammar[rules[r[1]]].text
        part == Derived(grammar, rules, r[2], at)
        Token1 == [next |-> r[2], at |-> at + 1, from |-> at, during |-> <<>>, after |-> <<>>]
    IN CASE i > Len(text) -> <<>>
         [] i <= Len(text) /\ text[i] = "newline" ->
              <<[Token1 EXCEPT !.at = at]>>
              \o DerivedText(grammar, rules, r, at, i + 1)
         [] i <= Len(text) /\ IsToken(text[i]) ->
              <<Token1>> \o DerivedText(grammar, rules, r, at + 1, i + 1)
         [] OTHER ->
              <<part>> \o DerivedText(grammar, rules, <<r[1], part.next>>, part.at, i + 1)

\* What the k-th rule derives, whose first token is the at-th.
Derived(grammar, rules, k, at) ==
    LET rule == grammar[rules[k]]
        parts == DerivedText(grammar, rules, <<k, k + 1>>, at, 1)
        Visits(item) ==
            CASE item[1] = "during" -> parts[item[2]].during
              [] item[1] = "after" ->
                   LET visits == parts[item[2]].after
                   IN [v \in DOMAIN visits |->
                         IF visits[v][1] = "declare" THEN <<rule.declares, visits[v][2]>>
                         ELSE visits[v]]
              [] OTHER -> <<<<IF item[1] = "declare" THEN rule.declares ELSE item[1],
                              IF item[2] = 0 THEN 0 ELSE parts[item[2]].from>>>>
        All(items) == FlattenSeq([i \in DOMAIN items |-> Visits(items[i])])
        last == IF parts = <<>> THEN [next |-> k + 1, at |-> at]
                ELSE [next |-> parts[Len(parts)].next, at |-> parts[Len(parts)].at]
    IN [next |-> last.next, at |-> last.at, from |-> at,
        during |-> All(rule.during), after |-> All(rule.after)]

MeaningOf(grammar, rules) ==
    LET module == Derived(grammar, rules, 1, 1)
    IN module.during \o module.after \o <<<<"end_of_module", 0>>>>

-----------------------------------------------------------------------------
(* Grammars *)

Module == <<Rule("Module", <<"Statement">>), Rule("Module", <<"Statement", "Statement">>)>>
Variable == <<Means(Rule("Expression", <<"id">>), <<Use(1)>>)>>
ExpressionStatement == <<InTurn("Statement", <<"Expression", ";">>)>>
Body == <<Rule("Body", <<>>), Rule("Body", <<"Statement">>)>>

\* Statements that control others.
Control ==
    Module \o Variable \o ExpressionStatement \o Body \o
    <<Does(Rule("Statement", <<"{", "Body", "}">>), Block(<<A(2)>>)),
      Rule("Statement", <<";">>),
      Rule("Statement", <<"if", "(", "Expression", ")", "Statement">>),
      Rule("Statement", <<"if", "(", "Expression", ")", "Statement", "else", "Statement">>),
      Does(Rule("Statement", <<"if", "(", "Expression", ")", "function", "id", "(", ")",
                               "{", "Body", "}">>),
           <<A(3)>> \o Block(<<<<"function", 6>>>> \o Function(<<>>, <<A(10)>>))),
      Rule("Statement", <<"while", "(", "Expression", ")", "Loop">>),
      Rule("Statement", <<"do", "Loop", "while", "(", "Expression", ")", ";">>),
      Rule("Statement", <<"do", "Loop", "while", "(", "Expression", ")">>),
      Rule("Statement", <<"throw", "Expression", ";">>),
      Rule("Statement", <<"id", ":", "Statement">>),
      Rule("Statement", <<"id", ":", "while", "(", "Expression", ")", "continue", "id", ";">>),
      Rule("Loop", <<"Statement">>),
      Rule("Loop", <<"break", ";">>),
      Does(Rule("Loop", <<"{", "continue", "}">>), Block(<<>>)),
      Does(Rule("Loop", <<"{", "function", "id", "(", ")", "{", "Body", "}",
                          "break", "}">>),
           Block(<<<<"function", 3>>>> \o Function(<<>>, <<A(7)>>))),
      Rule("Loop", <<"if", "(", "Expression", ")", "continue", ";">>)>>

Cases ==
    Module \o Variable \o ExpressionStatement \o Body \o
    <<Does(Rule("Statement", <<"switch", "(", "Expression", ")", "{", "Cases", "}">>),
           <<A(3)>> \o Block(<<A(6)>>)),
      Rule("Cases", <<>>),
      Rule("Cases", <<"Case">>),
      Rule("Cases", <<"Case", "Case">>),
      Rule("Case", <<"case", "Expression", ":", "Body">>),
      Rule("Case", <<"default", ":", "break", ";">>),
      Rule("Case", <<"case", "Expression", ":", "Statement", "break", ";">>),
      Does(Rule("Statement", <<"do", "switch", "(", "Expression", ")",
                               "{", "default", ":", "continue", "}",
                               "while", "(", "Expression", ")", ";">>),
           <<A(4)>> \o Block(<<>>) \o <<A(13)>>),
      Does(Rule("Statement", <<"try", "{", "Body", "}", "Handler">>), Block(<<A(3)>>) \o <<A(5)>>),
      Does(Rule("Handler", <<"catch", "{", "Body", "}">>), Block(<<A(3)>>)),
      Does(Rule("Handler", <<"catch", "(", "id", ")", "{", "Body", "}">>),
           Block(<<<<"catch", 3>>, A(6)>>)),
      Does(Rule("Handler", <<"finally", "{", "Body", "}">>), Block(<<A(3)>>)),
      Does(Rule("Handler", <<"catch", "(", "[", "id", "]", ")", "{", "}",
                             "finally", "{", "Body", "}">>),
           Block(<<<<"catch", 4>>>>) \o Block(<<A(11)>>))>>

\* The heads of `for`, whose parts are not visited in the order of the text.
Loops ==
    <<Rule("Module", <<"Statement">>)>> \o ExpressionStatement \o
    <<Means(Rule("Expression", <<"id">>), <<Use(1)>>),
      IsVisitedEarly(Rule("Expression", <<"id", "=>", "Expression">>),
                     Function(<<<<"arrow_parameter", 1>>>>, <<D(3), A(3)>>)),
      InTurn("Statement", <<"for", "(", "Start", ";", "Condition", ";", ")", "Loop">>),
      Does(Rule("Statement", <<"for", "(", "Start", ";", "Condition", ";", "Expression", ")",
                               "Loop">>),
           <<D(3), A(3), D(5), A(5), D(7), D(9), A(9), A(7)>>),
      Does(Rule("Statement", <<"for", "(", "Binding", ";", "Condition", ";", "Expression", ")",
                               "Loop">>),
           <<<<"enter_for_scope", 0>>, D(3), A(3), D(5), A(5), D(7), D(9), A(9), A(7),
             <<"exit_for_scope", 0>>>>),
      Does(Rule("Statement", <<"for", "(", "const", "id", "of", "Expression", ")", "Loop">>),
           <<<<"enter_for_scope", 0>>, D(6), A(6), <<"const", 4>>, D(8), A(8),
             <<"exit_for_scope", 0>>>>),
      Does(Rule("Statement", <<"for", "(", "let", "Pattern", "in", "Expression", ")", "Loop">>),
           <<<<"enter_for_scope", 0>>, D(6), A(6), A(4), D(8), A(8),
             <<"exit_for_scope", 0>>>>),
      Does(Rule("Statement", <<"for", "(", "var", "id", "of", "Expression", ")", "Loop">>),
           <<D(6), A(6), <<"var", 4>>, D(8), A(8)>>),
      Does(Rule("Statement", <<"for", "(", "var", "id", "=", "id", "in", "id", ")", "Loop">>),
           <<Use(6), <<"var", 4>>, Use(8), D(10), A(10)>>),
      Does(Rule("Statement", <<"for", "(", "id", "in", "Expression", ")", "Loop">>),
           <<D(5), A(5), Assign(3), D(7), A(7)>>),
      Does(Rule("Statement", <<"for", "(", "id", ".", "id", "of", "Expression", ")", "Loop">>),
           <<D(7), Use(3), A(7), D(9), A(9)>>),
      Does(Rule("Statement", <<"for", "(", "let", "in", "Expression", ")", "Loop">>),
           <<<<"enter_for_scope", 0>>, D(5), A(5), Assign(3), D(7), A(7),
             <<"exit_for_scope", 0>>>>),
      Does(Rule("Statement", <<"for", "await", "(", "const", "id", "of", "id", ")", "Loop">>),
           <<<<"enter_for_scope", 0>>, Use(7), <<"const", 5>>, D(9), A(9),
             <<"exit_for_scope", 0>>>>),
      Does(Rule("Statement", <<"for", "(", "let", "of", "of", "Expression", ")", "Loop">>),
           <<<<"enter_for_scope", 0>>, D(6), A(6), <<"let", 4>>, D(8), A(8),
             <<"exit_for_scope", 0>>>>),
      Does(Rule("Statement", <<"for", "(", "async", ".", "id", "of", "Expression", ")", "Loop">>),
           <<D(7), Use(3), A(7), D(9), A(9)>>),
      Rule("Start", <<>>),
      Rule("Start", <<"Expression">>),
      Does(Rule("Start", <<"async", "of", "=>", "Expression">>),
           Function(<<<<"arrow_parameter", 2>>>>, <<D(4), A(4)>>)),
      Declaring(Means(Rule("Start", <<"var", "id">>), <<Declare(2)>>), "var"),
      Declaring(Means(Rule("Binding", <<"let", "id", "=", "Expression">>),
                      <<A(4), Declare(2)>>), "let"),
      Means(Rule("Binding", <<"let", "of">>), <<<<"let", 2>>>>),
      Means(Rule("Binding", <<"const", "id", "=", "[", "id", "in", "id", "]">>),
            <<Use(5), Use(7), <<"const", 2>>>>),
      Rule("Condition", <<>>),
      Rule("Condition", <<"Expression">>),
      Means(Rule("Condition", <<"id", "in", "id">>), <<Use(1), Use(3)>>),
      Declaring(Means(Rule("Pattern", <<"id">>), <<Declare(1)>>), "let"),
      Declaring(Means(Rule("Pattern", <<"[", "id", "]">>), <<Declare(2)>>), "let"),
      Rule("Loop", <<";">>),
      Rule("Loop", <<"Statement">>),
      Rule("Loop", <<"continue", ";">>)>>

\* What is assigned and what is used.
Expressions ==
    <<Rule("Module", <<"Assigned", ";">>),
      Means(Rule("Assigned", <<"id", "=", "Value">>), <<A(3), Assign(1)>>),
      Means(Rule("Assigned", <<"id", "+=", "Value">>), <<Use(1), A(3), Assign(1)>>),
      Means(Rule("Assigned", <<"id", ".", "id", "=", "Value">>), <<Use(1), A(5)>>),
      Means(Rule("Assigned", <<"[", "id", ",", "id", "]", "=", "Value">>),
            <<A(7), Assign(2), Assign(4)>>),
      Means(Rule("Assigned", <<"id", "++">>), <<Use(1), Assign(1)>>),
      Rule("Value", <<"Sum">>),
      Rule("Value", <<"Assigned">>),
      Rule("Value", <<"Sum", "?", "Value", ":", "Value">>),
      IsVisitedEarly(Rule("Value", <<"id", "=>", "Concise">>),
                     Function(<<<<"arrow_parameter", 1>>>>, <<D(3), A(3)>>)),
      Rule("Concise", <<"(", "Value", ")">>),
      Means(Rule("Concise", <<"id", "?", "Value", ":", "Value">>), <<Use(1), A(3), A(5)>>),
      Means(Rule("Concise", <<"id", "=", "Value">>), <<A(3), Assign(1)>>),
      Means(Rule("Value", <<"{", "id", "}", "=", "Value">>), <<A(5), Assign(2)>>),
      Means(Rule("Value", <<"(", "{", "id", ":", "id", "=", "num", "}", "=", "id", ")">>),
            <<Use(10), Assign(5)>>),
      Rule("Sum", <<"Operand">>),
      Rule("Sum", <<"Operand", "+", "Operand">>),
      Means(Rule("Sum", <<"id", "in", "Operand">>), <<Use(1), A(3)>>),
      Means(Rule("Operand", <<"id">>), <<Use(1)>>),
      Rule("Operand", <<"num">>),
      Rule("Operand", <<"+", "Operand">>),
      Means(Rule("Operand", <<"++", "id">>), <<Use(2), Assign(2)>>),
      Rule("Operand", <<"(", "Value", ")">>),
      Rule("Operand", <<"(", "Value", ",", "Value", ")">>),
      Rule("Operand", <<"[", "Value", "]">>),
      Rule("Operand", <<"[", ",", "...", "Value", ",", "]">>),
      Means(Rule("Operand", <<"id", "[", "Value", "]">>), <<Use(1), A(3)>>),
      Means(Rule("Operand", <<"id", ".", "if">>), <<Use(1)>>),
      Means(Rule("Operand", <<"id", "(", ")", "(", "...", "Value", ",", ")">>),
            <<Use(1), A(6)>>),
      Rule("Operand", <<"{", "}">>),
      Means(Rule("Operand", <<"{", "id", ",", "id", ":", "Value", "}">>), <<Use(2), A(6)>>),
      Rule("Operand", <<"{", "[", "Value", "]", ":", "Value", "}">>),
      Rule("Operand", <<"{", "function", ":", "Value", ",", "...", "Value", "}">>)>>

\* Functions and what they declare.
Functions ==
    <<Rule("Module", <<"Statement">>),
      Does(Rule("Statement", <<"function", "id", "Rest">>), <<<<"function", 2>>, A(3)>>),
      Does(Rule("Statement", <<"function", "*", "id", "Rest">>), <<<<"function", 3>>, A(4)>>),
      InTurn("Statement", <<"(", "Value", ")", ";">>),
      Means(Rule("Value", <<"id">>), <<Use(1)>>),
      IsVisitedEarly(Rule("Value", <<"function", "Rest">>), <<A(2)>>),
      IsVisitedEarly(Rule("Value", <<"function", "id", "(", ")", "{", "}">>),
                     <<<<"enter_named_function_scope", 2>>,
                       <<"enter_function_scope_body", 0>>, <<"exit_function_scope", 0>>>>),
      IsVisitedEarly(Rule("Value", <<"(", ")", "=>", "Concise">>), Function(<<>>, <<D(4), A(4)>>)),
      IsVisitedEarly(Rule("Value", <<"id", "=>", "{", "Body", "}">>),
                     Function(<<<<"arrow_parameter", 1>>>>, <<A(4)>>)),
      Declaring(IsVisitedEarly(Rule("Value", <<"(", "Pattern", ",", "id", ")", "=>", "Concise">>),
                               Function(<<A(2), Declare(4)>>, <<D(7), A(7)>>)),
                "arrow_parameter"),
      Declaring(IsVisitedEarly(Rule("Value", <<"(", "...", "Pattern", ")", "=>", "{", "Body", "}">>),
                               Function(<<A(3)>>, <<A(7)>>)),
                "arrow_parameter"),
      Means(Rule("Concise", <<"id">>), <<Use(1)>>),
      Rule("Concise", <<"(", "Value", ")">>),
      IsVisitedEarly(Rule("Value", <<"{", "id", "Rest", "}">>), <<A(3)>>),
      [Rule("Value", <<"{", "*", "if", "Rest", ",", "[", "Value", "]", "Rest", "}">>)
         EXCEPT !.during = <<A(4), D(7), A(9)>>, !.after = <<A(7)>>],
      Does(Rule("Rest", <<"(", ")", "{", "Body", "}">>), Function(<<>>, <<A(4)>>)),
      Declaring(Does(Rule("Rest", <<"(", "Pattern", ",", ")", "{", "Body", "}">>),
                     Function(<<A(2)>>, <<A(6)>>)), "parameter"),
      Declaring(Does(Rule("Rest", <<"(", "Default", ",", "...", "Pattern", ")", "{", "}">>),
                     Function(<<D(2), A(2), A(5)>>, <<>>)), "parameter"),
      Rule("Body", <<>>),
      Rule("Body", <<"Statement">>),
      InTurn("Body", <<"return", "Value", ";">>),
      Means(Rule("Default", <<"id", "=", "Value">>), <<A(3), Declare(1)>>),
      Means(Rule("Pattern", <<"id">>), <<Declare(1)>>),
      Means(Rule("Pattern", <<"[", "id", "=", "id", ",", "Pattern", "]">>),
            <<Use(4), Declare(2), A(6)>>),
      Means(Rule("Pattern", <<"{", "id", ",", "id", ":", "Pattern", "}">>),
            <<Declare(2), A(6)>>),
      Means(Rule("Pattern", <<"{", "id", "=", "id", ",", "...", "id", "}">>),
            <<Use(4), Declare(2), Declare(7)>>)>>

\* Semicolons that a line terminator, or the end of a block, stands for, and
\* the words that are names where they are no keywords.
Insertion ==
    <<Rule("Module", <<"Line", "Next">>),
      Rule("Next", <<>>),
      Rule("Next", <<"newline", "Line">>),
      Does(Rule("Next", <<"newline", "{", "Line", "}">>), Block(<<A(3)>>)),
      Does(Rule("Next", <<"newline", "while", "(", "id", ")", "{", "Loop", "}">>),
           <<Use(4)>> \o Block(<<A(7)>>)),
      Rule("Next", <<";", "Line">>),
      Means(Rule("Line", <<"Name">>), <<A(1)>>),
      Means(Rule("Line", <<"id", "=", "Name">>), <<A(3), Assign(1)>>),
      Means(Rule("Line", <<"Name", "newline", "(", "id", ")">>), <<A(1), Use(4)>>),
      Means(Rule("Line", <<"Name", "newline", "++", "id">>), <<A(1), Use(4), Assign(4)>>),
      Means(Rule("Line", <<"++", "newline", "id">>), <<Use(3), Assign(3)>>),
      Rule("Line", <<"throw", "Name">>),
      Means(Rule("Line", <<"let", "newline", "id">>), <<<<"let", 3>>>>),
      Means(Rule("Line", <<"var", "let">>), <<<<"var", 2>>>>),
      Means(Rule("Line", <<"const", "id", "=", "id", ",", "newline", "id", "=", "num">>),
            <<Use(4), <<"const", 2>>, <<"const", 7>>>>),
      Means(Rule("Line", <<"let", "=", "id">>), <<Use(3), Assign(1)>>),
      Means(Rule("Line", <<"async", "newline", "function", "id", "(", ")", "{", "}">>),
            <<Use(1), <<"function", 4>>>> \o Function(<<>>, <<>>)),
      Means(Rule("Line", <<"async", "newline", "id">>), <<Use(1), Use(3)>>),
      Means(Rule("Line", <<"async", "newline", "++", "id">>), <<Use(1), Use(4), Assign(4)>>),
      Means(Rule("Line", <<"do", "id", "newline", "while", "(", "id", ")">>), <<Use(2), Use(6)>>),
      Does(Rule("Line", <<"function", "id", "(", ")", "{", "Return", "}">>),
           <<<<"function", 2>>>> \o Function(<<>>, <<A(6)>>)),
      Rule("Return", <<"return">>),
      Rule("Return", <<"return", "Name", "newline">>),
      Rule("Return", <<"if", "(", "Name", ")", "return", "newline", "Name">>),
      Means(Rule("Loop", <<"break", "newline", "id">>), <<Use(3)>>),
      Means(Rule("Loop", <<"id", "newline", "continue">>), <<Use(1)>>),
      Means(Rule("Name", <<"id">>), <<Use(1)>>),
      Means(Rule("Name", <<"of">>), <<Use(1)>>),
      Means(Rule("Name", <<"yield">>), <<Use(1)>>)>>

\* async, await and yield: names, operators and parts of functions.
Async ==
    <<Rule("Module", <<"Statement">>),
      InTurn("Statement", <<"Value", ";">>),
      Does(Rule("Statement", <<"async", "function", "id", "(", ")", "{", "Awaits", "}">>),
           <<<<"function", 3>>>> \o Function(<<>>, <<A(7)>>)),
      Does(Rule("Statement", <<"async", "function", "*", "id", "(", ")", "{", "Awaits", "}">>),
           <<<<"function", 4>>>> \o Function(<<>>, <<A(8)>>)),
      Does(Rule("Statement", <<"function", "id", "(", "await", ")", "{", "Plain", "}">>),
           <<<<"function", 2>>>> \o Function(<<<<"parameter", 4>>>>, <<A(7)>>)),
      Does(Rule("Statement", <<"function", "*", "id", "(", ")", "{", "Yields", "}">>),
           <<<<"function", 3>>>> \o Function(<<>>, <<A(7)>>)),
      InTurn("Awaits", <<"Value", ";">>),
      Does(Rule("Awaits", <<"function", "id", "(", ")", "{", "Plain", "}", "await", "id", ";">>),
           <<<<"function", 2>>>> \o Function(<<>>, <<A(6)>>) \o <<Use(9)>>),
      Does(Rule("Awaits", <<"for", "await", "(", "const", "id", "of", "Value", ")", ";">>),
           <<<<"enter_for_scope", 0>>, D(7), A(7), <<"const", 5>>, <<"exit_for_scope", 0>>>>),
      InTurn("Plain", <<"PlainValue", ";">>),
      Does(Rule("Plain", <<"async", "function", "id", "(", ")", "{", "Awaits", "}",
                           "await", "(", "id", ")">>),
           <<<<"function", 3>>>> \o Function(<<>>, <<A(7)>>) \o <<Use(9), Use(11)>>),
      Means(Rule("PlainValue", <<"await">>), <<Use(1)>>),
      Means(Rule("PlainValue", <<"await", "+", "id">>), <<Use(1), Use(3)>>),
      Means(Rule("PlainValue", <<"await", "(", "id", ")">>), <<Use(1), Use(3)>>),
      Means(Rule("PlainValue", <<"await", "[", "id", "]">>), <<Use(1), Use(3)>>),
      Means(Rule("PlainValue", <<"await", "=", "id">>), <<Use(3), Assign(1)>>),
      IsVisitedEarly(Rule("PlainValue", <<"async", "(", "id", ")", "=>", "Value">>),
                     Function(<<<<"arrow_parameter", 3>>>>, <<D(6), A(6)>>)),
      Rule("Yields", <<"yield", ";">>),
      Does(Rule("Yields", <<"(", "id", "=>", "yield", ")", ";", "yield", "id">>),
           Function(<<<<"arrow_parameter", 2>>>>, <<Use(4)>>) \o <<Use(8)>>),
      Rule("Yields", <<"Yield", ";">>),
      Means(Rule("Yields", <<"id", "=", "Yield", ";">>), <<A(3), Assign(1)>>),
      Rule("Yield", <<"yield", "*", "Yield">>),
      Rule("Yield", <<"yield", "Yield">>),
      Rule("Yield", <<"(", "yield", ")">>),
      Means(Rule("Yield", <<"id">>), <<Use(1)>>),
      Means(Rule("Value", <<"id">>), <<Use(1)>>),
      Means(Rule("Value", <<"async">>), <<Use(1)>>),
      Means(Rule("Value", <<"async", "(", "Value", ")">>), <<Use(1), A(3)>>),
      Means(Rule("Value", <<"await", "async", "(", "Value", ")">>), <<Use(2), A(4)>>),
      Means(Rule("Value", <<"await", "id", ".", "id">>), <<Use(2)>>),
      Means(Rule("Value", <<"await", "(", "id", ")">>), <<Use(3)>>),
      Means(Rule("Value", <<"id", "(", "await", "id", ")">>), <<Use(1), Use(4)>>),
      IsVisitedEarly(Rule("Value", <<"async", "id", "=>", "Value">>),
                     Function(<<<<"arrow_parameter", 2>>>>, <<D(4), A(4)>>)),
      IsVisitedEarly(Rule("Value", <<"async", "(", "id", ",", "id", ")", "=>",
                                     "{", "Awaits", "}">>),
                     Function(<<<<"arrow_parameter", 3>>, <<"arrow_parameter", 5>>>>, <<A(9)>>)),
      IsVisitedEarly(Rule("Value", <<"(", "async", "function", "(", ")", "{", "Awaits", "}", ")">>),
                     Function(<<>>, <<A(7)>>)),
      IsVisitedEarly(Rule("Value", <<"(", "{", "async", "id", "(", ")", "{", "Awaits", "}",
                                     "}", ")">>),
                     Function(<<>>, <<A(8)>>))>>

\* What declarations of every kind declare, and what they are initialized with.
Declarations ==
    <<Rule("Module", <<"Statement", "Statement">>),
      Declaring(Does(Rule("Statement", <<"let", "Names", ";">>), <<A(2)>>), "let"),
      Declaring(Does(Rule("Statement", <<"const", "Names", ";">>), <<A(2)>>), "const"),
      Declaring(Does(Rule("Statement", <<"var", "Name", ";">>), <<A(2)>>), "var"),
      Means(Rule("Statement", <<"let", "id", ";">>), <<<<"let", 2>>>>),
      Does(Rule("Statement", <<"{", "Statement", "}">>), Block(<<A(2)>>)),
      Declaring(Does(Rule("Statement", <<"for", "(", "const", "Pattern", "of", "id", ")", ";">>),
                     <<<<"enter_for_scope", 0>>, Use(6), A(4), <<"exit_for_scope", 0>>>>),
                "const"),
      Declaring(Does(Rule("Statement", <<"try", "{", "}", "catch", "(", "Pattern", ")",
                                         "{", "}">>),
                     Block(<<>>) \o Block(<<A(6)>>)),
                "catch"),
      Rule("Names", <<"Name">>),
      Rule("Names", <<"Name", ",", "Name">>),
      Does(Rule("Name", <<"id", "=", "Value">>), <<D(3), A(3), Declare(1)>>),
      Does(Rule("Name", <<"Pattern", "=", "Value">>), <<D(3), A(3), A(1)>>),
      Means(Rule("Value", <<"id">>), <<Use(1)>>),
      IsVisitedEarly(Rule("Value", <<"id", "=>", "id">>),
                     Function(<<<<"arrow_parameter", 1>>>>, <<Use(3)>>)),
      Means(Rule("Pattern", <<"[", "]">>), <<>>),
      Means(Rule("Pattern", <<"[", "id", "=", "id", ",", ",", "...", "Pattern", "]">>),
            <<Use(4), Declare(2), A(8)>>),
      Means(Rule("Pattern", <<"{", "id", "}">>), <<Declare(2)>>),
      Means(Rule("Pattern", <<"{", "num", ":", "Pattern", "=", "id", "}">>),
            <<Use(6), A(4)>>),
      Means(Rule("Pattern", <<"{", "id", "=", "id", ",", "...", "id", "}">>),
            <<Use(4), Declare(2), Declare(7)>>)>>

Grammars == [control |-> Control, cases |-> Cases, loops |-> Loops,
             declarations |-> Declarations,
             expressions |-> Expressions, functions |-> Functions,
             insertion |-> Insertion, async |-> Async]
=============================================================================
