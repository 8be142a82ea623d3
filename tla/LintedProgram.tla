---------------------------- MODULE LintedProgram ----------------------------
(***************************************************************************)
(* A program that is written, linted, changed in one place and linted      *)
(* again: the parser on every program of a language up to a bound, and on   *)
(* the texts that are one change away from one.                            *)
(***************************************************************************)
EXTENDS ParserLanguage

CONSTANTS Length,       \* the length of the programs of each grammar
          EditedLength, \* the length of those that are changed
          Inserted      \* the tokens that a change may insert
ASSUME LengthsAssumption ==
    /\ Length \in [DOMAIN Grammars -> Nat]
    /\ EditedLength \in [DOMAIN Grammars -> Nat]
    /\ Inserted \subseteq Token

VARIABLES language,   \* the name of the grammar of the program
          derivation, \* the rules of its derivation so far
          program,    \* what they derived: tokens, and names still to derive
          line_starts, \* the tokens of a complete program that start a line
          is_edited,  \* whether a complete program was changed
          result      \* what the last lint of the program told
vars == <<language, derivation, program, line_starts, is_edited, result>>

Unread == [visits |-> <<>>, diags |-> <<>>, ended |-> "unread", at |-> 0]

Init ==
    /\ language \in DOMAIN Grammars
    /\ derivation = <<>>
    /\ program = <<"Module">>
    /\ line_starts = {}
    /\ is_edited = FALSE
    /\ result = Unread

IsComplete(symbols) == \A i \in DOMAIN symbols : ~IsName(symbols[i])
TokensOf(symbols) == SelectSeq(symbols, IsToken)
LineStartsOf(symbols) ==
    {Len(TokensOf(SubSeq(symbols, 1, i))) + 1 :
       i \in {j \in DOMAIN symbols : symbols[j] = "newline"}}

\* The first name of the text becomes what the k-th rule says.
Derive(k) ==
    LET rule == Grammars[language][k]
        i == SelectInSeq(program, IsName)
        derived == SubSeq(program, 1, i - 1) \o rule.text
                   \o SubSeq(program, i + 1, Len(program))
    IN /\ i # 0
       /\ rule.of = program[i]
       /\ Len(derived) <= Length[language]
       /\ derivation' = Append(derivation, k)
       /\ program' = IF IsComplete(derived) THEN TokensOf(derived) ELSE derived
       /\ line_starts' = IF IsComplete(derived) THEN LineStartsOf(derived) ELSE {}
       /\ UNCHANGED <<language, is_edited, result>>

Told(p) == [visits |-> p.visits, diags |-> p.diags, ended |-> p.ended, at |-> p.at]
Lint ==
    /\ IsComplete(program) /\ result = Unread
    /\ result' = Told(parse_and_visit_module(NewParser(Append(program, "eof"), line_starts)))
    /\ UNCHANGED <<language, derivation, program, line_starts, is_edited>>

MayEdit == result # Unread /\ ~is_edited /\ Len(program) <= EditedLength[language]
Edit(tokens, breaks) ==
    /\ program' = tokens
    /\ line_starts' = breaks
    /\ is_edited' = TRUE
    /\ result' = Unread
    /\ UNCHANGED <<language, derivation>>

\* Line terminators stay in front of the tokens they precede.
Delete(i) ==
    /\ MayEdit
    /\ Edit(RemoveAt(program, i), {IF n > i THEN n - 1 ELSE n : n \in line_starts})
InsertToken(i, token) ==
    /\ MayEdit
    /\ Edit(InsertAt(program, i, token),
            {IF n > i THEN n + 1 ELSE n : n \in line_starts})
Swap(i) ==
    /\ MayEdit /\ i < Len(program)
    /\ Edit([program EXCEPT ![i] = program[i + 1], ![i + 1] = program[i]], line_starts)
BreakLine(i) ==
    /\ MayEdit
    /\ Edit(program, IF i \in line_starts THEN line_starts \ {i} ELSE line_starts \cup {i})

Next ==
    \/ \E k \in DOMAIN Grammars[language] : Derive(k)
    \/ Lint
    \/ \E i \in DOMAIN program :
         \/ Delete(i) \/ Swap(i) \/ BreakLine(i)
         \/ \E token \in Inserted : InsertToken(i, token)
Spec == Init /\ [][Next]_vars

-----------------------------------------------------------------------------
(* Properties *)

IsProgram == result # Unread /\ ~is_edited

\* No diagnostic is reported for a program of the language, however its
\* statements end and whatever its words mean where they are.
ValidProgramsAreClean == IsProgram => result.ended = "" /\ result.diags = <<>>

\* The visitor is told what the program declares, uses and assigns, in the
\* scopes and in the order in which the language means it, although parts of
\* it are read, kept and visited in another order.  The grammars have none of
\* the programs that the parser visits twice (ReadsTwice).
VisitsTellTheProgram == IsProgram => result.visits = MeaningOf(Grammars[language], derivation)

\* The scopes that are open after the first i visits; "none" if they do not nest.
Opens(visit) == visit[1] \in {"enter_block_scope", "enter_for_scope", "enter_function_scope",
                              "enter_named_function_scope"}
Closes == [exit_block_scope |-> {"enter_block_scope"},
           exit_for_scope |-> {"enter_for_scope"},
           exit_function_scope |-> {"enter_function_scope", "enter_named_function_scope",
                                    "enter_function_scope_body"}]
RECURSIVE OpenAfter(_, _)
OpenAfter(visits, i) ==
    LET open == OpenAfter(visits, i - 1)
        kind == visits[i][1]
    IN CASE i = 0 -> <<>>
         [] i > 0 /\ Opens(visits[i]) -> Append(open, kind)
         [] i > 0 /\ kind = "enter_function_scope_body" ->
              IF open # <<>> /\ Last(open) \in {"enter_function_scope", "enter_named_function_scope"}
              THEN Append(Front(open), kind) ELSE <<"none">>
         [] i > 0 /\ kind \in DOMAIN Closes ->
              IF open # <<>> /\ Last(open) \in Closes[kind] THEN Front(open) ELSE <<"none">>
         [] OTHER -> open
\* Text that the parser may read again as something else, and whose functions
\* it then visits again: parameters that are the operand of await, and what
\* follows `in` after an initializer in the head of a `for`.
ReadsTwice ==
    \E i, j \in DOMAIN program :
      \/ program[i] = "await" /\ program[j] = "(" /\ j = i + 1
      \/ program[i] \in {"=", "+="} /\ program[j] = "in" /\ i < j /\ "for" \in ToSet(program)

\* The visits of any text nest, and a text that the parser can read is read
\* to its end, every name of it at most once in each way, but for the texts
\* that are visited twice (ReadsTwice).
VisitsNest ==
    LET visits == result.visits
        open == OpenAfter(visits, Len(visits))
    IN result # Unread =>
       /\ "none" \notin ToSet(open)
       /\ result.ended = "" =>
            /\ open = <<>>
            /\ result.at = Len(program) + 1
            /\ Last(visits) = <<"end_of_module", 0>>
            /\ ~ReadsTwice =>
                 \A i, j \in DOMAIN visits :
                   visits[i] = visits[j] /\ visits[i][2] # 0 => i = j
=============================================================================
