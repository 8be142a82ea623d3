-------------------------- MODULE MCVariableAnalyzer --------------------------
(* Families of small programs for TLC.  Each brings together the scopes,   *)
(* declarations and uses whose interplay is delicate.                      *)
EXTENDS TwoPassLookup

Declares(name, kinds) == {[name |-> name, kind |-> k, flags |-> {}] : k \in kinds}
Assigns(name, kinds) ==
    {[name |-> name, kind |-> k, flags |-> {"initialized_with_equals"}] : k \in kinds}
UsesOf(name, uses) == {[name |-> name, use |-> u] : u \in uses}

JavaScript(scps, declarations, uses, visits, depth) ==
    [scopes |-> scps, declarations |-> declarations, uses |-> uses,
     functions |-> {}, classes |-> {}, visits |-> visits, depth |-> depth,
     evalCanDeclareVariables |-> TRUE, allowDeletingVariables |-> TRUE]

TypeScript(scps, declarations, uses, visits, depth) ==
    [JavaScript(scps, declarations, uses, visits, depth)
        EXCEPT !.evalCanDeclareVariables = FALSE, !.allowDeletingVariables = FALSE]

\* Hoisting against pseudo-hoisting, across blocks and functions.
Hoisting == JavaScript({"block", "function"}, Declares("x", {"var", "let"}),
                       UsesOf("x", {"use"}), 6, 3)

\* Functions declared in blocks, and constants.
BlockFunctions == JavaScript({"block", "function"}, Declares("x", {"function", "const"}),
                             UsesOf("x", {"use", "assignment"}), 5, 3)

\* Scopes which hide what is outside.
Hiding == JavaScript({"block", "with", "function"}, Declares("x", {"let"}),
                     UsesOf("x", {"use"}) \cup UsesOf("eval", {"use"}), 5, 3)

\* A function's parameters, name and arguments.
Intrinsics == [JavaScript({"function"}, Declares("x", {"function_parameter", "var", "let"}),
                   UsesOf("x", {"use"}) \cup UsesOf("f", {"use"}) \cup UsesOf("arguments", {"use"}), 5, 3)
                   EXCEPT !.functions = {"f"}]

\* Several declarations of a name.
Duplicates == JavaScript({"block"}, Declares("x", {"let", "var", "function", "const"}),
                         {}, 5, 3)

\* Unused variables which shadow.
Shadowing == JavaScript({"block", "for"},
                        Assigns("x", {"let"}) \cup Declares("x", {"var"}),
                        UsesOf("x", {"use"}) \cup UsesOf("eval", {"use"}), 5, 3)

\* The globals, and every kind of use.
Everything == JavaScript({"function"}, Declares("x", {"import", "class"}) \cup Declares("g", {"let"}),
                         UsesOf("x", {"use", "typeof", "export", "delete", "assignment"})
                         \cup UsesOf("g", {"assignment"}), 4, 2)

\* Types.
Types == [TypeScript({"class", "interface", "type_alias", "enum", "namespace", "block"},
              Declares("x", {"interface", "generic_parameter", "class"}),
              UsesOf("x", {"type"}), 4, 3) EXCEPT !.classes = {"", "x"}]

\* The rest of the TypeScript visits.
Signatures == TypeScript({"function", "index_signature", "conditional_type"},
                  Declares("x", {"index_signature_parameter", "infer_type", "function_parameter"}),
                  UsesOf("x", {"predicate", "delete", "typeof"}) \cup UsesOf("eval", {"use"}), 4, 3)

MCCorpora == {Hoisting, BlockFunctions, Hiding, Intrinsics, Duplicates, Shadowing,
              Everything, Types, Signatures}

\* A variable used from a function in a function.
NestedUses == JavaScript({"block", "function"}, Assigns("x", {"let"}),
                         UsesOf("x", {"use"}), 6, 4)

MCDuplicates == {Duplicates}
MCNestedUses == {NestedUses}

MCGlobals == [n \in {"eval", "g"} |->
                 [writable |-> n = "eval", shadowable |-> n = "eval", typeOnly |-> FALSE]]
=============================================================================
