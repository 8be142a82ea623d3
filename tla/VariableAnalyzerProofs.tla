----------------------- MODULE VariableAnalyzerProofs -----------------------
(***************************************************************************)
(* Proofs about VariableAnalyzer and TwoPassLookup, for any families of    *)
(* programs, of any length and depth.                                      *)
(***************************************************************************)
EXTENDS TwoPassLookup, SequenceTheorems, WellFoundedInduction, TLAPS

(* Numbers. *)

\* A set of natural numbers has a least element: in place of induction.
LEMMA LeastNumber ==
    ASSUME NEW M, M \subseteq Nat, M # {}
    PROVE  \E m \in M : \A k \in M : m <= k
<1> DEFINE Less == {ss \in Nat \X Nat : ss[1] < ss[2]}
<1>1. IsWellFoundedOn(Less, Nat)
  BY NatLessThanWellFounded DEF OpToRel
<1>2. PICK m \in M : \A k \in M : <<k, m>> \notin Less
  <2> HIDE DEF Less
  <2> QED
    BY <1>1, WFMin
<1>3. ASSUME NEW k \in M PROVE m <= k
  <2>1. k \in Nat /\ m \in Nat
    OBVIOUS
  <2>2. ~(k < m)
    BY <1>2, <2>1
  <2> QED
    BY <2>1, <2>2
<1> QED
  BY <1>3

\* What holds of a number when it holds of all before it holds of all.
LEMMA OfAllBefore ==
    ASSUME NEW n \in Nat, NEW Q, \A k \in 1 .. n : (\A j \in 1 .. k - 1 : j \in Q) => k \in Q
    PROVE  \A k \in 1 .. n : k \in Q
<1> DEFINE Bad == {k \in 1 .. n : k \notin Q}
<1>1. SUFFICES ASSUME Bad # {} PROVE FALSE
  OBVIOUS
<1>2. Bad \subseteq Nat
  OBVIOUS
<1>3. PICK m \in Bad : \A k \in Bad : m <= k
  <2> HIDE DEF Bad
  <2> QED
    BY <1>1, <1>2, LeastNumber
<1>4. ASSUME NEW j \in 1 .. m - 1 PROVE j \in Q
  <2>1. j \in 1 .. n /\ ~(m <= j)
    OBVIOUS
  <2>2. j \notin Bad
    BY <1>3, <2>1
  <2> QED
    BY <2>1, <2>2
<1> QED
  BY <1>4
-----------------------------------------------------------------------------
(* Programs.  A sequence of visits P and N, where its positions are        *)
(* nested: what Nesting is of a program.                                   *)

IsNesting(P, N) ==
    N = [p \in DOMAIN P |-> {[scope |-> P[p].in, place |-> p]}
                            \cup (IF P[p].in = 0 THEN {} ELSE N[P[p].in])]

\* Every visit is made in a scope which was opened before.
WellNested(P) ==
    /\ Len(P) \in Nat /\ DOMAIN P = 1 .. Len(P)
    /\ \A p \in DOMAIN P : P[p].in \in 0 .. p - 1

\* The scopes that position p lies in.
Scoped(N, p) == {n.scope : n \in N[p]}

\* Nesting is a recursive function: it has a value.
LEMMA NestingExists ==
    ASSUME NEW P, WellNested(P)
    PROVE  \E N : IsNesting(P, N)
<1> DEFINE Upon(f, p) == {[scope |-> P[p].in, place |-> p]}
                            \cup (IF P[p].in = 0 THEN {} ELSE f[P[p].in])
           Q == {m \in Nat : \E f : f = [p \in 1 .. m |-> Upon(f, p)]}
           n == Len(P)
<1>0. n \in Nat /\ DOMAIN P = 1 .. n /\ \A p \in 1 .. n : P[p].in \in 0 .. p - 1
  BY DEF WellNested
<1> HIDE DEF n
<1>1. ASSUME NEW m \in 1 .. n, \A j \in 1 .. m - 1 : j \in Q
      PROVE  m \in Q
  <2>1. \E f : f = [p \in 1 .. m - 1 |-> Upon(f, p)]
    <3>1. CASE m = 1
      <4> DEFINE e == [p \in 1 .. 0 |-> {}]
      <4>1. e = [p \in 1 .. 0 |-> Upon(e, p)]
        OBVIOUS
      <4> QED
        BY <4>1, <3>1
    <3>2. CASE m # 1
      <4>1. m - 1 \in 1 .. m - 1
        BY <3>2
      <4> QED
        BY <4>1, <1>1
    <3> QED
      BY <3>1, <3>2
  <2>2. PICK f : f = [p \in 1 .. m - 1 |-> Upon(f, p)]
    BY <2>1
  <2> DEFINE g == [p \in 1 .. m |-> IF p = m THEN Upon(f, m) ELSE f[p]]
  <2>3. ASSUME NEW p \in 1 .. m PROVE g[p] = Upon(g, p)
    <3>1. P[p].in \in 0 .. p - 1 /\ p \in 1 .. n
      BY <1>0
    <3>2. P[p].in # 0 => P[p].in \in 1 .. m - 1 /\ P[p].in # m /\ P[p].in \in 1 .. m
      BY <3>1
    <3>3. P[p].in # 0 => g[P[p].in] = f[P[p].in]
      BY <3>2
    <3>4. g[p] = Upon(f, p)
      <4>1. CASE p = m
        BY <4>1
      <4>2. CASE p # m
        <5>1. p \in 1 .. m - 1
          BY <4>2
        <5>2. f[p] = Upon(f, p)
          BY <5>1, <2>2
        <5> QED
          BY <5>2, <4>2
      <4> QED
        BY <4>1, <4>2
    <3> HIDE DEF g
    <3> QED
      BY <3>3, <3>4
  <2>4. g = [p \in 1 .. m |-> Upon(g, p)]
    <3>1. g = [p \in 1 .. m |-> g[p]]
      OBVIOUS
    <3> HIDE DEF g, Upon
    <3> QED
      BY <3>1, <2>3
  <2>5. \E h : h = [p \in 1 .. m |-> Upon(h, p)]
    <3> HIDE DEF g, Upon
    <3> QED
      BY <2>4
  <2> QED
    BY <2>5
<1>2. \A m \in 1 .. n : m \in Q
  <2> HIDE DEF Q
  <2> QED
    BY <1>0, <1>1, OfAllBefore
<1>3. \E f : f = [p \in 1 .. n |-> Upon(f, p)]
  <2>1. CASE n = 0
    <3> DEFINE e == [p \in 1 .. 0 |-> {}]
    <3>1. e = [p \in 1 .. 0 |-> Upon(e, p)]
      OBVIOUS
    <3> QED
      BY <3>1, <2>1
  <2>2. CASE n # 0
    <3>1. n \in 1 .. n
      BY <2>2, <1>0
    <3> QED
      BY <3>1, <1>2
  <2> QED
    BY <2>1, <2>2
<1> QED
  BY <1>0, <1>3 DEF IsNesting

LEMMA NestingIs ==
    ASSUME NEW P, WellNested(P), NEW N,
           N = CHOOSE f : f = [p \in DOMAIN P |-> {[scope |-> P[p].in, place |-> p]}
                                 \cup (IF P[p].in = 0 THEN {} ELSE f[P[p].in])]
    PROVE  IsNesting(P, N)
BY NestingExists DEF IsNesting

LEMMA ScopedIs ==
    ASSUME NEW P, NEW N, WellNested(P), IsNesting(P, N), NEW p \in DOMAIN P
    PROVE  Scoped(N, p) = {P[p].in} \cup (IF P[p].in = 0 THEN {} ELSE Scoped(N, P[p].in))
<1>1. N[p] = {[scope |-> P[p].in, place |-> p]} \cup (IF P[p].in = 0 THEN {} ELSE N[P[p].in])
  BY DEF IsNesting
<1> DEFINE n == [scope |-> P[p].in, place |-> p]
<1>2. n.scope = P[p].in
  OBVIOUS
<1> HIDE DEF n
<1>3. N[p] = {n} \cup (IF P[p].in = 0 THEN {} ELSE N[P[p].in])
  BY <1>1 DEF n
<1> QED
  BY <1>2, <1>3 DEF Scoped

\* The scopes of a position are those of the scope it is in, and that one.
LEMMA ScopesOf ==
    ASSUME NEW P, NEW N, WellNested(P), IsNesting(P, N), NEW p \in DOMAIN P
    PROVE  /\ P[p].in \in Nat /\ P[p].in < p /\ p \in Nat
           /\ P[p].in = 0 => Scoped(N, p) = {0}
           /\ P[p].in # 0 => /\ P[p].in \in DOMAIN P
                             /\ Scoped(N, p) = {P[p].in} \cup Scoped(N, P[p].in)
<1>1. p \in 1 .. Len(P) /\ P[p].in \in 0 .. p - 1 /\ Len(P) \in Nat /\ DOMAIN P = 1 .. Len(P)
  BY DEF WellNested
<1> QED
  BY <1>1, ScopedIs

\* They are a chain.
LEMMA ScopesAreNested ==
    ASSUME NEW P, NEW N, WellNested(P), IsNesting(P, N), NEW p \in DOMAIN P
    PROVE  /\ P[p].in \in Scoped(N, p) /\ 0 \in Scoped(N, p)
           /\ \A s \in Scoped(N, p) :
                /\ s \in Nat /\ s <= P[p].in
                /\ s # 0 => /\ s \in DOMAIN P
                            /\ \A t : t \in Scoped(N, s) <=> t \in Scoped(N, p) /\ t < s
<1> DEFINE Nested(q) ==
             /\ P[q].in \in Scoped(N, q) /\ 0 \in Scoped(N, q)
             /\ \A s \in Scoped(N, q) :
                  /\ s \in Nat /\ s <= P[q].in
                  /\ s # 0 => /\ s \in DOMAIN P
                              /\ \A t : t \in Scoped(N, s) <=> t \in Scoped(N, q) /\ t < s
           Q == {q \in DOMAIN P : Nested(q)}
<1>0. Len(P) \in Nat /\ DOMAIN P = 1 .. Len(P)
  BY DEF WellNested
<1>1. ASSUME NEW q \in 1 .. Len(P), \A j \in 1 .. q - 1 : j \in Q PROVE q \in Q
  <2>1. q \in DOMAIN P
    BY <1>0
  <2>2. /\ P[q].in \in Nat /\ P[q].in < q
        /\ P[q].in = 0 => Scoped(N, q) = {0}
        /\ P[q].in # 0 => /\ P[q].in \in DOMAIN P
                          /\ Scoped(N, q) = {P[q].in} \cup Scoped(N, P[q].in)
    BY <2>1, ScopesOf
  <2> DEFINE i == P[q].in
  <2>3. CASE i = 0
    BY <2>1, <2>2, <2>3
  <2>4. CASE i # 0
    <3>1. i \in 1 .. q - 1
      BY <2>2, <2>4
    <3>2. Nested(i)
      BY <3>1, <1>1
    <3>3. P[i].in < i /\ P[i].in \in Nat /\ i \in Nat
      BY <2>2, <2>4, ScopesOf
    <3>4. Scoped(N, q) = {i} \cup Scoped(N, i)
      BY <2>2, <2>4
    <3> HIDE DEF i
    <3>5. \A s \in Scoped(N, i) : s \in Nat /\ s < i
      BY <3>2, <3>3
    <3>6. i \in Scoped(N, q) /\ 0 \in Scoped(N, q)
      BY <3>2, <3>4
    <3>7. ASSUME NEW s \in Scoped(N, q)
          PROVE  /\ s \in Nat /\ s <= i
                 /\ s # 0 => /\ s \in DOMAIN P
                             /\ \A t : t \in Scoped(N, s) <=> t \in Scoped(N, q) /\ t < s
      <4>1. CASE s = i
        <5>1. ASSUME NEW t PROVE t \in Scoped(N, i) <=> t \in Scoped(N, q) /\ t < i
          BY <3>3, <3>4, <3>5
        <5>2. i \in DOMAIN P
          BY <2>2, <2>4 DEF i
        <5> QED
          BY <5>1, <5>2, <4>1, <3>3
      <4>2. CASE s # i
        <5>1. s \in Scoped(N, i) /\ s \in Nat /\ s < i
          BY <4>2, <3>4, <3>5
        <5>2. s # 0 => /\ s \in DOMAIN P
                       /\ \A t : t \in Scoped(N, s) <=> t \in Scoped(N, i) /\ t < s
          BY <5>1, <3>2
        <5>3. ASSUME NEW t PROVE t \in Scoped(N, i) /\ t < s <=> t \in Scoped(N, q) /\ t < s
          BY <5>1, <3>3, <3>4
        <5> QED
          BY <5>1, <5>2, <5>3, <3>3
      <4> QED
        BY <4>1, <4>2
    <3>8. Nested(q)
      BY <3>6, <3>7 DEF i
    <3> QED
      BY <3>8, <2>1
  <2> QED
    BY <2>3, <2>4
<1>2. \A q \in 1 .. Len(P) : q \in Q
  <2> HIDE DEF Q
  <2> QED
    BY <1>0, <1>1, OfAllBefore
<1> QED
  BY <1>0, <1>2

\* A visit more.
LEMMA StaysWellNested ==
    ASSUME NEW T, NEW P \in Seq(T), WellNested(P), NEW v \in T, v.in \in 0 .. Len(P)
    PROVE  WellNested(Append(P, v))
<1> DEFINE R == Append(P, v)
           n == Len(P)
<1>1. /\ n \in Nat /\ DOMAIN P = 1 .. n /\ Len(R) = n + 1 /\ DOMAIN R = 1 .. n + 1
      /\ \A p \in 1 .. n : R[p] = P[p]
      /\ R[n + 1] = v
  OBVIOUS
<1>2. \A p \in 1 .. n : P[p].in \in 0 .. p - 1
  BY <1>1 DEF WellNested
<1>3. ASSUME NEW p \in 1 .. n + 1 PROVE R[p].in \in 0 .. p - 1
  <2>1. CASE p = n + 1
    BY <1>1, <2>1
  <2>2. CASE p # n + 1
    <3>1. p \in 1 .. n
      BY <1>1, <2>2
    <3> QED
      BY <3>1, <1>1, <1>2
  <2> QED
    BY <2>1, <2>2
<1> HIDE DEF R, n
<1> QED
  BY <1>1, <1>3 DEF WellNested, R

LEMMA OneMoreVisit ==
    ASSUME NEW T, NEW P \in Seq(T), NEW N, WellNested(P), IsNesting(P, N),
           NEW v \in T, v.in \in 0 .. Len(P),
           NEW M, IsNesting(Append(P, v), M)
    PROVE  /\ WellNested(Append(P, v))
           /\ \A p \in DOMAIN P : M[p] = N[p]
<1> DEFINE R == Append(P, v)
           n == Len(P)
<1>1. /\ n \in Nat /\ DOMAIN P = 1 .. n /\ Len(R) = n + 1 /\ DOMAIN R = 1 .. n + 1
      /\ \A p \in 1 .. n : R[p] = P[p]
      /\ R[n + 1] = v
  OBVIOUS
<1>2. \A p \in 1 .. n : P[p].in \in 0 .. p - 1
  BY <1>1 DEF WellNested
<1>3. WellNested(R)
  BY StaysWellNested
<1> HIDE DEF R, n
<1> DEFINE Q == {p \in 1 .. n : M[p] = N[p]}
<1>4. ASSUME NEW p \in 1 .. n, \A j \in 1 .. p - 1 : j \in Q PROVE p \in Q
  <2>1. N[p] = {[scope |-> P[p].in, place |-> p]} \cup (IF P[p].in = 0 THEN {} ELSE N[P[p].in])
    BY <1>1 DEF IsNesting
  <2>2. p \in DOMAIN R
    BY <1>1
  <2>3. M[p] = {[scope |-> R[p].in, place |-> p]} \cup (IF R[p].in = 0 THEN {} ELSE M[R[p].in])
    BY <2>2 DEF IsNesting, R
  <2>4. R[p] = P[p] /\ P[p].in \in 0 .. p - 1
    BY <1>1, <1>2
  <2>5. P[p].in # 0 => M[P[p].in] = N[P[p].in]
    <3>1. P[p].in # 0 => P[p].in \in 1 .. p - 1
      BY <2>4
    <3> QED
      BY <3>1, <1>4
  <2>6. M[p] = N[p]
    BY <2>1, <2>3, <2>4, <2>5
  <2> QED
    BY <2>6
<1>5. \A p \in 1 .. n : p \in Q
  <2> HIDE DEF Q
  <2> QED
    BY <1>1, <1>4, OfAllBefore
<1> QED
  BY <1>1, <1>3, <1>5 DEF R
-----------------------------------------------------------------------------
(* Variables and scopes. *)

VariableKinds == RuntimeKinds \cup TypeKinds
Names == {""} \cup UNION {c.functions \cup c.classes \cup {d.name : d \in c.declarations}
                             \cup {u.name : u \in c.uses} : c \in Corpora}
FlagSets == {{}} \cup UNION {{d.flags : d \in c.declarations} : c \in Corpora}
ScopeKinds == {"module", "named_function"} \cup UNION {c.scopes : c \in Corpora}
UseKinds == RuntimeUses \cup TypeUses

Variables == [at : Nat \ {0}, name : Names, kind : VariableKinds, flags : FlagSets,
              descendant : BOOLEAN, used : BOOLEAN]
WaitingUses == [name : Names, use : UseKinds, at : Nat]
Scopes == [kind : ScopeKinds, in : Nat, body : BOOLEAN, functionName : Names,
           declared : Seq(Variables), uses : SUBSET WaitingUses, usesBelow : SUBSET WaitingUses,
           evalHere : BOOLEAN, evalBelow : BOOLEAN]
VisitKinds == {"", "predicate"} \cup ScopeKinds \cup VariableKinds \cup UseKinds
Visits == [visit : {"enter", "body", "declare", "use"}, name : Names, kind : VisitKinds,
           flags : FlagSets, in : Nat]

Types ==
    /\ corpus \in Corpora
    /\ scopes \in Seq(Scopes) /\ Len(scopes) \in 1 .. corpus.depth
    /\ status \in {"analyzing", "done", "crashed"}
    /\ program \in Seq(Visits) /\ Len(program) <= corpus.visits

\* Nothing is declared at no position.
LEMMA VariablesAreFound ==
    ASSUME NEW d \in Variables
    PROVE  d.at # 0 /\ Found(d)
<1>1. NoVariable.at = 0
  BY DEF NoVariable
<1>2. d.at # 0
  BY DEF Variables
<1> QED
  BY <1>1, <1>2 DEF Found

\* Two lists of variables that differ in what is used.
SameVariables(xs, ys) ==
    /\ Len(ys) = Len(xs)
    /\ \A j \in 1 .. Len(xs) :
          /\ ys[j].at = xs[j].at /\ ys[j].name = xs[j].name /\ ys[j].kind = xs[j].kind
          /\ ys[j].flags = xs[j].flags /\ ys[j].descendant = xs[j].descendant

LEMMA MarkUsedIs ==
    ASSUME NEW xs \in Seq(Variables), NEW ats
    PROVE  /\ MarkUsed(xs, ats) \in Seq(Variables)
           /\ SameVariables(xs, MarkUsed(xs, ats))
           /\ \A j \in 1 .. Len(xs) : MarkUsed(xs, ats)[j].used = (xs[j].used \/ xs[j].at \in ats)
<1>1. /\ Len(xs) \in Nat /\ DOMAIN xs = 1 .. Len(xs)
      /\ \A j \in 1 .. Len(xs) : xs[j] \in Variables
  OBVIOUS
<1> DEFINE ys == MarkUsed(xs, ats)
           y(j) == [xs[j] EXCEPT !.used = @ \/ xs[j].at \in ats]
<1>2. ys = [j \in 1 .. Len(xs) |-> y(j)]
  BY <1>1 DEF MarkUsed
<1>3. ASSUME NEW j \in 1 .. Len(xs)
      PROVE  /\ y(j) \in Variables
             /\ y(j).at = xs[j].at /\ y(j).name = xs[j].name /\ y(j).kind = xs[j].kind
             /\ y(j).flags = xs[j].flags /\ y(j).descendant = xs[j].descendant
             /\ y(j).used = (xs[j].used \/ xs[j].at \in ats)
  <2>1. xs[j] \in Variables
    BY <1>1
  <2> QED
    BY <2>1 DEF Variables
<1> HIDE DEF y
<1>4. ys \in Seq(Variables) /\ Len(ys) = Len(xs) /\ \A j \in 1 .. Len(xs) : ys[j] = y(j)
  <2>1. ys \in [1 .. Len(xs) -> Variables]
    BY <1>2, <1>3
  <2> QED
    BY <1>1, <1>2, <2>1
<1> QED
  BY <1>3, <1>4 DEF SameVariables

\* Find looks for the first.
LEMMA FindIs ==
    ASSUME NEW xs \in Seq(Variables), NEW name, NEW namespace
    PROVE  \/ /\ Find(xs, name, namespace) = NoVariable
              /\ \A j \in 1 .. Len(xs) : ~(xs[j].name = name /\ Matches(namespace, xs[j].kind))
           \/ \E k \in 1 .. Len(xs) :
                /\ Find(xs, name, namespace) = xs[k] /\ xs[k] \in Variables
                /\ xs[k].name = name /\ Matches(namespace, xs[k].kind)
                /\ \A j \in 1 .. k - 1 : ~(xs[j].name = name /\ Matches(namespace, xs[j].kind))
<1> DEFINE I == {i \in 1 .. Len(xs) : xs[i].name = name /\ Matches(namespace, xs[i].kind)}
           at == IF I # {} THEN Min(I) ELSE 0
<1>1. Find(xs, name, namespace) = IF at = 0 THEN NoVariable ELSE xs[at]
  BY DEF Find, SelectInSeq
<1>2. Len(xs) \in Nat /\ \A j \in 1 .. Len(xs) : xs[j] \in Variables
  OBVIOUS
<1>3. CASE I = {}
  BY <1>1, <1>3
<1>4. CASE I # {}
  <2>1. I \subseteq Nat
    BY <1>2
  <2>2. PICK m \in I : \A k \in I : m <= k
    <3> HIDE DEF I
    <3> QED
      BY <1>4, <2>1, LeastNumber
  <2>3. Min(I) \in I /\ \A k \in I : Min(I) <= k
    BY <2>2 DEF Min
  <2> DEFINE k == Min(I)
  <2> HIDE DEF k
  <2>4. k \in I /\ \A j \in I : k <= j
    BY <2>3 DEF k
  <2>5. k \in 1 .. Len(xs) /\ k # 0
    BY <2>4
  <2>6. Find(xs, name, namespace) = xs[k]
    BY <1>1, <1>4, <2>5 DEF k
  <2>7. ASSUME NEW j \in 1 .. k - 1 PROVE ~(xs[j].name = name /\ Matches(namespace, xs[j].kind))
    <3>1. j \in 1 .. Len(xs) /\ ~(k <= j)
      BY <1>2, <2>5
    <3> QED
      BY <2>4, <3>1
  <2>8. xs[k].name = name /\ Matches(namespace, xs[k].kind)
    BY <2>4
  <2>9. xs[k] \in Variables
    BY <1>2, <2>5
  <2> HIDE DEF I, at
  <2> QED
    BY <2>5, <2>6, <2>7, <2>8, <2>9
<1> QED
  BY <1>3, <1>4

\* What declare_variable leaves.
LEMMA DeclareIs ==
    ASSUME NEW scope \in Scopes, NEW d \in Variables
    PROVE  LET early == SettledEarly(scope, d)
               late  == SettledLate(scope, d)
               D     == DeclareVariable(scope, d).scope
           IN  /\ D \in Scopes
               /\ D.kind = scope.kind /\ D.in = scope.in /\ D.body = scope.body
               /\ D.functionName = scope.functionName /\ D.evalBelow = scope.evalBelow
               /\ D.uses = scope.uses \ early /\ D.usesBelow = scope.usesBelow \ late
               /\ D.evalHere = (scope.evalHere /\ ~(d.name = "eval" /\ d.kind \in Hoisted))
               /\ \E used \in BOOLEAN :
                    /\ used <=> \/ early # {}
                                \/ \E u \in late : \/ u.use \in {"delete", "typeof", "use"}
                                                   \/ u.use = "assignment" /\ d.kind \in RuntimeKinds
                    /\ D.declared = Append(scope.declared, [d EXCEPT !.used = used])
                    /\ [d EXCEPT !.used = used] \in Variables
<1> DEFINE early == SettledEarly(scope, d)
           late  == SettledLate(scope, d)
           used  == \/ early # {}
                    \/ \E u \in late : \/ u.use \in {"delete", "typeof", "use"}
                                       \/ u.use = "assignment" /\ d.kind \in RuntimeKinds
           D     == DeclareVariable(scope, d).scope
<1>1. D = [scope EXCEPT
             !.declared = Append(@, [d EXCEPT !.used = used]),
             !.uses = @ \ early,
             !.usesBelow = @ \ late,
             !.evalHere = @ /\ ~(d.name = "eval" /\ d.kind \in Hoisted)]
  BY DEF DeclareVariable
<1>2. used \in BOOLEAN
  OBVIOUS
<1> HIDE DEF early, late
<1>3. [d EXCEPT !.used = used] \in Variables
  BY <1>2 DEF Variables
<1> HIDE DEF used
<1>4. Append(scope.declared, [d EXCEPT !.used = used]) \in Seq(Variables)
  BY <1>3 DEF Scopes
<1> DEFINE e == [d EXCEPT !.used = used]
<1> HIDE DEF e
<1>5. D = [scope EXCEPT
             !.declared = Append(@, e),
             !.uses = @ \ early,
             !.usesBelow = @ \ late,
             !.evalHere = @ /\ ~(d.name = "eval" /\ d.kind \in Hoisted)]
  BY <1>1 DEF e
<1> HIDE DEF D
<1>6. /\ D \in Scopes
      /\ D.kind = scope.kind /\ D.in = scope.in /\ D.body = scope.body
      /\ D.functionName = scope.functionName /\ D.evalBelow = scope.evalBelow
      /\ D.uses = scope.uses \ early /\ D.usesBelow = scope.usesBelow \ late
      /\ D.evalHere = (scope.evalHere /\ ~(d.name = "eval" /\ d.kind \in Hoisted))
      /\ D.declared = Append(scope.declared, e)
  BY <1>4, <1>5 DEF Scopes, e
<1> QED
  BY <1>2, <1>3, <1>6 DEF D, e, early, late, used
LEMMA DeclareAppends ==
    ASSUME NEW scope \in Scopes, NEW d \in Variables
    PROVE  \E used \in BOOLEAN :
              /\ DeclareVariable(scope, d).scope \in Scopes
              /\ DeclareVariable(scope, d).scope.kind = scope.kind
              /\ DeclareVariable(scope, d).scope.in = scope.in
              /\ DeclareVariable(scope, d).scope.declared = Append(scope.declared, [d EXCEPT !.used = used])
              /\ [d EXCEPT !.used = used] \in Variables
BY DeclareIs
-----------------------------------------------------------------------------
(* The scopes that are open. *)

KindIn(P, t) == IF t = 0 THEN "module" ELSE P[t].kind

Open(S) == {S[k].in : k \in 1 .. Len(S)}

\* Each lies in the one before, and the program says so.
Chained(P, N, S) ==
    /\ Len(S) \in Nat \ {0}
    /\ S[1].in = 0 /\ S[1].kind = "module"
    /\ \A i \in 2 .. Len(S) :
          /\ S[i].in \in DOMAIN P
          /\ P[S[i].in].in = S[i - 1].in /\ P[S[i].in].kind = S[i].kind
          /\ Scoped(N, S[i].in) = {S[k].in : k \in 1 .. i - 1}

LEMMA OpenScopes ==
    ASSUME NEW P, NEW N, NEW S, WellNested(P), IsNesting(P, N), Chained(P, N, S),
           NEW i \in 1 .. Len(S)
    PROVE  /\ S[i].in \in 0 .. Len(P) /\ Len(P) \in Nat
           /\ KindIn(P, S[i].in) = S[i].kind
           /\ \A k \in 1 .. i - 1 : S[k].in \in Nat /\ S[k].in < S[i].in
<1>1. Len(P) \in Nat /\ DOMAIN P = 1 .. Len(P) /\ Len(S) \in Nat
  BY DEF WellNested, Chained
<1>2. CASE i = 1
  BY <1>1, <1>2 DEF Chained, KindIn
<1>3. CASE i # 1
  <2>1. i \in 2 .. Len(S)
    BY <1>1, <1>3
  <2>2. /\ S[i].in \in DOMAIN P /\ P[S[i].in].kind = S[i].kind
        /\ Scoped(N, S[i].in) = {S[k].in : k \in 1 .. i - 1}
    BY <2>1 DEF Chained
  <2>3. S[i].in # 0 /\ S[i].in \in 0 .. Len(P)
    BY <1>1, <2>2
  <2>4. ASSUME NEW k \in 1 .. i - 1 PROVE S[k].in \in Nat /\ S[k].in < S[i].in
    <3>1. S[k].in \in Scoped(N, S[i].in)
      BY <2>2
    <3>2. S[k].in \in Nat /\ S[k].in <= P[S[i].in].in
      BY <2>2, <3>1, ScopesAreNested
    <3>3. P[S[i].in].in \in Nat /\ P[S[i].in].in < S[i].in
      BY <2>2, ScopesOf
    <3> QED
      BY <2>3, <3>2, <3>3
  <2> QED
    BY <1>1, <2>2, <2>3, <2>4 DEF KindIn
<1> QED
  BY <1>2, <1>3

\* A visit is made in all the scopes that are open.
LEMMA InAllOpen ==
    ASSUME NEW P, NEW N, NEW S, WellNested(P), IsNesting(P, N), Chained(P, N, S)
    PROVE  /\ S[Len(S)].in # 0 =>
                 Open(S) = {S[Len(S)].in} \cup Scoped(N, S[Len(S)].in)
           /\ S[Len(S)].in = 0 => Open(S) = {0}
<1> DEFINE n == Len(S)
<1>1. n \in Nat \ {0}
  BY DEF Chained
<1>2. CASE n = 1
  BY <1>2 DEF Chained, Open
<1>3. CASE n # 1
  <2>1. n \in 2 .. n
    <3> HIDE DEF n
    <3> QED
      BY <1>1, <1>3
  <2>2. S[n].in \in DOMAIN P /\ Scoped(N, S[n].in) = {S[k].in : k \in 1 .. n - 1}
    BY <2>1 DEF Chained
  <2>3. S[n].in # 0
    BY <2>2 DEF WellNested
  <2>4. 1 .. n = {n} \cup 1 .. n - 1
    BY <1>1
  <2>5. Open(S) = {S[n].in} \cup {S[k].in : k \in 1 .. n - 1}
    BY <2>4 DEF Open
  <2> QED
    BY <2>2, <2>3, <2>5
<1> QED
  BY <1>2, <1>3
-----------------------------------------------------------------------------
(* What is declared where. *)

Decls(P) == {d \in DOMAIN P : \/ P[d].visit = "declare"
                              \/ P[d].visit = "body" /\ P[d].name # ""}

\* BoundIn, of the program P.
Bound(P, N, s, d) ==
    /\ s \in Scoped(N, d)
    /\ \/ P[d].in = s
       \/ /\ P[d].kind \in Hoisted
          /\ \A t \in Scoped(N, d) : t > s => KindIn(P, t) \in Leaky

SameName(P, N, s, d) == {e \in Decls(P) : Bound(P, N, s, e) /\ P[e].name = P[d].name}

\* Nothing that was visited changes with another visit.
LEMMA VisitAddsOne ==
    ASSUME NEW T, NEW P \in Seq(T), NEW N, NEW S,
           WellNested(P), IsNesting(P, N), Chained(P, N, S),
           NEW v \in T, v.in = S[Len(S)].in,
           NEW M, IsNesting(Append(P, v), M)
    PROVE  /\ WellNested(Append(P, v))
           /\ DOMAIN P = 1 .. Len(P) /\ Len(P) \in Nat
           /\ DOMAIN Append(P, v) = 1 .. Len(P) + 1
           /\ \A q \in 1 .. Len(P) :
                 /\ Append(P, v)[q] = P[q] /\ Scoped(M, q) = Scoped(N, q)
                 /\ q \in Decls(Append(P, v)) <=> q \in Decls(P)
                 /\ \A s : Bound(Append(P, v), M, s, q) <=> Bound(P, N, s, q)
           /\ Append(P, v)[Len(P) + 1] = v
           /\ Scoped(M, Len(P) + 1) = Open(S)
           /\ Chained(Append(P, v), M, S)
<1> DEFINE R == Append(P, v)
           n == Len(P)
<1>1. /\ n \in Nat /\ DOMAIN P = 1 .. n /\ DOMAIN R = 1 .. n + 1
      /\ \A q \in 1 .. n : R[q] = P[q]
      /\ R[n + 1] = v
  OBVIOUS
<1>2. Len(S) \in 1 .. Len(S)
  BY DEF Chained
<1>3. v.in \in 0 .. n
  BY <1>2, OpenScopes
<1>4. WellNested(R) /\ \A q \in DOMAIN P : M[q] = N[q]
  BY <1>3, OneMoreVisit
<1> HIDE DEF R, n
<1>5. \A q \in 1 .. n : Scoped(M, q) = Scoped(N, q)
  BY <1>1, <1>4 DEF Scoped
<1>6. ASSUME NEW q \in 1 .. n PROVE q \in Decls(R) <=> q \in Decls(P)
  <2>1. q \in DOMAIN R /\ q \in DOMAIN P /\ R[q] = P[q]
    BY <1>1
  <2> QED
    BY <2>1 DEF Decls
<1>7. ASSUME NEW q \in 1 .. n, NEW s PROVE Bound(R, M, s, q) <=> Bound(P, N, s, q)
  <2>1. ASSUME NEW t \in Scoped(N, q) PROVE KindIn(R, t) = KindIn(P, t)
    <3>1. t \in Nat /\ (t # 0 => t \in DOMAIN P)
      BY <1>1, ScopesAreNested
    <3>2. t # 0 => R[t] = P[t]
      BY <3>1, <1>1
    <3> QED
      BY <3>2 DEF KindIn
  <2>2. R[q] = P[q] /\ Scoped(M, q) = Scoped(N, q)
    BY <1>1, <1>5
  <2> QED
    BY <2>1, <2>2 DEF Bound
<1>8. Scoped(M, n + 1) = Open(S)
  <2>1. n + 1 \in DOMAIN R /\ R[n + 1].in = v.in
    BY <1>1
  <2>2. /\ v.in = 0 => Scoped(M, n + 1) = {0}
        /\ v.in # 0 => Scoped(M, n + 1) = {v.in} \cup Scoped(M, v.in)
    <3> IsNesting(R, M)
      BY DEF R
    <3> QED
      BY <2>1, <1>4, ScopesOf
  <2>3. v.in # 0 => Scoped(M, v.in) = Scoped(N, v.in)
    BY <1>3, <1>5
  <2>4. /\ v.in # 0 => Open(S) = {v.in} \cup Scoped(N, v.in)
        /\ v.in = 0 => Open(S) = {0}
    BY InAllOpen
  <2> QED
    BY <2>2, <2>3, <2>4, v.in = 0 \/ v.in # 0
<1>9. Chained(R, M, S)
  <2>1. ASSUME NEW i \in 2 .. Len(S)
        PROVE  /\ S[i].in \in DOMAIN R
               /\ R[S[i].in].in = S[i - 1].in /\ R[S[i].in].kind = S[i].kind
               /\ Scoped(M, S[i].in) = {S[k].in : k \in 1 .. i - 1}
    <3>1. /\ S[i].in \in 1 .. n
          /\ P[S[i].in].in = S[i - 1].in /\ P[S[i].in].kind = S[i].kind
          /\ Scoped(N, S[i].in) = {S[k].in : k \in 1 .. i - 1}
      BY <1>1 DEF Chained
    <3>2. S[i].in \in 1 .. n + 1
      BY <3>1, <1>1
    <3> QED
      BY <3>1, <3>2, <1>1, <1>5
  <2> QED
    BY <2>1 DEF Chained
<1> QED
  BY <1>1, <1>4, <1>5, <1>6, <1>7, <1>8, <1>9 DEF R, n
-----------------------------------------------------------------------------
(* What the analyzer knows of the declarations. *)

\* Variable v of scope s is what the program declares there, or hoists to it.
Told(P, N, s, v) ==
    /\ v.at \in Decls(P) /\ Bound(P, N, s, v.at)
    /\ v.name = P[v.at].name /\ v.kind = P[v.at].kind /\ v.flags = P[v.at].flags
    /\ v.descendant <=> P[v.at].in # s

ToldInv(P, N, S) ==
    \A i \in 1 .. Len(S) : \A j \in 1 .. Len(S[i].declared) : Told(P, N, S[i].in, S[i].declared[j])

\* A second declaration was compared with the first of its name.
Compared(R, new, old) ==
    \/ RedeclarationOk(new, old)
    \/ old.kind \in {"import_alias", "import_type", "infer_type"}
    \/ Report("Redeclaration_Of_Variable", new.at, old.at) \in R

AllCompared(R, xs) ==
    \A j \in 1 .. Len(xs) : \A k \in 1 .. j - 1 :
        /\ xs[k].name = xs[j].name
        /\ \A m \in 1 .. k - 1 : xs[m].name # xs[k].name
        => Compared(R, xs[j], xs[k])

ComparedInv(S, R) == \A i \in 1 .. Len(S) : AllCompared(R, S[i].declared)

\* In scopes that ended, what is declared twice was reported.
OnceIn(P, N, R, s) ==
    \A d \in Decls(P) :
        /\ P[d].in = s /\ P[d].kind \in Lexical
        /\ \A f \in SameName(P, N, s, d) :
              /\ ~(P[f].kind = "function" /\ P[f].in # s)
              /\ P[f].kind \in Lexical \cup Hoisted \cup Parameters
        => \A e \in SameName(P, N, s, d) :
              e # d => \E r \in R : r.diag = "Redeclaration_Of_Variable" /\ r.at \in {d, e}

EndedInv(P, N, S, R) == \A s : s \notin Open(S) => OnceIn(P, N, R, s)

\* The kinds which OnceIn is about do not merge.
LEMMA LexicalConflicts ==
    ASSUME NEW R, NEW new \in Variables, NEW old \in Variables, Compared(R, new, old),
           {new.kind, old.kind} \subseteq Lexical \cup Hoisted \cup Parameters,
           new.kind \in Lexical \/ old.kind \in Lexical,
           ~(new.kind = "function" /\ new.descendant),
           ~(old.kind = "function" /\ old.descendant)
    PROVE  Report("Redeclaration_Of_Variable", new.at, old.at) \in R
<1> USE DEF Lexical, Hoisted, Parameters
<1>1. old.kind \notin {"import_alias", "import_type", "infer_type", "interface", "namespace"}
      /\ new.kind \notin {"interface", "namespace", "type_alias", "enum"}
  OBVIOUS
<1>2. <<new.kind, old.kind>> \notin MergingKinds
  BY <1>1 DEF MergingKinds
<1>3. ~RedeclarationOk(new, old)
  BY <1>1, <1>2 DEF RedeclarationOk
<1> QED
  BY <1>1, <1>3 DEF Compared

\* What the list of a scope knows, when nothing is open inside, is enough.
LEMMA ScopeIsOnce ==
    ASSUME NEW P, NEW N, NEW R, NEW s, NEW xs \in Seq(Variables),
           \A j \in 1 .. Len(xs) : Told(P, N, s, xs[j]),
           \A e \in Decls(P) : Bound(P, N, s, e) => \E j \in 1 .. Len(xs) : xs[j].at = e,
           AllCompared(R, xs), WellNested(P), IsNesting(P, N)
    PROVE  OnceIn(P, N, R, s)
<1> SUFFICES ASSUME NEW d \in Decls(P),
                    P[d].in = s, P[d].kind \in Lexical,
                    \A f \in SameName(P, N, s, d) :
                       /\ ~(P[f].kind = "function" /\ P[f].in # s)
                       /\ P[f].kind \in Lexical \cup Hoisted \cup Parameters,
                    NEW e \in SameName(P, N, s, d), e # d
             PROVE  \E r \in R : r.diag = "Redeclaration_Of_Variable" /\ r.at \in {d, e}
  BY DEF OnceIn
<1>1. d \in DOMAIN P /\ s \in Scoped(N, d)
  BY ScopesAreNested DEF Decls
<1>2. Bound(P, N, s, d) /\ d \in SameName(P, N, s, d)
  BY <1>1 DEF Bound, SameName
<1>3. PICK i \in 1 .. Len(xs) : xs[i].at = d
  BY <1>2
<1>4. PICK j \in 1 .. Len(xs) : xs[j].at = e
  BY DEF SameName
<1>5. Len(xs) \in Nat /\ \A m \in 1 .. Len(xs) : xs[m] \in Variables
  OBVIOUS
<1>6. xs[i].name = P[d].name /\ xs[j].name = P[d].name
  BY <1>3, <1>4 DEF Told, SameName
<1> DEFINE K == {m \in 1 .. Len(xs) : xs[m].name = P[d].name}
<1>7. PICK k \in K : \A m \in K : k <= m
  <2>1. K \subseteq Nat /\ K # {}
    BY <1>5, <1>6
  <2> HIDE DEF K
  <2> QED
    BY <2>1, LeastNumber
<1>8. k \in 1 .. Len(xs) /\ xs[k].name = P[d].name /\ k <= i /\ k <= j
  BY <1>6, <1>7
<1>9. \A m \in 1 .. k - 1 : xs[m].name # xs[k].name
  <2>1. ASSUME NEW m \in 1 .. k - 1 PROVE xs[m].name # P[d].name
    <3>1. m \in 1 .. Len(xs) /\ ~(k <= m)
      BY <1>5, <1>8
    <3> QED
      BY <1>7, <3>1
  <2> QED
    BY <1>8, <2>1
<1>10. ASSUME NEW m \in 1 .. Len(xs), xs[m].name = P[d].name
       PROVE  /\ xs[m].at \in SameName(P, N, s, d)
              /\ xs[m].kind \in Lexical \cup Hoisted \cup Parameters
              /\ ~(xs[m].kind = "function" /\ xs[m].descendant)
  <2>1. Told(P, N, s, xs[m])
    OBVIOUS
  <2>2. xs[m].at \in SameName(P, N, s, d)
    BY <2>1, <1>10 DEF Told, SameName
  <2> QED
    BY <2>1, <2>2 DEF Told
<1>11. ASSUME NEW m \in 1 .. Len(xs), m # k, k <= m, xs[m].name = P[d].name,
              xs[m].kind \in Lexical \/ xs[k].kind \in Lexical
       PROVE  Report("Redeclaration_Of_Variable", xs[m].at, xs[k].at) \in R
  <2>1. k \in 1 .. m - 1
    BY <1>5, <1>8, <1>11
  <2>2. Compared(R, xs[m], xs[k])
    BY <2>1, <1>8, <1>9, <1>11 DEF AllCompared
  <2> QED
    BY <2>2, <1>5, <1>8, <1>10, <1>11, LexicalConflicts
<1>12. xs[i].kind \in Lexical
  BY <1>3 DEF Told
<1>13. CASE k = i
  <2>1. j # k
    BY <1>3, <1>4, <1>13
  <2>2. Report("Redeclaration_Of_Variable", e, d) \in R
    BY <2>1, <1>3, <1>4, <1>6, <1>8, <1>11, <1>12, <1>13
  <2> QED
    BY <2>2 DEF Report
<1>14. CASE k # i
  <2>1. Report("Redeclaration_Of_Variable", d, xs[k].at) \in R
    BY <1>3, <1>6, <1>8, <1>11, <1>12, <1>14
  <2> QED
    BY <2>1 DEF Report
<1> QED
  BY <1>13, <1>14
-----------------------------------------------------------------------------
(* The steps, as changes of the program P, the scopes S and the reports R. *)

\* And it knows all of them but X, and those in the scope that is open inside.
KnownBut(P, N, S, X) ==
    \A i \in 1 .. Len(S) : \A e \in Decls(P) \ X :
        /\ Bound(P, N, S[i].in, e)
        /\ i < Len(S) => S[i + 1].in \notin Scoped(N, e)
        => \E j \in 1 .. Len(S[i].declared) : S[i].declared[j].at = e

\* The invariant, but for declarations X which no scope was told of yet.
InvBut(P, N, S, R, X) ==
    /\ WellNested(P) /\ IsNesting(P, N) /\ Chained(P, N, S)
    /\ ToldInv(P, N, S) /\ KnownBut(P, N, S, X) /\ ComparedInv(S, R) /\ EndedInv(P, N, S, R)

\* Scopes that differ in what was used.
SameScopes(S, T) ==
    /\ Len(T) = Len(S)
    /\ \A i \in 1 .. Len(S) :
          /\ T[i].in = S[i].in /\ T[i].kind = S[i].kind
          /\ SameVariables(S[i].declared, T[i].declared)

LEMMA SameCompared ==
    ASSUME NEW xs, NEW ys, Len(xs) \in Nat, SameVariables(xs, ys), NEW R, NEW R2, R \subseteq R2,
           AllCompared(R, xs)
    PROVE  AllCompared(R2, ys)
<1> SUFFICES ASSUME NEW j \in 1 .. Len(ys), NEW k \in 1 .. j - 1,
                    ys[k].name = ys[j].name,
                    \A m \in 1 .. k - 1 : ys[m].name # ys[k].name
             PROVE  Compared(R2, ys[j], ys[k])
  BY DEF AllCompared
<1>1. j \in 1 .. Len(xs) /\ k \in 1 .. Len(xs) /\ \A m \in 1 .. k - 1 : m \in 1 .. Len(xs)
  BY DEF SameVariables
<1>2. /\ ys[j].at = xs[j].at /\ ys[j].name = xs[j].name /\ ys[j].kind = xs[j].kind
      /\ ys[j].flags = xs[j].flags /\ ys[j].descendant = xs[j].descendant
      /\ ys[k].at = xs[k].at /\ ys[k].name = xs[k].name /\ ys[k].kind = xs[k].kind
      /\ ys[k].flags = xs[k].flags /\ ys[k].descendant = xs[k].descendant
      /\ \A m \in 1 .. k - 1 : ys[m].name = xs[m].name
  BY <1>1 DEF SameVariables
<1>3. xs[k].name = xs[j].name /\ \A m \in 1 .. k - 1 : xs[m].name # xs[k].name
  BY <1>2
<1>4. Compared(R, xs[j], xs[k])
  BY <1>1, <1>3 DEF AllCompared
<1>5. RedeclarationOk(ys[j], ys[k]) <=> RedeclarationOk(xs[j], xs[k])
  BY <1>2 DEF RedeclarationOk
<1>6. CASE RedeclarationOk(xs[j], xs[k])
  BY <1>5, <1>6 DEF Compared
<1>7. CASE xs[k].kind \in {"import_alias", "import_type", "infer_type"}
  BY <1>2, <1>7 DEF Compared
<1>8. CASE Report("Redeclaration_Of_Variable", xs[j].at, xs[k].at) \in R
  BY <1>2, <1>8 DEF Compared
<1> QED
  BY <1>4, <1>6, <1>7, <1>8 DEF Compared

LEMMA SameIsOpen ==
    ASSUME NEW S, NEW T, SameScopes(S, T)
    PROVE  Open(T) = Open(S)
BY DEF SameScopes, Open

\* More reports, and more marks on what is used.
LEMMA MarksKeep ==
    ASSUME NEW P, NEW N, NEW S, NEW R, NEW X, InvBut(P, N, S, R, X),
           NEW T, SameScopes(S, T), \A i \in 1 .. Len(S) : Len(S[i].declared) \in Nat,
           NEW R2, R \subseteq R2
    PROVE  InvBut(P, N, T, R2, X)
<1>0. /\ WellNested(P) /\ IsNesting(P, N) /\ Chained(P, N, S)
      /\ ToldInv(P, N, S) /\ KnownBut(P, N, S, X) /\ ComparedInv(S, R) /\ EndedInv(P, N, S, R)
  BY DEF InvBut
<1>1. /\ Len(T) = Len(S) /\ Len(S) \in Nat \ {0}
      /\ \A i \in 1 .. Len(S) : T[i].in = S[i].in /\ T[i].kind = S[i].kind
  BY <1>0 DEF SameScopes, Chained
<1>2. Chained(P, N, T)
  <2>1. T[1].in = 0 /\ T[1].kind = "module"
    BY <1>0, <1>1 DEF Chained
  <2>2. ASSUME NEW i \in 2 .. Len(T)
        PROVE  /\ T[i].in \in DOMAIN P
               /\ P[T[i].in].in = T[i - 1].in /\ P[T[i].in].kind = T[i].kind
               /\ Scoped(N, T[i].in) = {T[k].in : k \in 1 .. i - 1}
    <3>1. i \in 2 .. Len(S) /\ i \in 1 .. Len(S) /\ i - 1 \in 1 .. Len(S)
          /\ \A k \in 1 .. i - 1 : k \in 1 .. Len(S)
      BY <1>1
    <3>2. T[i].in = S[i].in /\ T[i].kind = S[i].kind /\ T[i - 1].in = S[i - 1].in
          /\ \A k \in 1 .. i - 1 : T[k].in = S[k].in
      BY <1>1, <3>1
    <3>3. {T[k].in : k \in 1 .. i - 1} = {S[k].in : k \in 1 .. i - 1}
      BY <3>2
    <3>4. /\ S[i].in \in DOMAIN P
          /\ P[S[i].in].in = S[i - 1].in /\ P[S[i].in].kind = S[i].kind
          /\ Scoped(N, S[i].in) = {S[k].in : k \in 1 .. i - 1}
      BY <1>0, <3>1 DEF Chained
    <3> QED
      BY <3>2, <3>3, <3>4
  <2> QED
    BY <1>1, <2>1, <2>2 DEF Chained
<1>3. ToldInv(P, N, T)
  <2>1. ASSUME NEW i \in 1 .. Len(T), NEW j \in 1 .. Len(T[i].declared)
        PROVE  Told(P, N, T[i].in, T[i].declared[j])
    <3>1. i \in 1 .. Len(S) /\ T[i].in = S[i].in /\ SameVariables(S[i].declared, T[i].declared)
      BY <1>1 DEF SameScopes
    <3>2. j \in 1 .. Len(S[i].declared)
      BY <3>1 DEF SameVariables
    <3> DEFINE x == S[i].declared[j]
               y == T[i].declared[j]
    <3>3. y.at = x.at /\ y.name = x.name /\ y.kind = x.kind /\ y.flags = x.flags
          /\ y.descendant = x.descendant
      BY <3>1, <3>2 DEF SameVariables
    <3>4. Told(P, N, S[i].in, x)
      BY <1>0, <3>1, <3>2 DEF ToldInv
    <3> HIDE DEF x, y
    <3>5. Told(P, N, S[i].in, y)
      BY <3>3, <3>4 DEF Told
    <3> QED
      BY <3>1, <3>5 DEF y
  <2> QED
    BY <2>1 DEF ToldInv
<1>4. KnownBut(P, N, T, X)
  <2>1. ASSUME NEW i \in 1 .. Len(T), NEW e \in Decls(P) \ X,
               Bound(P, N, T[i].in, e), i < Len(T) => T[i + 1].in \notin Scoped(N, e)
        PROVE  \E j \in 1 .. Len(T[i].declared) : T[i].declared[j].at = e
    <3>1. i \in 1 .. Len(S) /\ T[i].in = S[i].in /\ SameVariables(S[i].declared, T[i].declared)
      BY <1>1 DEF SameScopes
    <3>2. i < Len(S) => S[i + 1].in \notin Scoped(N, e)
      BY <1>1, <2>1, <3>1
    <3>3. PICK j \in 1 .. Len(S[i].declared) : S[i].declared[j].at = e
      BY <1>0, <2>1, <3>1, <3>2 DEF KnownBut
    <3> QED
      BY <3>1, <3>3 DEF SameVariables
  <2> QED
    BY <2>1 DEF KnownBut
<1>5. ComparedInv(T, R2)
  <2>1. ASSUME NEW i \in 1 .. Len(T) PROVE AllCompared(R2, T[i].declared)
    BY <1>0, <1>1, SameCompared DEF SameScopes, ComparedInv
  <2> QED
    BY <2>1 DEF ComparedInv
<1>6. EndedInv(P, N, T, R2)
  <2>1. \A s : OnceIn(P, N, R, s) => OnceIn(P, N, R2, s)
    BY DEF OnceIn
  <2> QED
    BY <1>0, <2>1, SameIsOpen DEF EndedInv
<1> QED
  BY <1>0, <1>2, <1>3, <1>4, <1>5, <1>6 DEF InvBut

\* A visit; if it is a declaration, then no scope was told of it yet.
LEMMA VisitKeeps ==
    ASSUME NEW V, NEW P \in Seq(V), NEW N, NEW S, NEW R, InvBut(P, N, S, R, {}),
           NEW v \in V, v.in = S[Len(S)].in,
           NEW M, IsNesting(Append(P, v), M)
    PROVE  InvBut(Append(P, v), M, S, R, {Len(P) + 1})
<1>0. /\ WellNested(P) /\ IsNesting(P, N) /\ Chained(P, N, S)
      /\ ToldInv(P, N, S) /\ KnownBut(P, N, S, {}) /\ ComparedInv(S, R) /\ EndedInv(P, N, S, R)
  BY DEF InvBut
<1> DEFINE Q == Append(P, v)
           x == Len(P) + 1
<1>1. /\ WellNested(Q)
      /\ DOMAIN P = 1 .. Len(P) /\ Len(P) \in Nat
      /\ DOMAIN Q = 1 .. x
      /\ \A q \in 1 .. Len(P) :
            /\ Q[q] = P[q] /\ Scoped(M, q) = Scoped(N, q)
            /\ q \in Decls(Q) <=> q \in Decls(P)
            /\ \A s : Bound(Q, M, s, q) <=> Bound(P, N, s, q)
      /\ Q[x] = v
      /\ Scoped(M, x) = Open(S)
      /\ Chained(Q, M, S)
  BY <1>0, VisitAddsOne
<1>2. IsNesting(Q, M)
  OBVIOUS
<1>3. Len(S) \in Nat \ {0}
  BY <1>0 DEF Chained
<1> HIDE DEF Q, x
<1>4. /\ \A q \in Decls(P) : q \in 1 .. Len(P) /\ q # x
      /\ \A q \in Decls(Q) : q # x => q \in 1 .. Len(P) /\ q \in Decls(P)
  <2> DEFINE n == Len(P)
  <2>1. n \in Nat /\ DOMAIN P = 1 .. n /\ DOMAIN Q = 1 .. x /\ x = n + 1
    BY <1>1 DEF x
  <2>2. Decls(P) \subseteq 1 .. n /\ Decls(Q) \subseteq 1 .. x
    BY <2>1 DEF Decls
  <2> HIDE DEF n
  <2>3. \A q \in 1 .. n : q # x
    BY <2>1
  <2>4. \A q \in 1 .. x : q # x => q \in 1 .. n
    BY <2>1
  <2>5. \A q \in Decls(Q) : q # x => q \in 1 .. n /\ q \in Decls(P)
    BY <1>1, <2>2, <2>4 DEF n
  <2> QED
    BY <2>2, <2>3, <2>5 DEF n
<1>5. ToldInv(Q, M, S)
  <2>1. ASSUME NEW i \in 1 .. Len(S), NEW j \in 1 .. Len(S[i].declared)
        PROVE  Told(Q, M, S[i].in, S[i].declared[j])
    <3> DEFINE y == S[i].declared[j]
    <3>1. Told(P, N, S[i].in, y)
      BY <1>0 DEF ToldInv
    <3> HIDE DEF y
    <3>2. y.at \in Decls(P) /\ y.at \in 1 .. Len(P)
      BY <3>1, <1>4 DEF Told
    <3>3. Q[y.at] = P[y.at] /\ y.at \in Decls(Q)
          /\ (Bound(Q, M, S[i].in, y.at) <=> Bound(P, N, S[i].in, y.at))
      BY <3>2, <1>1
    <3>4. Told(Q, M, S[i].in, y)
      BY <3>1, <3>3 DEF Told
    <3> QED
      BY <3>4 DEF y
  <2> QED
    BY <2>1 DEF ToldInv
<1>6. KnownBut(Q, M, S, {x})
  <2>1. ASSUME NEW i \in 1 .. Len(S), NEW e \in Decls(Q) \ {x},
               Bound(Q, M, S[i].in, e), i < Len(S) => S[i + 1].in \notin Scoped(M, e)
        PROVE  \E j \in 1 .. Len(S[i].declared) : S[i].declared[j].at = e
    <3>1. e \in 1 .. Len(P) /\ e \in Decls(P) \ {}
      BY <1>4
    <3>2. Bound(P, N, S[i].in, e) /\ Scoped(M, e) = Scoped(N, e)
      BY <1>1, <2>1, <3>1
    <3> QED
      BY <1>0, <2>1, <3>1, <3>2 DEF KnownBut
  <2> QED
    BY <2>1 DEF KnownBut
<1>7. EndedInv(Q, M, S, R)
  <2>1. ASSUME NEW s, s \notin Open(S) PROVE OnceIn(Q, M, R, s)
    <3>1. S[Len(S)].in \in Open(S)
      BY <1>3 DEF Open
    <3>2. ~Bound(Q, M, s, x)
      BY <1>1, <2>1 DEF Bound
    <3>3. ASSUME NEW d \in Decls(Q), Q[d].in = s
          PROVE  d \in Decls(P) /\ Q[d] = P[d] /\ SameName(Q, M, s, d) = SameName(P, N, s, d)
      <4>1. d # x
        BY <1>1, <2>1, <3>1, <3>3
      <4>2. d \in 1 .. Len(P) /\ d \in Decls(P) /\ Q[d] = P[d]
        BY <1>1, <1>4, <4>1
      <4>3. ASSUME NEW e PROVE e \in SameName(Q, M, s, d) <=> e \in SameName(P, N, s, d)
        <5>1. CASE e \in 1 .. Len(P)
          <6>1. /\ Q[e] = P[e] /\ (e \in Decls(Q) <=> e \in Decls(P))
                /\ (Bound(Q, M, s, e) <=> Bound(P, N, s, e))
            BY <1>1, <5>1
          <6> QED
            BY <6>1, <4>2 DEF SameName
        <5>2. CASE e \notin 1 .. Len(P)
          <6>1. e \notin Decls(P)
            BY <1>4, <5>2
          <6>2. e \in Decls(Q) => e = x
            BY <1>4, <5>2
          <6> QED
            BY <3>2, <6>1, <6>2 DEF SameName
        <5> QED
          BY <5>1, <5>2
      <4> QED
        BY <4>2, <4>3
    <3>4. ASSUME NEW d \in Decls(Q), Q[d].in = s, NEW e \in SameName(Q, M, s, d)
          PROVE  e \in SameName(P, N, s, d) /\ Q[e] = P[e]
      <4>1. e \in SameName(P, N, s, d)
        BY <3>3, <3>4
      <4>2. e \in 1 .. Len(P)
        BY <1>4, <4>1 DEF SameName
      <4> QED
        BY <1>1, <4>1, <4>2
    <3>5. OnceIn(P, N, R, s)
      BY <1>0, <2>1 DEF EndedInv
    <3> QED
      BY <3>3, <3>4, <3>5 DEF OnceIn
  <2> QED
    BY <2>1 DEF EndedInv
<1>8. ComparedInv(S, R)
  BY <1>0
<1> QED
  BY <1>1, <1>2, <1>5, <1>6, <1>7, <1>8 DEF InvBut, Q, x

\* A visit that declares nothing.
LEMMA NothingLeft ==
    ASSUME NEW P, NEW N, NEW S, NEW R, NEW x, InvBut(P, N, S, R, {x}), x \notin Decls(P)
    PROVE  InvBut(P, N, S, R, {})
BY DEF InvBut, KnownBut

\* A scope opens.
LEMMA EnterKeeps ==
    ASSUME NEW P, NEW N, NEW Z, NEW S \in Seq(Z), NEW R, InvBut(P, N, S, R, {}),
           Len(P) \in DOMAIN P, P[Len(P)].in = S[Len(S)].in, Scoped(N, Len(P)) = Open(S),
           NEW sc \in Z, sc.in = Len(P), sc.kind = P[Len(P)].kind, sc.declared = << >>
    PROVE  InvBut(P, N, Append(S, sc), R, {})
<1> DEFINE T == Append(S, sc)
           n == Len(S)
           x == Len(P)
<1>0. /\ WellNested(P) /\ IsNesting(P, N) /\ Chained(P, N, S)
      /\ ToldInv(P, N, S) /\ KnownBut(P, N, S, {}) /\ ComparedInv(S, R) /\ EndedInv(P, N, S, R)
  BY DEF InvBut
<1>1. /\ n \in Nat \ {0} /\ Len(T) = n + 1 /\ T[n + 1] = sc
      /\ \A i \in 1 .. n : T[i] = S[i]
  BY <1>0 DEF Chained
<1>2. x \in DOMAIN P /\ P[x].in = S[n].in /\ Scoped(N, x) = Open(S) /\ sc.in = x /\ sc.kind = P[x].kind
  OBVIOUS
<1> HIDE DEF T, n
<1>3. ASSUME NEW e \in DOMAIN P PROVE x \notin Scoped(N, e)
  <2>1. x \in Nat /\ e \in 1 .. x
    BY <1>0 DEF WellNested
  <2>2. P[e].in \in Nat /\ P[e].in < e
    BY <1>0, ScopesOf
  <2>3. \A s \in Scoped(N, e) : s \in Nat /\ s <= P[e].in
    BY <1>0, ScopesAreNested
  <2> HIDE DEF x
  <2> QED
    BY <2>1, <2>2, <2>3
<1> HIDE DEF x
<1>4. Chained(P, N, T)
  <2>1. T[1].in = 0 /\ T[1].kind = "module"
    BY <1>0, <1>1 DEF Chained
  <2>2. ASSUME NEW i \in 2 .. Len(T)
        PROVE  /\ T[i].in \in DOMAIN P
               /\ P[T[i].in].in = T[i - 1].in /\ P[T[i].in].kind = T[i].kind
               /\ Scoped(N, T[i].in) = {T[k].in : k \in 1 .. i - 1}
    <3>1. i - 1 \in 1 .. n /\ (\A k \in 1 .. i - 1 : k \in 1 .. n) /\ (i # n + 1 => i \in 1 .. n /\ i \in 2 .. n)
      BY <1>1
    <3>2. {T[k].in : k \in 1 .. i - 1} = {S[k].in : k \in 1 .. i - 1} /\ T[i - 1] = S[i - 1]
      BY <1>1, <3>1
    <3>3. CASE i = n + 1
      <4>1. i - 1 = n
        BY <1>1, <3>3
      <4>2. Scoped(N, x) = {S[k].in : k \in 1 .. i - 1}
        BY <1>2, <4>1 DEF Open, n
      <4> QED
        BY <1>1, <1>2, <3>2, <3>3, <4>1, <4>2
    <3>4. CASE i # n + 1
      <4>1. /\ S[i].in \in DOMAIN P
            /\ P[S[i].in].in = S[i - 1].in /\ P[S[i].in].kind = S[i].kind
            /\ Scoped(N, S[i].in) = {S[k].in : k \in 1 .. i - 1}
        BY <1>0, <3>1, <3>4 DEF Chained, n
      <4> QED
        BY <4>1, <3>1, <3>2, <3>4, <1>1
    <3> QED
      BY <3>3, <3>4
  <2>3. Len(T) \in Nat \ {0}
    BY <1>1
  <2> QED
    BY <2>1, <2>2, <2>3 DEF Chained
<1>5. \A i \in 1 .. Len(T) : i # n + 1 => i \in 1 .. n /\ T[i] = S[i]
  BY <1>1
<1>6. Len(sc.declared) = 0
  OBVIOUS
<1>7. ToldInv(P, N, T)
  <2>1. ASSUME NEW i \in 1 .. Len(T), NEW j \in 1 .. Len(T[i].declared)
        PROVE  Told(P, N, T[i].in, T[i].declared[j])
    <3>1. CASE i = n + 1
      BY <3>1, <1>1, <1>6
    <3>2. CASE i # n + 1
      BY <3>2, <1>0, <1>5 DEF ToldInv, n
    <3> QED
      BY <3>1, <3>2
  <2> QED
    BY <2>1 DEF ToldInv
<1>8. ComparedInv(T, R)
  <2>1. ASSUME NEW i \in 1 .. Len(T) PROVE AllCompared(R, T[i].declared)
    <3>1. CASE i = n + 1
      BY <3>1, <1>1, <1>6 DEF AllCompared
    <3>2. CASE i # n + 1
      BY <3>2, <1>0, <1>5 DEF ComparedInv, n
    <3> QED
      BY <3>1, <3>2
  <2> QED
    BY <2>1 DEF ComparedInv
<1>9. KnownBut(P, N, T, {})
  <2>1. ASSUME NEW i \in 1 .. Len(T), NEW e \in Decls(P) \ {},
               Bound(P, N, T[i].in, e), i < Len(T) => T[i + 1].in \notin Scoped(N, e)
        PROVE  \E j \in 1 .. Len(T[i].declared) : T[i].declared[j].at = e
    <3>0. e \in DOMAIN P
      BY DEF Decls
    <3>1. CASE i = n + 1
      BY <3>0, <3>1, <2>1, <1>1, <1>2, <1>3 DEF Bound
    <3>2. CASE i # n + 1
      <4>1. i \in 1 .. n /\ T[i] = S[i]
        BY <1>5, <3>2
      <4>2. i < n => i < Len(T) /\ i + 1 \in 1 .. n
        BY <1>1, <4>1
      <4>3. i < n => S[i + 1].in \notin Scoped(N, e)
        BY <1>1, <2>1, <4>2
      <4> QED
        BY <1>0, <2>1, <4>1, <4>3 DEF KnownBut, n
    <3> QED
      BY <3>1, <3>2
  <2> QED
    BY <2>1 DEF KnownBut
<1>10. EndedInv(P, N, T, R)
  <2>1. Open(S) \subseteq Open(T)
    <3>1. \A i \in 1 .. n : i \in 1 .. Len(T) /\ T[i] = S[i]
      BY <1>1
    <3> QED
      BY <3>1 DEF Open, n
  <2> QED
    BY <1>0, <2>1 DEF EndedInv
<1> QED
  BY <1>0, <1>4, <1>7, <1>8, <1>9, <1>10 DEF InvBut, T

\* A variable more, compared with the first of its name.
LEMMA DeclareCompares ==
    ASSUME NEW scope \in Scopes, NEW d \in Variables, NEW R, AllCompared(R, scope.declared),
           NEW R2, R \cup DeclareVariable(scope, d).reports \subseteq R2
    PROVE  AllCompared(R2, DeclareVariable(scope, d).scope.declared)
<1> DEFINE xs == scope.declared
           ys == DeclareVariable(scope, d).scope.declared
           n == Len(xs)
<1>1. PICK used \in BOOLEAN : /\ ys = Append(xs, [d EXCEPT !.used = used])
                              /\ [d EXCEPT !.used = used] \in Variables
  BY DeclareIs
<1> DEFINE e == [d EXCEPT !.used = used]
<1>2. e.at = d.at /\ e.name = d.name /\ e.kind = d.kind /\ e.flags = d.flags /\ e.descendant = d.descendant
  BY DEF Variables
<1>3. xs \in Seq(Variables)
  BY DEF Scopes
<1>4. ConflictReports(d, Find(xs, d.name, "any")) \subseteq R2
  BY DEF DeclareVariable
<1>5. R \subseteq R2 /\ AllCompared(R, xs) /\ e \in Variables /\ ys = Append(xs, e)
  BY <1>1
<1> HIDE DEF xs, ys, e
<1>6. /\ n \in Nat /\ Len(ys) = n + 1 /\ ys[n + 1] = e
      /\ \A j \in 1 .. n : ys[j] = xs[j] /\ xs[j] \in Variables
  BY <1>3, <1>5
<1> HIDE DEF n
<1>7. ASSUME NEW j \in 1 .. n + 1, NEW k \in 1 .. j - 1,
             ys[k].name = ys[j].name, \A m \in 1 .. k - 1 : ys[m].name # ys[k].name
      PROVE  Compared(R2, ys[j], ys[k])
  <2>1. k \in 1 .. n /\ (\A m \in 1 .. k - 1 : m \in 1 .. n) /\ ys[k] = xs[k]
    BY <1>6
  <2>2. CASE j # n + 1
    <3>1. j \in 1 .. n /\ ys[j] = xs[j]
      BY <1>6, <2>2
    <3>2. \A m \in 1 .. k - 1 : xs[m].name # xs[k].name
      BY <1>6, <1>7, <2>1
    <3>3. Compared(R, xs[j], xs[k])
      BY <1>5, <1>7, <2>1, <3>1, <3>2 DEF AllCompared, n
    <3> QED
      BY <1>5, <2>1, <3>1, <3>3 DEF Compared
  <2>3. CASE j = n + 1
    <3>1. xs[k].name = d.name /\ \A m \in 1 .. k - 1 : xs[m].name # d.name
      BY <1>2, <1>6, <1>7, <2>1, <2>3
    <3>2. Find(xs, d.name, "any") = xs[k]
      <4>1. \A kind : Matches("any", kind)
        BY DEF Matches
      <4>2. PICK f \in 1 .. n : /\ Find(xs, d.name, "any") = xs[f] /\ xs[f].name = d.name
                                /\ \A m \in 1 .. f - 1 : xs[m].name # d.name
        <5>1. \/ \A m \in 1 .. Len(xs) : xs[m].name # d.name
              \/ \E f \in 1 .. Len(xs) :
                   /\ Find(xs, d.name, "any") = xs[f] /\ xs[f].name = d.name
                   /\ \A m \in 1 .. f - 1 : xs[m].name # d.name
          BY <1>3, <4>1, FindIs
        <5> QED
          BY <2>1, <3>1, <5>1 DEF n
      <4>3. ~(k < f) /\ ~(f < k)
        <5>1. k \in Int /\ f \in Int
          OBVIOUS
        <5>2. k < f => k \in 1 .. f - 1
          OBVIOUS
        <5>3. f < k => f \in 1 .. k - 1
          OBVIOUS
        <5> QED
          BY <3>1, <4>2, <5>2, <5>3
      <4>4. f = k
        BY <4>3
      <4> QED
        BY <4>2, <4>4
    <3>3. xs[k] \in Variables /\ xs[k].at # 0 /\ Found(xs[k])
      BY <1>6, <2>1, VariablesAreFound
    <3> DEFINE old == xs[k]
    <3> HIDE DEF old
    <3>4. ConflictReports(d, old) \subseteq R2 /\ old.at # 0 /\ Found(old)
      BY <1>4, <3>2, <3>3 DEF old
    <3>5. Compared(R2, d, old)
      BY <3>4 DEF ConflictReports, Compared
    <3>6. RedeclarationOk(e, old) <=> RedeclarationOk(d, old)
      BY <1>2 DEF RedeclarationOk
    <3>7. Compared(R2, e, old)
      <4>1. CASE RedeclarationOk(d, old)
        BY <3>6, <4>1 DEF Compared
      <4>2. CASE old.kind \in {"import_alias", "import_type", "infer_type"}
        BY <4>2 DEF Compared
      <4>3. CASE Report("Redeclaration_Of_Variable", d.at, old.at) \in R2
        BY <1>2, <4>3 DEF Compared
      <4> QED
        BY <3>5, <4>1, <4>2, <4>3 DEF Compared
    <3> QED
      BY <3>7, <1>6, <2>1, <2>3 DEF old
  <2> QED
    BY <2>2, <2>3
<1>8. AllCompared(R2, ys)
  BY <1>6, <1>7 DEF AllCompared
<1> QED
  BY <1>8 DEF ys

\* T is S, with another scope on top.
OnTop(S, T, sc) ==
    /\ Len(T) = Len(S) /\ T[Len(S)] = sc
    /\ sc.in = S[Len(S)].in /\ sc.kind = S[Len(S)].kind
    /\ \A i \in 1 .. Len(S) - 1 : T[i] = S[i]

\* A declaration is made in the top scope.
LEMMA DeclareKeeps ==
    ASSUME NEW P, NEW N, NEW S, NEW R, InvBut(P, N, S, R, {Len(P)}),
           NEW xs \in Seq(Variables), xs = S[Len(S)].declared,
           Len(P) \in Decls(P), P[Len(P)].in = S[Len(S)].in, Scoped(N, Len(P)) = Open(S),
           NEW v \in Variables, v.at = Len(P), v.name = P[Len(P)].name, v.kind = P[Len(P)].kind,
           v.flags = P[Len(P)].flags, v.descendant = FALSE,
           NEW sc, sc.declared = Append(xs, v),
           NEW R2, R \subseteq R2, AllCompared(R2, sc.declared),
           NEW T, OnTop(S, T, sc)
    PROVE  InvBut(P, N, T, R2, {})
<1> DEFINE n == Len(S)
           x == Len(P)
           ys == Append(xs, v)
<1>0. /\ WellNested(P) /\ IsNesting(P, N) /\ Chained(P, N, S)
      /\ ToldInv(P, N, S) /\ KnownBut(P, N, S, {x}) /\ ComparedInv(S, R) /\ EndedInv(P, N, S, R)
  BY DEF InvBut
<1>1. /\ n \in Nat \ {0} /\ Len(T) = n /\ T[n] = sc /\ sc.in = S[n].in /\ sc.kind = S[n].kind
      /\ \A i \in 1 .. n - 1 : T[i] = S[i]
  BY <1>0 DEF Chained, OnTop
<1>2. /\ Len(xs) \in Nat /\ Len(ys) = Len(xs) + 1 /\ ys[Len(xs) + 1] = v
      /\ \A j \in 1 .. Len(xs) : ys[j] = xs[j]
  BY SMTT(30)
<1>3. sc.declared = ys /\ xs = S[n].declared /\ AllCompared(R2, ys)
  OBVIOUS
<1> HIDE DEF n, ys
<1>4. \A i \in 1 .. n : (i # n => i \in 1 .. n - 1 /\ T[i] = S[i]) /\ T[i].in = S[i].in /\ T[i].kind = S[i].kind
  BY <1>1
<1>5. Chained(P, N, T)
  <2>1. T[1].in = 0 /\ T[1].kind = "module"
    BY <1>0, <1>1, <1>4 DEF Chained
  <2>2. ASSUME NEW i \in 2 .. Len(T)
        PROVE  /\ T[i].in \in DOMAIN P
               /\ P[T[i].in].in = T[i - 1].in /\ P[T[i].in].kind = T[i].kind
               /\ Scoped(N, T[i].in) = {T[k].in : k \in 1 .. i - 1}
    <3>1. i \in 1 .. n /\ i - 1 \in 1 .. n /\ (\A k \in 1 .. i - 1 : k \in 1 .. n) /\ i \in 2 .. n
      BY <1>1
    <3>2. {T[k].in : k \in 1 .. i - 1} = {S[k].in : k \in 1 .. i - 1}
      BY <1>4, <3>1
    <3>3. /\ S[i].in \in DOMAIN P
          /\ P[S[i].in].in = S[i - 1].in /\ P[S[i].in].kind = S[i].kind
          /\ Scoped(N, S[i].in) = {S[k].in : k \in 1 .. i - 1}
      BY <1>0, <3>1 DEF Chained, n
    <3>4. T[i].in = S[i].in /\ T[i].kind = S[i].kind /\ T[i - 1].in = S[i - 1].in
      BY <1>4, <3>1
    <3> QED
      BY <3>2, <3>3, <3>4
  <2> QED
    BY <1>1, <2>1, <2>2 DEF Chained
<1>6. ToldInv(P, N, T)
  <2>1. ASSUME NEW i \in 1 .. Len(T), NEW j \in 1 .. Len(T[i].declared)
        PROVE  Told(P, N, T[i].in, T[i].declared[j])
    <3>1. CASE i # n
      BY <3>1, <1>0, <1>1, <1>4 DEF ToldInv, n
    <3>2. CASE i = n
      <4>1. T[i].declared = ys /\ T[i].in = S[n].in /\ n \in 1 .. n
        BY <1>1, <1>3, <3>2
      <4>2. ASSUME NEW m \in 1 .. Len(ys) PROVE Told(P, N, S[n].in, ys[m])
        <5>1. CASE m = Len(xs) + 1
          <6>1. Bound(P, N, S[n].in, x)
            <7>1. S[n].in \in Open(S)
              BY <4>1 DEF Open, n
            <7> QED
              BY <7>1 DEF Bound, n
          <6>2. Told(P, N, S[n].in, v)
            BY <6>1 DEF Told, n
          <6> QED
            BY <6>2, <5>1, <1>2
        <5>2. CASE m # Len(xs) + 1
          <6>1. m \in 1 .. Len(xs)
            BY <1>2, <5>2
          <6>2. Told(P, N, S[n].in, xs[m])
            BY <1>0, <1>3, <4>1, <6>1 DEF ToldInv, n
          <6> QED
            BY <6>1, <6>2, <1>2
        <5> QED
          BY <5>1, <5>2
      <4> QED
        BY <4>1, <4>2
    <3> QED
      BY <3>1, <3>2
  <2> QED
    BY <2>1 DEF ToldInv
<1>7. KnownBut(P, N, T, {})
  <2>1. ASSUME NEW i \in 1 .. Len(T), NEW e \in Decls(P) \ {},
               Bound(P, N, T[i].in, e), i < Len(T) => T[i + 1].in \notin Scoped(N, e)
        PROVE  \E j \in 1 .. Len(T[i].declared) : T[i].declared[j].at = e
    <3>1. i \in 1 .. n /\ T[i].in = S[i].in
      BY <1>1, <1>4
    <3>2. i < n => i + 1 \in 1 .. n /\ T[i + 1].in = S[i + 1].in
      BY <1>1, <1>4, <3>1
    <3>3. i < n => S[i + 1].in \notin Scoped(N, e)
      BY <1>1, <2>1, <3>2
    <3>4. CASE e = x
      <4>1. i = n
        <5>1. i < n => S[i + 1].in \in Open(S)
          BY <3>2 DEF Open, n
        <5> QED
          BY <5>1, <3>1, <3>3, <3>4, <1>1
      <4>2. T[i].declared = ys /\ Len(xs) + 1 \in 1 .. Len(ys) /\ ys[Len(xs) + 1].at = e
        BY <4>1, <3>4, <1>1, <1>2, <1>3
      <4> QED
        BY <4>2
    <3>5. CASE e # x
      <4>1. PICK j \in 1 .. Len(S[i].declared) : S[i].declared[j].at = e
        BY <1>0, <2>1, <3>1, <3>3, <3>5 DEF KnownBut, n
      <4>2. CASE i # n
        BY <4>1, <4>2, <3>1, <1>4
      <4>3. CASE i = n
        <5>1. j \in 1 .. Len(xs) /\ xs[j].at = e /\ T[i].declared = ys
          BY <4>1, <4>3, <1>1, <1>3
        <5>2. j \in 1 .. Len(ys) /\ ys[j].at = e
          BY <5>1, <1>2, SMTT(30)
        <5> QED
          BY <5>1, <5>2
      <4> QED
        BY <4>2, <4>3
    <3> QED
      BY <3>4, <3>5
  <2> QED
    BY <2>1 DEF KnownBut
<1>8. ComparedInv(T, R2)
  <2>1. ASSUME NEW i \in 1 .. Len(T) PROVE AllCompared(R2, T[i].declared)
    <3>1. CASE i = n
      BY <3>1, <1>1, <1>3
    <3>2. CASE i # n
      <4>1. AllCompared(R, T[i].declared)
        BY <3>2, <1>0, <1>1, <1>4 DEF ComparedInv, n
      <4> QED
        BY <4>1 DEF AllCompared, Compared
    <3> QED
      BY <3>1, <3>2
  <2> QED
    BY <2>1 DEF ComparedInv
<1>9. EndedInv(P, N, T, R2)
  <2>1. \A s : OnceIn(P, N, R, s) => OnceIn(P, N, R2, s)
    BY DEF OnceIn
  <2>2. Open(T) = Open(S)
    BY <1>1, <1>4 DEF Open, n
  <2> QED
    BY <1>0, <2>1, <2>2 DEF EndedInv
<1> QED
  BY <1>0, <1>5, <1>6, <1>7, <1>8, <1>9 DEF InvBut
-----------------------------------------------------------------------------
(* A scope hands its variables to the one around it. *)

HandedAs(x, y) ==
    y.at = x.at /\ y.name = x.name /\ y.kind = x.kind /\ y.flags = x.flags /\ y.descendant

\* xs are the variables of the parent, cs those of the child, and ys what the
\* parent has after the first i of them.
HandedTo(xs, cs, ys, i) ==
    /\ Len(ys) >= Len(xs)
    /\ \A m \in 1 .. Len(xs) : ys[m] = xs[m]
    /\ \A m \in Len(xs) + 1 .. Len(ys) :
          \E h \in 1 .. i : cs[h].kind \in Hoisted /\ HandedAs(cs[h], ys[m])
    /\ \A h \in 1 .. i : cs[h].kind \in Hoisted => \E m \in 1 .. Len(ys) : HandedAs(cs[h], ys[m])

\* DeclarationsToParent is a recursive function: it has a value.
HandingOf(child, parent, f) ==
    /\ DeclarationsToParent(child, parent) = f[Len(child.declared)]
    /\ f[0] = [scope |-> parent, reports |-> {}]
    /\ \A i \in 1 .. Len(child.declared) : f[i] = HandDeclaration(child, f[i - 1], child.declared[i])

LEMMA HandingExists ==
    ASSUME NEW child, NEW parent, Len(child.declared) \in Nat
    PROVE  \E f : HandingOf(child, parent, f)
<1> DEFINE n == Len(child.declared)
           Upon(f, i) == IF i = 0 THEN [scope |-> parent, reports |-> {}]
                         ELSE HandDeclaration(child, f[i - 1], child.declared[i])
           Q == {m \in Nat : \E f : f = [i \in 0 .. m |-> Upon(f, i)]}
<1>0. n \in Nat
  OBVIOUS
<1> HIDE DEF n
<1>b. 0 \in Q
  <2> DEFINE e == [i \in 0 .. 0 |-> [scope |-> parent, reports |-> {}]]
  <2>1. \A i \in 0 .. 0 : i = 0
    OBVIOUS
  <2>2. e = [i \in 0 .. 0 |-> Upon(e, i)]
    BY <2>1
  <2> HIDE DEF e, Upon
  <2>3. \E f : f = [i \in 0 .. 0 |-> Upon(f, i)]
    BY <2>2
  <2> QED
    BY <2>3
<1>1. ASSUME NEW m \in 1 .. n, \A j \in 1 .. m - 1 : j \in Q
      PROVE  m \in Q
  <2>1. m - 1 \in Q
    <3>1. m - 1 = 0 \/ m - 1 \in 1 .. m - 1
      OBVIOUS
    <3> HIDE DEF Q
    <3> QED
      BY <1>1, <1>b, <3>1
  <2>2. PICK f : f = [i \in 0 .. m - 1 |-> Upon(f, i)]
    BY <2>1
  <2> DEFINE g == [i \in 0 .. m |-> IF i = m THEN Upon(f, m) ELSE f[i]]
  <2>3. ASSUME NEW i \in 0 .. m PROVE g[i] = Upon(g, i)
    <3>1. i # 0 => i - 1 \in 0 .. m /\ i - 1 # m
      OBVIOUS
    <3>2. i # 0 => g[i - 1] = f[i - 1]
      BY <3>1
    <3>3. g[i] = Upon(f, i)
      <4>1. CASE i = m
        BY <4>1
      <4>2. CASE i # m
        <5>1. i \in 0 .. m - 1
          BY <4>2
        <5>2. f[i] = Upon(f, i)
          <6> HIDE DEF Upon
          <6> QED
            BY <5>1, <2>2
        <5>3. g[i] = f[i]
          BY <4>2
        <5> QED
          BY <5>2, <5>3
      <4> QED
        BY <4>1, <4>2
    <3> HIDE DEF g
    <3> QED
      BY <3>2, <3>3
  <2>4. g = [i \in 0 .. m |-> Upon(g, i)]
    <3>1. g = [i \in 0 .. m |-> g[i]]
      OBVIOUS
    <3> HIDE DEF g, Upon
    <3> QED
      BY <3>1, <2>3
  <2>5. \E h : h = [i \in 0 .. m |-> Upon(h, i)]
    <3> HIDE DEF g, Upon
    <3> QED
      BY <2>4
  <2> QED
    BY <2>5
<1>2. n \in Q
  <2> HIDE DEF Q
  <2>1. \A m \in 1 .. n : m \in Q
    BY <1>0, <1>1, OfAllBefore
  <2>2. n = 0 \/ n \in 1 .. n
    BY <1>0
  <2> QED
    BY <1>b, <2>1, <2>2
<1>3. \E f : f = [i \in 0 .. n |-> Upon(f, i)]
  BY <1>2
<1> DEFINE f == CHOOSE f : f = [i \in 0 .. n |-> Upon(f, i)]
<1>4. f = [i \in 0 .. n |-> Upon(f, i)]
  <2> HIDE DEF Upon
  <2> QED
    BY <1>3
<1>5. DeclarationsToParent(child, parent) = f[n]
  BY DEF DeclarationsToParent, n
<1> HIDE DEF f
<1>6. f[0] = [scope |-> parent, reports |-> {}]
  <2>1. 0 \in 0 .. n
    BY <1>0
  <2> QED
    BY <1>4, <2>1
<1>7. ASSUME NEW i \in 1 .. n PROVE f[i] = HandDeclaration(child, f[i - 1], child.declared[i])
  <2>1. i \in 0 .. n /\ i # 0
    BY <1>0
  <2> QED
    BY <1>4, <2>1
<1> QED
  BY <1>5, <1>6, <1>7 DEF HandingOf, n

\* What is handed after i variables.
HandedSo(child, parent, R, acc, i) ==
    /\ acc.scope \in Scopes
    /\ acc.scope.in = parent.in /\ acc.scope.kind = parent.kind
    /\ HandedTo(parent.declared, child.declared, acc.scope.declared, i)
    /\ AllCompared(R \cup acc.reports, acc.scope.declared)

LEMMA HandOne ==
    ASSUME NEW child \in Scopes, NEW parent \in Scopes, NEW R, NEW acc,
           NEW i \in 1 .. Len(child.declared), HandedSo(child, parent, R, acc, i - 1)
    PROVE  HandedSo(child, parent, R, HandDeclaration(child, acc, child.declared[i]), i)
<1> DEFINE d == child.declared[i]
           e == [d EXCEPT !.descendant = TRUE]
           H == HandDeclaration(child, acc, d)
           cs == child.declared
           xs == parent.declared
           zs == acc.scope.declared
           ys == H.scope.declared
<1>0. /\ acc.scope \in Scopes
      /\ acc.scope.in = parent.in /\ acc.scope.kind = parent.kind
      /\ HandedTo(xs, cs, zs, i - 1)
      /\ AllCompared(R \cup acc.reports, zs)
  BY DEF HandedSo
<1>1. d \in Variables /\ Len(cs) \in Nat /\ Len(zs) \in Nat /\ Len(xs) \in Nat /\ zs \in Seq(Variables)
  BY <1>0 DEF Scopes
<1>2. i \in Nat /\ \A h \in 1 .. i : h # i => h \in 1 .. i - 1
  OBVIOUS
<1>3. CASE d.kind \notin Hoisted
  <2>1. H.scope = acc.scope /\ acc.reports \subseteq H.reports
    BY <1>3 DEF HandDeclaration
  <2>2. ys = zs
    BY <2>1
  <2>3. cs[i].kind \notin Hoisted
    BY <1>3
  <2> HIDE DEF H, ys, cs, xs, zs
  <2>4. HandedTo(xs, cs, zs, i)
    <3>1. \A h \in 1 .. i - 1 : h \in 1 .. i
      BY <1>2
    <3> QED
      BY <1>0, <1>2, <2>3, <3>1 DEF HandedTo
  <2>5. AllCompared(R \cup H.reports, zs)
    BY <1>0, <2>1 DEF AllCompared, Compared
  <2>6. HandedTo(xs, cs, ys, i) /\ AllCompared(R \cup H.reports, ys)
    BY <2>2, <2>4, <2>5
  <2> QED
    BY <1>0, <2>1, <2>6 DEF HandedSo, H, ys, cs, xs
<1>4. CASE d.kind \in Hoisted
  <2>1. H.scope = DeclareVariable(acc.scope, e).scope
        /\ acc.reports \cup DeclareVariable(acc.scope, e).reports \subseteq H.reports
    BY <1>4 DEF HandDeclaration
  <2>2. e \in Variables /\ e.at = d.at /\ e.name = d.name /\ e.kind = d.kind /\ e.flags = d.flags /\ e.descendant = TRUE
    BY <1>1 DEF Variables
  <2>3. d = cs[i]
    OBVIOUS
  <2> HIDE DEF e, d
  <2>4. PICK used \in BOOLEAN :
            /\ DeclareVariable(acc.scope, e).scope \in Scopes
            /\ DeclareVariable(acc.scope, e).scope.kind = acc.scope.kind
            /\ DeclareVariable(acc.scope, e).scope.in = acc.scope.in
            /\ DeclareVariable(acc.scope, e).scope.declared = Append(zs, [e EXCEPT !.used = used])
            /\ [e EXCEPT !.used = used] \in Variables
    BY <1>0, <2>2, DeclareAppends
  <2> DEFINE v == [e EXCEPT !.used = used]
  <2>5. v.at = d.at /\ v.name = d.name /\ v.kind = d.kind /\ v.flags = d.flags /\ v.descendant = TRUE
    BY <2>2 DEF Variables
  <2>6. AllCompared(R \cup H.reports, DeclareVariable(acc.scope, e).scope.declared)
    <3>1. (R \cup acc.reports) \cup DeclareVariable(acc.scope, e).reports \subseteq R \cup H.reports
      BY <2>1
    <3>2. AllCompared(R \cup acc.reports, acc.scope.declared)
      BY <1>0
    <3> HIDE DEF H
    <3> QED
      BY <1>0, <2>2, <3>1, <3>2, DeclareCompares
  <2>7. ys = Append(zs, v) /\ v \in Variables
    BY <2>1, <2>4
  <2>8. H.scope \in Scopes /\ H.scope.in = parent.in /\ H.scope.kind = parent.kind
    BY <1>0, <2>1, <2>4
  <2>9. AllCompared(R \cup H.reports, ys)
    BY <2>1, <2>6
  <2> HIDE DEF v, H, ys, zs, xs, cs
  <2>10. Len(ys) = Len(zs) + 1 /\ ys[Len(zs) + 1] = v /\ \A m \in 1 .. Len(zs) : ys[m] = zs[m]
    BY <1>1, <2>7
  <2>11. HandedAs(cs[i], v)
    BY <2>3, <2>5 DEF HandedAs
  <2>12. Len(zs) >= Len(xs) /\ \A m \in 1 .. Len(xs) : zs[m] = xs[m]
    BY <1>0 DEF HandedTo
  <2>13. Len(ys) >= Len(xs) /\ \A m \in 1 .. Len(xs) : ys[m] = xs[m]
    <3>1. \A m \in 1 .. Len(xs) : m \in 1 .. Len(zs)
      BY <1>1, <2>12
    <3> QED
      BY <1>1, <2>10, <2>12, <3>1
  <2>14. ASSUME NEW m \in Len(xs) + 1 .. Len(ys)
         PROVE  \E h \in 1 .. i : cs[h].kind \in Hoisted /\ HandedAs(cs[h], ys[m])
    <3>1. CASE m = Len(zs) + 1
      <4>1. i \in 1 .. i /\ cs[i].kind \in Hoisted
        BY <1>4, <2>3
      <4>2. HandedAs(cs[i], ys[m])
        BY <2>10, <2>11, <3>1
      <4> QED
        BY <4>1, <4>2
    <3>2. CASE m # Len(zs) + 1
      <4>1. m \in Len(xs) + 1 .. Len(zs) /\ m \in 1 .. Len(zs)
        BY <1>1, <2>10, <3>2
      <4>2. PICK h \in 1 .. i - 1 : cs[h].kind \in Hoisted /\ HandedAs(cs[h], zs[m])
        BY <1>0, <4>1 DEF HandedTo
      <4>3. h \in 1 .. i
        OBVIOUS
      <4> QED
        BY <2>10, <4>1, <4>2, <4>3
    <3> QED
      BY <3>1, <3>2
  <2>15. ASSUME NEW h \in 1 .. i, cs[h].kind \in Hoisted
         PROVE  \E m \in 1 .. Len(ys) : HandedAs(cs[h], ys[m])
    <3>1. CASE h = i
      <4>1. Len(zs) + 1 \in 1 .. Len(ys)
        BY <1>1, <2>10
      <4> QED
        BY <2>10, <2>11, <3>1, <4>1
    <3>2. CASE h # i
      <4>1. h \in 1 .. i - 1
        BY <3>2
      <4>2. PICK m \in 1 .. Len(zs) : HandedAs(cs[h], zs[m])
        BY <1>0, <2>15, <4>1 DEF HandedTo
      <4>3. m \in 1 .. Len(ys)
        BY <1>1, <2>10
      <4> QED
        BY <2>10, <4>2, <4>3
    <3> QED
      BY <3>1, <3>2
  <2>16. HandedTo(xs, cs, ys, i)
    BY <2>13, <2>14, <2>15 DEF HandedTo
  <2> QED
    BY <2>8, <2>9, <2>16 DEF HandedSo, H, ys, xs, cs, d
<1> QED
  BY <1>3, <1>4

LEMMA HandingIs ==
    ASSUME NEW child \in Scopes, NEW parent \in Scopes, NEW R, AllCompared(R, parent.declared)
    PROVE  HandedSo(child, parent, R, DeclarationsToParent(child, parent), Len(child.declared))
<1> DEFINE n == Len(child.declared)
<1>0. n \in Nat
  BY DEF Scopes
<1>1. PICK f : HandingOf(child, parent, f)
  BY <1>0, HandingExists
<1>2. /\ DeclarationsToParent(child, parent) = f[n]
      /\ f[0] = [scope |-> parent, reports |-> {}]
      /\ \A i \in 1 .. n : f[i] = HandDeclaration(child, f[i - 1], child.declared[i])
  BY <1>1 DEF HandingOf
<1>3. HandedSo(child, parent, R, f[0], 0)
  <2>1. Len(parent.declared) \in Nat
    BY DEF Scopes
  <2>2. f[0].scope = parent /\ f[0].reports = {}
    BY <1>2
  <2>3. HandedTo(parent.declared, child.declared, parent.declared, 0)
    BY <2>1 DEF HandedTo
  <2>4. AllCompared(R \cup f[0].reports, parent.declared)
    BY <2>2
  <2> QED
    BY <2>2, <2>3, <2>4 DEF HandedSo
<1> DEFINE Q == {i \in Nat : HandedSo(child, parent, R, f[i], i)}
<1>4. ASSUME NEW i \in 1 .. n, \A j \in 1 .. i - 1 : j \in Q PROVE i \in Q
  <2>1. i - 1 = 0 \/ i - 1 \in 1 .. i - 1
    OBVIOUS
  <2>2. HandedSo(child, parent, R, f[i - 1], i - 1)
    BY <1>3, <1>4, <2>1
  <2>3. HandedSo(child, parent, R, HandDeclaration(child, f[i - 1], child.declared[i]), i)
    BY <2>2, HandOne
  <2> QED
    BY <1>2, <2>3
<1>5. \A i \in 1 .. n : i \in Q
  <2> HIDE DEF Q, n
  <2> QED
    BY <1>0, <1>4, OfAllBefore
<1>6. n = 0 \/ n \in 1 .. n
  BY <1>0
<1>7. HandedSo(child, parent, R, f[n], n)
  BY <1>3, <1>5, <1>6
<1> QED
  BY <1>2, <1>7

\* What a scope binds of what is inside the scope within it: what that one
\* binds and hands out.
LEMMA BoundOutside ==
    ASSUME NEW P, NEW N, NEW S, WellNested(P), IsNesting(P, N), Chained(P, N, S),
           NEW n \in 2 .. Len(S), NEW e \in DOMAIN P, S[n].in \in Scoped(N, e)
    PROVE  /\ P[e].in # S[n - 1].in
           /\ Bound(P, N, S[n - 1].in, e) <=>
                /\ P[e].kind \in Hoisted /\ S[n].kind \in Leaky
                /\ Bound(P, N, S[n].in, e)
<1> DEFINE c == S[n].in
           p == S[n - 1].in
<1>0. Len(S) \in Nat /\ n - 1 \in 1 .. Len(S) /\ n \in 1 .. Len(S) /\ n - 1 \in 1 .. n - 1
  BY DEF Chained
<1>1. /\ c \in DOMAIN P /\ P[c].in = p /\ P[c].kind = S[n].kind
      /\ Scoped(N, c) = {S[k].in : k \in 1 .. n - 1}
  BY DEF Chained
<1>2. c \in Nat /\ p \in Nat /\ p < c /\ KindIn(P, c) = S[n].kind
  BY <1>0, OpenScopes
<1>3. /\ P[e].in \in Scoped(N, e)
      /\ \A s \in Scoped(N, e) : s \in Nat /\ s <= P[e].in
      /\ \A t : t \in Scoped(N, c) <=> t \in Scoped(N, e) /\ t < c
  <2>1. c # 0
    BY <1>2
  <2> QED
    BY <2>1, ScopesAreNested
<1>4. \A t \in Scoped(N, c) : t <= p
  BY <1>1, ScopesAreNested, SMTT(30)
<1>5. p \in Scoped(N, c)
  BY <1>1, ScopesAreNested
<1> HIDE DEF c, p
<1>6. c \in Scoped(N, e)
  BY DEF c
<1>7. P[e].in \in Nat /\ c <= P[e].in /\ p # P[e].in /\ p \in Scoped(N, e)
  <2>1. P[e].in \in Nat /\ c <= P[e].in
    BY <1>3, <1>6
  <2>2. p # P[e].in
    BY <1>2, <2>1
  <2>3. p \in Scoped(N, e)
    BY <1>3, <1>5
  <2> QED
    BY <2>1, <2>2, <2>3
<1>8. \A t \in Scoped(N, e) : t > p <=> t = c \/ t > c
  <2>1. ASSUME NEW t \in Scoped(N, e), t < c PROVE t <= p
    BY <2>1, <1>3, <1>4
  <2> QED
    BY <2>1, <1>2, <1>3
<1>9. ASSUME Bound(P, N, p, e)
      PROVE  P[e].kind \in Hoisted /\ S[n].kind \in Leaky /\ Bound(P, N, c, e)
  <2>1. P[e].kind \in Hoisted /\ \A t \in Scoped(N, e) : t > p => KindIn(P, t) \in Leaky
    BY <1>7, <1>9 DEF Bound
  <2>2. KindIn(P, c) \in Leaky
    BY <2>1, <1>6, <1>8
  <2>3. \A t \in Scoped(N, e) : t > c => KindIn(P, t) \in Leaky
    BY <2>1, <1>8
  <2> QED
    BY <2>1, <2>2, <2>3, <1>2, <1>6 DEF Bound
<1>10. ASSUME P[e].kind \in Hoisted, S[n].kind \in Leaky, Bound(P, N, c, e)
       PROVE  Bound(P, N, p, e)
  <2>1. ASSUME NEW t \in Scoped(N, e), t > p PROVE KindIn(P, t) \in Leaky
    <3>1. CASE t = c
      BY <3>1, <1>2, <1>10
    <3>2. CASE t > c
      <4>1. CASE P[e].in = c
        BY <3>2, <4>1, <1>2, <1>3
      <4>2. CASE P[e].in # c
        BY <3>2, <4>2, <1>10 DEF Bound
      <4> QED
        BY <4>1, <4>2
    <3> QED
      BY <2>1, <3>1, <3>2, <1>8
  <2> QED
    BY <2>1, <1>7, <1>10 DEF Bound
<1> QED
  BY <1>7, <1>9, <1>10 DEF c, p

\* A scope ends.
LEMMA ExitKeeps ==
    ASSUME NEW P, NEW N, NEW S \in Seq(Scopes), NEW R, InvBut(P, N, S, R, {}), Len(S) > 1,
           NEW sc, sc.in = S[Len(S) - 1].in, sc.kind = S[Len(S) - 1].kind,
           NEW ys, sc.declared = ys, Len(ys) \in Nat,
           IF S[Len(S)].kind \in Leaky
           THEN HandedTo(S[Len(S) - 1].declared, S[Len(S)].declared, ys, Len(S[Len(S)].declared))
           ELSE ys = S[Len(S) - 1].declared,
           NEW R2, R \subseteq R2, AllCompared(R2, ys),
           NEW T, Len(T) = Len(S) - 1, T[Len(S) - 1] = sc, \A i \in 1 .. Len(S) - 2 : T[i] = S[i]
    PROVE  InvBut(P, N, T, R2, {})
<1> DEFINE n == Len(S)
           c == S[n]
           xs == S[n - 1].declared
           cs == c.declared
<1>0. /\ WellNested(P) /\ IsNesting(P, N) /\ Chained(P, N, S)
      /\ ToldInv(P, N, S) /\ KnownBut(P, N, S, {}) /\ ComparedInv(S, R) /\ EndedInv(P, N, S, R)
  BY DEF InvBut
<1>1. /\ n \in Nat /\ n > 1 /\ Len(T) = n - 1 /\ T[n - 1] = sc /\ \A i \in 1 .. n - 2 : T[i] = S[i]
      /\ n \in 1 .. n /\ n - 1 \in 1 .. n /\ n \in 2 .. n /\ n - 1 \in 1 .. n - 1
  OBVIOUS
<1>2. c \in Scopes /\ xs \in Seq(Variables) /\ cs \in Seq(Variables) /\ Len(xs) \in Nat /\ Len(cs) \in Nat
  <2>1. S[n] \in Scopes /\ S[n - 1] \in Scopes
    BY <1>1
  <2> QED
    BY <2>1, SMTT(30) DEF Scopes
<1>3. IF c.kind \in Leaky THEN HandedTo(xs, cs, ys, Len(cs)) ELSE ys = xs
  OBVIOUS
<1>4. sc.declared = ys /\ sc.in = S[n - 1].in /\ sc.kind = S[n - 1].kind
  OBVIOUS
<1>5. \A i \in 1 .. n - 1 : (i # n - 1 => i \in 1 .. n - 2 /\ T[i] = S[i]) /\ i \in 1 .. n
                            /\ T[i].in = S[i].in /\ T[i].kind = S[i].kind
  BY <1>1, <1>4
<1>6. /\ Len(ys) >= Len(xs) /\ \A m \in 1 .. Len(xs) : ys[m] = xs[m]
      /\ \A m \in Len(xs) + 1 .. Len(ys) :
            \E h \in 1 .. Len(cs) : c.kind \in Leaky /\ cs[h].kind \in Hoisted /\ HandedAs(cs[h], ys[m])
      /\ c.kind \in Leaky => \A h \in 1 .. Len(cs) :
            cs[h].kind \in Hoisted => \E m \in 1 .. Len(ys) : HandedAs(cs[h], ys[m])
  <2>1. CASE c.kind \in Leaky
    <3>1. HandedTo(xs, cs, ys, Len(cs))
      BY <1>3, <2>1
    <3> HIDE DEF c, xs, cs
    <3> QED
      BY <2>1, <3>1 DEF HandedTo
  <2>2. CASE c.kind \notin Leaky
    <3>1. ys = xs
      BY <1>3, <2>2
    <3> HIDE DEF c, xs, cs
    <3> QED
      BY <1>2, <2>2, <3>1
  <2> QED
    BY <2>1, <2>2
<1>7. ASSUME NEW e \in DOMAIN P, c.in \in Scoped(N, e)
      PROVE  /\ P[e].in # S[n - 1].in
             /\ Bound(P, N, S[n - 1].in, e) <=>
                   P[e].kind \in Hoisted /\ c.kind \in Leaky /\ Bound(P, N, c.in, e)
  BY <1>0, <1>1, <1>7, BoundOutside
<1> HIDE DEF n, c, xs, cs
<1>8. Chained(P, N, T)
  <2>1. T[1].in = 0 /\ T[1].kind = "module"
    <3>1. 1 \in 1 .. n - 1
      BY <1>1
    <3> QED
      BY <1>0, <1>5, <3>1 DEF Chained
  <2>2. ASSUME NEW i \in 2 .. Len(T)
        PROVE  /\ T[i].in \in DOMAIN P
               /\ P[T[i].in].in = T[i - 1].in /\ P[T[i].in].kind = T[i].kind
               /\ Scoped(N, T[i].in) = {T[k].in : k \in 1 .. i - 1}
    <3>1. i \in 1 .. n - 1 /\ i - 1 \in 1 .. n - 1 /\ (\A k \in 1 .. i - 1 : k \in 1 .. n - 1) /\ i \in 2 .. n
      BY <1>1
    <3>2. {T[k].in : k \in 1 .. i - 1} = {S[k].in : k \in 1 .. i - 1}
      BY <1>5, <3>1, ZenonT(40)
    <3>3. /\ S[i].in \in DOMAIN P
          /\ P[S[i].in].in = S[i - 1].in /\ P[S[i].in].kind = S[i].kind
          /\ Scoped(N, S[i].in) = {S[k].in : k \in 1 .. i - 1}
      BY <1>0, <3>1 DEF Chained, n
    <3>4. T[i].in = S[i].in /\ T[i].kind = S[i].kind /\ T[i - 1].in = S[i - 1].in
      BY <1>5, <3>1
    <3> QED
      BY <3>2, <3>3, <3>4
  <2>3. Len(T) \in Nat \ {0}
    BY <1>1
  <2> QED
    BY <2>1, <2>2, <2>3 DEF Chained
<1>9. ToldInv(P, N, T)
  <2>1. ASSUME NEW i \in 1 .. Len(T), NEW j \in 1 .. Len(T[i].declared)
        PROVE  Told(P, N, T[i].in, T[i].declared[j])
    <3>1. CASE i # n - 1
      BY <3>1, <1>0, <1>1, <1>5 DEF ToldInv, n
    <3>2. CASE i = n - 1
      <4>1. T[i].declared = ys /\ T[i].in = S[n - 1].in
        BY <1>1, <1>4, <3>2
      <4>2. CASE j \in 1 .. Len(xs)
        <5>1. Told(P, N, S[n - 1].in, xs[j])
          BY <1>0, <1>1, <4>2 DEF ToldInv, xs, n
        <5> QED
          BY <5>1, <4>1, <4>2, <1>6
      <4>3. CASE j \notin 1 .. Len(xs)
        <5>1. j \in Len(xs) + 1 .. Len(ys)
          BY <1>2, <4>1, <4>3
        <5>2. PICK h \in 1 .. Len(cs) : c.kind \in Leaky /\ cs[h].kind \in Hoisted /\ HandedAs(cs[h], ys[j])
          BY <1>6, <5>1
        <5> DEFINE x == cs[h]
                   y == ys[j]
        <5>3. Told(P, N, c.in, x)
          BY <1>0, <1>1 DEF ToldInv, cs, c, n
        <5>4. HandedAs(x, y) /\ x.kind \in Hoisted
          BY <5>2
        <5> HIDE DEF x, y
        <5>5. x.at \in DOMAIN P /\ c.in \in Scoped(N, x.at)
          BY <5>3 DEF Told, Bound, Decls
        <5>6. P[x.at].in # S[n - 1].in /\ Bound(P, N, S[n - 1].in, x.at)
          BY <1>7, <5>2, <5>3, <5>4, <5>5 DEF Told
        <5>7. Told(P, N, S[n - 1].in, y)
          BY <5>3, <5>4, <5>6 DEF Told, HandedAs
        <5> QED
          BY <5>7, <4>1 DEF y
      <4> QED
        BY <4>2, <4>3
    <3> QED
      BY <3>1, <3>2
  <2> QED
    BY <2>1 DEF ToldInv
<1>10. KnownBut(P, N, T, {})
  <2>1. ASSUME NEW i \in 1 .. Len(T), NEW e \in Decls(P) \ {},
               Bound(P, N, T[i].in, e), i < Len(T) => T[i + 1].in \notin Scoped(N, e)
        PROVE  \E j \in 1 .. Len(T[i].declared) : T[i].declared[j].at = e
    <3>0. i \in 1 .. n /\ i \in 1 .. n - 1 /\ T[i].in = S[i].in
      BY <1>1, <1>5
    <3>1. CASE i # n - 1
      <4>1. i + 1 \in 1 .. n - 1 /\ i < Len(T) /\ T[i] = S[i]
        BY <1>1, <1>5, <3>0, <3>1
      <4>2. S[i + 1].in \notin Scoped(N, e)
        BY <1>5, <2>1, <4>1
      <4> QED
        BY <1>0, <2>1, <3>0, <4>1, <4>2, SMTT(30) DEF KnownBut, n
    <3>2. CASE i = n - 1
      <4>1. T[i].declared = ys /\ Bound(P, N, S[n - 1].in, e)
        BY <1>1, <1>4, <2>1, <3>0, <3>2
      <4>2. CASE c.in \notin Scoped(N, e)
        <5>1. i + 1 = n
          BY <1>1, <3>2
        <5>2. S[i + 1].in \notin Scoped(N, e)
          BY <4>2, <5>1 DEF c
        <5>3. PICK j \in 1 .. Len(xs) : xs[j].at = e
          BY <1>0, <2>1, <3>0, <3>2, <5>2 DEF KnownBut, n, xs
        <5>4. j \in 1 .. Len(ys) /\ ys[j].at = e
          BY <1>2, <1>6, <5>3
        <5> QED
          BY <4>1, <5>4
      <4>3. CASE c.in \in Scoped(N, e)
        <5>1. e \in DOMAIN P
          BY DEF Decls
        <5>2. P[e].kind \in Hoisted /\ c.kind \in Leaky /\ Bound(P, N, c.in, e)
          BY <1>7, <4>1, <4>3, <5>1
        <5>3. PICK h \in 1 .. Len(cs) : cs[h].at = e
          <6>1. ~(n < Len(S))
            BY <1>1 DEF n
          <6> QED
            BY <1>0, <1>1, <5>2, <6>1 DEF KnownBut, n, cs, c
        <5>4. Told(P, N, c.in, cs[h])
          BY <1>0, <1>1 DEF ToldInv, cs, c, n
        <5>5. cs[h].kind \in Hoisted
          BY <5>2, <5>3, <5>4 DEF Told
        <5>6. PICK m \in 1 .. Len(ys) : HandedAs(cs[h], ys[m])
          BY <1>6, <5>2, <5>5
        <5> QED
          BY <4>1, <5>3, <5>6 DEF HandedAs
      <4> QED
        BY <4>2, <4>3
    <3> QED
      BY <3>1, <3>2
  <2> QED
    BY <2>1 DEF KnownBut
<1>11. ComparedInv(T, R2)
  <2>1. ASSUME NEW i \in 1 .. Len(T) PROVE AllCompared(R2, T[i].declared)
    <3>1. CASE i = n - 1
      BY <3>1, <1>1, <1>4
    <3>2. CASE i # n - 1
      <4>1. AllCompared(R, T[i].declared)
        BY <3>2, <1>0, <1>1, <1>5 DEF ComparedInv, n
      <4> QED
        BY <4>1 DEF AllCompared, Compared
    <3> QED
      BY <3>1, <3>2
  <2> QED
    BY <2>1 DEF ComparedInv
<1>12. EndedInv(P, N, T, R2)
  <2>1. \A s : OnceIn(P, N, R, s) => OnceIn(P, N, R2, s)
    BY DEF OnceIn
  <2>2. ASSUME NEW s, s \notin Open(T), s \in Open(S) PROVE s = c.in
    <3>1. PICK i \in 1 .. n : s = S[i].in
      BY <2>2 DEF Open, n
    <3>2. CASE i = n
      BY <3>1, <3>2 DEF c
    <3>3. CASE i # n
      <4>1. i \in 1 .. n - 1
        BY <1>1, <3>3
      <4>2. T[i].in \in Open(T)
        BY <1>1, <4>1 DEF Open
      <4> QED
        BY <2>2, <3>1, <4>1, <4>2, <1>5
    <3> QED
      BY <3>2, <3>3
  <2>3. OnceIn(P, N, R, c.in)
    <3>1. \A j \in 1 .. Len(cs) : Told(P, N, c.in, cs[j])
      BY <1>0, <1>1 DEF ToldInv, cs, c, n
    <3>2. ASSUME NEW e \in Decls(P), Bound(P, N, c.in, e)
          PROVE  \E j \in 1 .. Len(cs) : cs[j].at = e
      <4>1. ~(n < Len(S))
        BY <1>1 DEF n
      <4> QED
        BY <1>0, <1>1, <3>2, <4>1 DEF KnownBut, n, cs, c
    <3>3. AllCompared(R, cs)
      BY <1>0, <1>1 DEF ComparedInv, cs, c, n
    <3> QED
      BY <1>0, <1>2, <3>1, <3>2, <3>3, ScopeIsOnce
  <2> QED
    BY <1>0, <2>1, <2>2, <2>3 DEF EndedInv
<1> QED
  BY <1>0, <1>8, <1>9, <1>10, <1>11, <1>12 DEF InvBut
-----------------------------------------------------------------------------
(* The analyzer. *)

IInv ==
    /\ Types
    /\ InvBut(program, Nesting, scopes, reports, {})
    /\ status = "done" => Len(scopes) = 1

\* What the visits bring is in the sets above.
LEMMA CorpusIs ==
    ASSUME corpus \in Corpora
    PROVE  /\ "" \in Names /\ corpus.functions \subseteq Names /\ corpus.classes \subseteq Names
           /\ \A d \in corpus.declarations : d.name \in Names /\ d.flags \in FlagSets
           /\ \A u \in corpus.uses : u.name \in Names /\ u.use \in UseKinds \cup {"predicate"}
           /\ corpus.scopes \subseteq ScopeKinds /\ {} \in FlagSets
           /\ corpus.visits \in Nat /\ corpus.depth \in Nat \ {0}
<1> DEFINE G(c) == c.functions \cup c.classes \cup {d.name : d \in c.declarations}
                       \cup {u.name : u \in c.uses}
<1>1. /\ corpus.functions \subseteq G(corpus) /\ corpus.classes \subseteq G(corpus)
      /\ \A d \in corpus.declarations : d.name \in G(corpus)
      /\ \A u \in corpus.uses : u.name \in G(corpus)
  OBVIOUS
<1>2. Names = {""} \cup UNION {G(c) : c \in Corpora}
  BY DEF Names
<1> HIDE DEF G
<1>3. G(corpus) \subseteq Names /\ "" \in Names
  BY <1>2
<1>4. {d.flags : d \in corpus.declarations} \subseteq FlagSets /\ {} \in FlagSets
  BY DEF FlagSets
<1>5. corpus.scopes \subseteq ScopeKinds
  BY DEF ScopeKinds
<1> QED
  BY <1>1, <1>3, <1>4, <1>5, CorporaAssumption DEF UseKinds

LEMMA FrontIs ==
    ASSUME NEW Z, NEW S \in Seq(Z), Len(S) \in Nat \ {0}
    PROVE  /\ Front(S) \in Seq(Z) /\ Len(Front(S)) = Len(S) - 1
           /\ \A i \in 1 .. Len(S) - 1 : Front(S)[i] = S[i]
<1> DEFINE m == Len(S) - 1
<1>1. m \in Nat /\ Len(S) = m + 1
  OBVIOUS
<1> HIDE DEF m
<1>2. Front(S) = SubSeq(S, 1, m)
  BY <1>1 DEF Front, m
<1>3. /\ SubSeq(S, 1, m) \in Seq(Z) /\ Len(SubSeq(S, 1, m)) = m
      /\ \A i \in 1 .. m : SubSeq(S, 1, m)[i] = S[i]
  BY <1>1
<1> QED
  BY <1>2, <1>3 DEF m

\* The scopes change at the top.
LEMMA BecomeIs ==
    ASSUME NEW S \in Seq(Scopes), Len(S) \in Nat \ {0}, NEW sc \in Scopes
    PROVE  /\ Append(Front(S), sc) \in Seq(Scopes)
           /\ Len(Append(Front(S), sc)) = Len(S)
           /\ Append(Front(S), sc)[Len(S)] = sc
           /\ \A i \in 1 .. Len(S) - 1 : Append(Front(S), sc)[i] = S[i]
<1> DEFINE n == Len(S)
           f == Front(S)
<1>1. f \in Seq(Scopes) /\ Len(f) = n - 1 /\ \A i \in 1 .. n - 1 : f[i] = S[i]
  BY FrontIs
<1> HIDE DEF f
<1> QED
  BY <1>1 DEF f

LEMMA TopIs ==
    ASSUME scopes \in Seq(Scopes), Len(scopes) \in Nat \ {0}
    PROVE  /\ Top = scopes[Len(scopes)] /\ Top \in Scopes
           /\ Len(scopes) > 1 => Under = scopes[Len(scopes) - 1] /\ Under \in Scopes
BY DEF Top, Under, Last

LEMMA DeclaredIs ==
    ASSUME NEW S \in Seq(Scopes)
    PROVE  \A i \in 1 .. Len(S) : S[i].declared \in Seq(Variables) /\ Len(S[i].declared) \in Nat
<1> SUFFICES ASSUME NEW i \in 1 .. Len(S)
             PROVE  S[i].declared \in Seq(Variables) /\ Len(S[i].declared) \in Nat
  OBVIOUS
<1>1. S[i] \in Scopes
  OBVIOUS
<1>2. S[i].declared \in Seq(Variables)
  BY <1>1 DEF Scopes
<1> QED
  BY <1>2

\* The uses of a scope go to the one around it: nothing is declared.
LEMMA UsesGoUp ==
    ASSUME NEW child \in Scopes, NEW parent \in Scopes, NEW look, NEW beforeOk, NEW consumeArguments
    PROVE  LET U == PropagateUses(child, parent, look, beforeOk, consumeArguments).scope
           IN  /\ U \in Scopes
               /\ U.kind = parent.kind /\ U.in = parent.in /\ U.body = parent.body
               /\ U.functionName = parent.functionName
               /\ \E ats : U.declared = MarkUsed(parent.declared, ats)
<1> DEFINE dropped == corpus.evalCanDeclareVariables /\ child.evalHere
           direct  == IF dropped THEN {} ELSE child.uses
           below   == IF dropped THEN {} ELSE child.usesBelow
           found   == {u \in direct \cup below : Found(look[u])}
           marked  == {look[u].at : u \in found \cap direct}
           ours(u) == child.functionName = u.name
           passed  == {u \in direct \ found :
                          ~(consumeArguments /\ u.name = "arguments") /\ ~ours(u)}
           lower   == {u \in below \ found : ~ours(u)}
           U       == PropagateUses(child, parent, look, beforeOk, consumeArguments).scope
<1>1. U = [parent EXCEPT
             !.declared = MarkUsed(@, marked),
             !.uses = IF beforeOk THEN @ ELSE @ \cup passed,
             !.usesBelow = @ \cup lower \cup (IF beforeOk THEN passed ELSE {}),
             !.evalHere = @ \/ (~beforeOk /\ child.evalHere),
             !.evalBelow = @ \/ child.evalHere \/ child.evalBelow]
  BY DEF PropagateUses
<1>2. passed \subseteq WaitingUses /\ lower \subseteq WaitingUses
  BY DEF Scopes
<1> HIDE DEF passed, lower, marked, U
<1>3. MarkUsed(parent.declared, marked) \in Seq(Variables)
  BY MarkUsedIs DEF Scopes
<1>4. /\ U \in Scopes
      /\ U.kind = parent.kind /\ U.in = parent.in /\ U.body = parent.body
      /\ U.functionName = parent.functionName
      /\ U.declared = MarkUsed(parent.declared, marked)
  BY <1>1, <1>2, <1>3, ZenonT(40) DEF Scopes
<1> QED
  BY <1>4 DEF U

LEMMA SameAgain ==
    ASSUME NEW xs
    PROVE  SameVariables(xs, xs)
BY DEF SameVariables

\* The top scope is changed, but for what it declares.
LEMMA TopChanges ==
    ASSUME NEW S \in Seq(Scopes), Len(S) \in Nat \ {0}, NEW sc \in Scopes,
           sc.in = S[Len(S)].in, sc.kind = S[Len(S)].kind,
           SameVariables(S[Len(S)].declared, sc.declared)
    PROVE  SameScopes(S, Append(Front(S), sc))
<1> DEFINE T == Append(Front(S), sc)
<1>1. Len(T) = Len(S) /\ T[Len(S)] = sc /\ \A i \in 1 .. Len(S) - 1 : T[i] = S[i]
  BY BecomeIs
<1> HIDE DEF T
<1>2. ASSUME NEW i \in 1 .. Len(S)
      PROVE  T[i].in = S[i].in /\ T[i].kind = S[i].kind /\ SameVariables(S[i].declared, T[i].declared)
  <2>1. i = Len(S) \/ i \in 1 .. Len(S) - 1
    OBVIOUS
  <2> QED
    BY <1>1, <2>1, SameAgain
<1> QED
  BY <1>1, <1>2 DEF SameScopes, T

\* Every visit: the program is longer, the scopes are as they were.
LEMMA VisitIs ==
    ASSUME IInv, NEW visit \in {"enter", "body", "declare", "use"}, NEW name \in Names,
           NEW kind \in VisitKinds,
           NEW flags \in FlagSets, Visit(visit, name, kind, flags)
    PROVE  /\ program' \in Seq(Visits) /\ Len(program') = Len(program) + 1
           /\ Len(program') <= corpus.visits /\ Len(program') \in DOMAIN program'
           /\ Here = Len(program') /\ corpus' = corpus
           /\ program'[Len(program')] = [visit |-> visit, name |-> name, kind |-> kind,
                                         flags |-> flags, in |-> scopes[Len(scopes)].in]
           /\ Scoped(Nesting', Len(program')) = Open(scopes)
           /\ InvBut(program', Nesting', scopes, reports, {Len(program')})
<1> DEFINE v == [visit |-> visit, name |-> name, kind |-> kind,
                 flags |-> flags, in |-> scopes[Len(scopes)].in]
           x == Len(program) + 1
<1>0. /\ corpus \in Corpora /\ scopes \in Seq(Scopes) /\ Len(scopes) \in Nat \ {0}
      /\ Len(scopes) \in 1 .. Len(scopes)
      /\ program \in Seq(Visits) /\ Len(program) \in Nat /\ corpus.visits \in Nat
      /\ InvBut(program, Nesting, scopes, reports, {})
  <2>1. /\ corpus \in Corpora /\ scopes \in Seq(Scopes) /\ Len(scopes) \in 1 .. corpus.depth
        /\ program \in Seq(Visits)
        /\ InvBut(program, Nesting, scopes, reports, {})
    BY DEF IInv, Types
  <2>2. corpus.depth \in Nat /\ corpus.visits \in Nat
    BY <2>1, CorpusIs
  <2> DEFINE depth == corpus.depth
             n     == Len(scopes)
  <2>3. depth \in Nat /\ n \in 1 .. depth
    BY <2>1, <2>2
  <2> HIDE DEF depth, n
  <2>4. n \in Nat \ {0} /\ n \in 1 .. n
    BY <2>3
  <2>5. Len(program) \in Nat
    BY <2>1
  <2> QED
    BY <2>1, <2>2, <2>4, <2>5 DEF n
<1>1. WellNested(program) /\ IsNesting(program, Nesting) /\ Chained(program, Nesting, scopes)
  BY <1>0 DEF InvBut
<1>2. Top = scopes[Len(scopes)]
  BY <1>0, TopIs
<1>3. program' = Append(program, v) /\ corpus' = corpus /\ Len(program) < corpus.visits
  BY <1>2 DEF Visit
<1>4. scopes[Len(scopes)].in \in 0 .. Len(program)
  BY <1>0, <1>1, OpenScopes
<1>5. v \in Visits /\ v.in = scopes[Len(scopes)].in
  <2> DEFINE m == Len(program)
             k == scopes[Len(scopes)].in
  <2>0. m \in Nat /\ k \in 0 .. m
    BY <1>0, <1>4
  <2> HIDE DEF m, k
  <2>1. k \in Nat
    BY <2>0
  <2> QED
    BY <2>1 DEF Visits, k
<1> HIDE DEF v
<1>6. WellNested(program')
  BY <1>0, <1>1, <1>3, <1>4, <1>5, StaysWellNested
<1>7. IsNesting(program', Nesting')
  <2>1. Nesting' = CHOOSE f : f = [p \in DOMAIN program' |-> {[scope |-> program'[p].in, place |-> p]}
                                 \cup (IF program'[p].in = 0 THEN {} ELSE f[program'[p].in])]
    BY DEF Nesting, Positions
  <2> QED
    BY <1>6, <2>1, NestingIs
<1>8. IsNesting(Append(program, v), Nesting')
  BY <1>3, <1>7
<1>9. /\ DOMAIN program' = 1 .. x /\ program'[x] = v
      /\ Scoped(Nesting', x) = Open(scopes)
  <2>1. /\ DOMAIN Append(program, v) = 1 .. Len(program) + 1
        /\ Append(program, v)[Len(program) + 1] = v
        /\ Scoped(Nesting', Len(program) + 1) = Open(scopes)
    <3> HIDE DEF x
    <3> QED
      BY <1>0, <1>1, <1>5, <1>8, VisitAddsOne
  <2> QED
    BY <1>3, <2>1
<1>10. InvBut(program', Nesting', scopes, reports, {x})
  <2>1. InvBut(Append(program, v), Nesting', scopes, reports, {Len(program) + 1})
    BY <1>0, <1>5, <1>8, VisitKeeps
  <2> QED
    BY <1>3, <2>1
<1>11. program' \in Seq(Visits) /\ Len(program') = x /\ x \in 1 .. x
  <2>1. /\ Append(program, v) \in Seq(Visits) /\ Len(Append(program, v)) = Len(program) + 1
        /\ Len(program) + 1 \in 1 .. Len(program) + 1
    BY <1>0, <1>5
  <2> QED
    BY <1>3, <2>1
<1>12. x <= corpus.visits
  <2> DEFINE m == Len(program)
             k == corpus.visits
  <2>1. m \in Nat /\ k \in Nat /\ m < k
    BY <1>0, <1>3
  <2> HIDE DEF m, k
  <2>2. m + 1 <= k
    BY <2>1
  <2> QED
    BY <2>2 DEF m, k
<1> HIDE DEF x
<1>13. Here = x
  BY DEF Here, x
<1> QED
  BY <1>3, <1>9, <1>10, <1>11, <1>12, <1>13 DEF v, x

\* Every visit that declares nothing and opens nothing.
LEMMA QuietVisit ==
    ASSUME IInv, NEW visit \in {"body", "use"}, NEW name \in Names, visit = "body" => name = "",
           NEW kind \in VisitKinds,
           NEW flags \in FlagSets, Visit(visit, name, kind, flags),
           scopes' \in Seq(Scopes), SameScopes(scopes, scopes'),
           NEW new, Say(new)
    PROVE  IInv'
<1>0. /\ scopes \in Seq(Scopes) /\ Len(scopes) \in 1 .. corpus.depth /\ corpus \in Corpora
      /\ status = "analyzing"
  BY DEF IInv, Types, Visit
<1>1. /\ program' \in Seq(Visits) /\ Len(program') <= corpus.visits /\ Len(program') \in DOMAIN program'
      /\ corpus' = corpus
      /\ program'[Len(program')] = [visit |-> visit, name |-> name, kind |-> kind,
                                    flags |-> flags, in |-> scopes[Len(scopes)].in]
      /\ InvBut(program', Nesting', scopes, reports, {Len(program')})
  BY VisitIs
<1>2. Len(program') \notin Decls(program')
  <2> DEFINE v == [visit |-> visit, name |-> name, kind |-> kind,
                   flags |-> flags, in |-> scopes[Len(scopes)].in]
  <2>1. v.visit = visit /\ v.name = name /\ program'[Len(program')] = v
    BY <1>1
  <2> HIDE DEF v
  <2> QED
    BY <2>1 DEF Decls
<1>3. InvBut(program', Nesting', scopes, reports, {})
  BY <1>1, <1>2, NothingLeft
<1>4. \A i \in 1 .. Len(scopes) : Len(scopes[i].declared) \in Nat
  BY <1>0, DeclaredIs
<1>5. reports \subseteq reports' /\ status' \in {"analyzing", "crashed"}
  BY <1>0 DEF Say
<1>6. InvBut(program', Nesting', scopes', reports', {})
  BY <1>3, <1>4, <1>5, MarksKeep
<1>7. Len(scopes') = Len(scopes)
  BY DEF SameScopes
<1> QED
  BY <1>0, <1>1, <1>5, <1>6, <1>7 DEF IInv, Types

\* Every visit that opens a scope.
LEMMA OpeningVisit ==
    ASSUME IInv, NEW kind \in ScopeKinds, NEW name \in Names, NEW functionName \in Names,
           Visit("enter", name, kind, {}), Len(scopes) < corpus.depth,
           scopes' = Append(scopes, NewScope(kind, Here, functionName)),
           UNCHANGED <<reports, status>>
    PROVE  IInv'
<1> DEFINE sc == NewScope(kind, Here, functionName)
<1>0. /\ scopes \in Seq(Scopes) /\ Len(scopes) \in 1 .. corpus.depth /\ corpus \in Corpora
      /\ status = "analyzing"
  BY DEF IInv, Types, Visit
<1>1. /\ program' \in Seq(Visits) /\ Len(program') <= corpus.visits /\ Len(program') \in DOMAIN program'
      /\ corpus' = corpus /\ Here = Len(program')
      /\ program'[Len(program')] = [visit |-> "enter", name |-> name, kind |-> kind,
                                    flags |-> {}, in |-> scopes[Len(scopes)].in]
      /\ Scoped(Nesting', Len(program')) = Open(scopes)
      /\ InvBut(program', Nesting', scopes, reports, {Len(program')})
  <2>1. kind \in VisitKinds /\ {} \in FlagSets
    BY <1>0, CorpusIs DEF VisitKinds
  <2> QED
    BY <2>1, VisitIs
<1>2. /\ program'[Len(program')].visit = "enter" /\ program'[Len(program')].kind = kind
      /\ program'[Len(program')].in = scopes[Len(scopes)].in
  BY <1>1
<1>3. InvBut(program', Nesting', scopes, reports, {})
  <2>1. Len(program') \notin Decls(program')
    BY <1>2 DEF Decls
  <2> QED
    BY <1>1, <2>1, NothingLeft
<1>4. /\ sc \in Scopes /\ sc.in = Len(program') /\ sc.kind = kind /\ sc.declared = << >>
  <2>1. Here \in Nat /\ << >> \in Seq(Variables)
    BY <1>1
  <2> QED
    BY <1>1, <2>1 DEF Scopes, NewScope
<1> HIDE DEF sc
<1>5. InvBut(program', Nesting', Append(scopes, sc), reports, {})
  BY <1>0, <1>1, <1>2, <1>3, <1>4, EnterKeeps
<1>6. Append(scopes, sc) \in Seq(Scopes) /\ Len(Append(scopes, sc)) \in 1 .. corpus.depth
  <2>1. Append(scopes, sc) \in Seq(Scopes) /\ Len(Append(scopes, sc)) = Len(scopes) + 1
    BY <1>0, <1>4
  <2>2. corpus.depth \in Nat
    BY <1>0, CorpusIs
  <2> QED
    BY <1>0, <2>1, <2>2
<1>7. scopes' = Append(scopes, sc)
  BY DEF sc
<1>8. reports' = reports /\ status' = "analyzing"
  BY <1>0
<1> QED
  BY <1>0, <1>1, <1>5, <1>6, <1>7, <1>8 DEF IInv, Types

LEMMA EnterScopeKeeps ==
    ASSUME IInv, NEW kind \in corpus.scopes, EnterScope(kind)
    PROVE  IInv'
<1>1. corpus \in Corpora
  BY DEF IInv, Types
<1>2. kind \in ScopeKinds /\ "" \in Names
  BY <1>1, CorpusIs
<1> QED
  BY <1>2, OpeningVisit DEF EnterScope

LEMMA EnterNamedFunctionScopeKeeps ==
    ASSUME IInv, NEW name \in corpus.functions, EnterNamedFunctionScope(name)
    PROVE  IInv'
<1>1. corpus \in Corpora
  BY DEF IInv, Types
<1>2. "named_function" \in ScopeKinds /\ name \in Names
  BY <1>1, CorpusIs DEF ScopeKinds
<1> QED
  BY <1>2, OpeningVisit DEF EnterNamedFunctionScope

\* Every visit that declares.
Declares(visit, name) == \/ visit = "declare"
                         \/ visit = "body" /\ name # ""

LEMMA DeclaringVisit ==
    ASSUME IInv, NEW visit \in {"body", "declare"}, NEW name \in Names, Declares(visit, name),
           NEW kind \in VariableKinds, NEW flags \in FlagSets, Visit(visit, name, kind, flags),
           NEW me \in Scopes, me.in = Top.in, me.kind = Top.kind, me.declared = Top.declared,
           NEW d, d = Declaration(name, kind, flags),
           NEW D, D = DeclareVariable(me, d).scope, scopes' = Append(Front(scopes), D),
           NEW new, new = DeclareVariable(me, d).reports, Say(new)
    PROVE  IInv'
<1>0. /\ scopes \in Seq(Scopes) /\ Len(scopes) \in 1 .. corpus.depth /\ corpus \in Corpora
      /\ status = "analyzing" /\ InvBut(program, Nesting, scopes, reports, {})
  BY DEF IInv, Types, Visit
<1>1. /\ program' \in Seq(Visits) /\ Len(program') <= corpus.visits /\ Len(program') \in DOMAIN program'
      /\ corpus' = corpus /\ Here = Len(program')
      /\ program'[Len(program')] = [visit |-> visit, name |-> name, kind |-> kind,
                                    flags |-> flags, in |-> scopes[Len(scopes)].in]
      /\ Scoped(Nesting', Len(program')) = Open(scopes)
      /\ InvBut(program', Nesting', scopes, reports, {Len(program')})
  <2>1. kind \in VisitKinds
    BY DEF VisitKinds
  <2> QED
    BY <2>1, VisitIs
<1>2. /\ program'[Len(program')].visit = visit /\ program'[Len(program')].name = name
      /\ program'[Len(program')].kind = kind /\ program'[Len(program')].flags = flags
      /\ program'[Len(program')].in = scopes[Len(scopes)].in
  BY <1>1
<1>3. Len(program') \in Decls(program')
  BY <1>1, <1>2 DEF Decls, Declares
<1>4. Len(scopes) \in Nat \ {0} /\ Len(scopes) \in 1 .. Len(scopes)
  <2>1. corpus.depth \in Nat
    BY <1>0, CorpusIs
  <2> QED
    BY <1>0, <2>1
<1>5. Top = scopes[Len(scopes)] /\ Top.declared \in Seq(Variables)
  BY <1>0, <1>4, TopIs, DeclaredIs
<1>6. d = [at |-> Here, name |-> name, kind |-> kind, flags |-> flags,
           descendant |-> FALSE, used |-> FALSE]
  BY DEF Declaration, NoVariable
<1>7. d \in Variables
  <2>1. Here \in Nat \ {0}
    BY <1>1
  <2> QED
    BY <1>6, <2>1 DEF Variables
<1>8. PICK used \in BOOLEAN :
         /\ D \in Scopes /\ D.kind = me.kind /\ D.in = me.in
         /\ D.declared = Append(me.declared, [d EXCEPT !.used = used])
         /\ [d EXCEPT !.used = used] \in Variables
  BY <1>7, DeclareAppends
<1> DEFINE v == [d EXCEPT !.used = used]
<1>9. /\ v \in Variables /\ v.at = Len(program') /\ v.name = program'[Len(program')].name
      /\ v.kind = program'[Len(program')].kind /\ v.flags = program'[Len(program')].flags
      /\ v.descendant = FALSE
  BY <1>1, <1>2, <1>6, <1>8
<1>10. D.declared = Append(scopes[Len(scopes)].declared, v)
  BY <1>5, <1>8
<1>11. reports' = reports \cup new /\ status' \in {"analyzing", "crashed"}
  BY <1>0 DEF Say
<1>12. AllCompared(reports', D.declared)
  <2>1. AllCompared(reports, me.declared)
    BY <1>0, <1>4, <1>5 DEF InvBut, ComparedInv
  <2> QED
    BY <1>7, <1>11, <2>1, DeclareCompares
<1> HIDE DEF v
<1>13. /\ scopes' \in Seq(Scopes) /\ Len(scopes') = Len(scopes) /\ OnTop(scopes, scopes', D)
  BY <1>0, <1>4, <1>5, <1>8, BecomeIs DEF OnTop
<1>14. InvBut(program', Nesting', scopes', reports', {})
  <2>1. reports \subseteq reports' /\ scopes[Len(scopes)].declared \in Seq(Variables)
    BY <1>5, <1>11
  <2> QED
    BY <1>1, <1>2, <1>3, <1>9, <1>10, <1>12, <1>13, <2>1, DeclareKeeps, ZenonT(40)
<1> QED
  BY <1>0, <1>1, <1>11, <1>13, <1>14 DEF IInv, Types

LEMMA DeclarableKinds ==
    ASSUME NEW scope, NEW kind \in Declarable(scope)
    PROVE  kind \in VariableKinds
<1> DEFINE all == StatementKinds \cup {"import", "import_alias", "import_type"} \cup {"catch"}
                  \cup {"arrow_parameter", "function_parameter", "function_type_parameter",
                        "generic_parameter", "index_signature_parameter", "infer_type"}
<1>1. kind \in all
  BY DEF Declarable, StatementKinds
<1>2. all \subseteq VariableKinds
  BY DEF StatementKinds, VariableKinds, RuntimeKinds, TypeKinds
<1> HIDE DEF all
<1> QED
  BY <1>1, <1>2

LEMMA InvScopes ==
    ASSUME IInv
    PROVE  /\ scopes \in Seq(Scopes) /\ Len(scopes) \in Nat \ {0} /\ corpus \in Corpora
           /\ Len(scopes) \in 1 .. Len(scopes) /\ Top = scopes[Len(scopes)] /\ Top \in Scopes
           /\ Chained(program, Nesting, scopes)
<1>1. scopes \in Seq(Scopes) /\ Len(scopes) \in 1 .. corpus.depth /\ corpus \in Corpora
  BY DEF IInv, Types
<1>2. corpus.depth \in Nat
  BY <1>1, CorpusIs
<1>3. Len(scopes) \in Nat \ {0} /\ Len(scopes) \in 1 .. Len(scopes)
  BY <1>1, <1>2
<1> QED
  BY <1>1, <1>3, TopIs DEF IInv, InvBut

LEMMA VisitVariableDeclarationKeeps ==
    ASSUME IInv, NEW d \in corpus.declarations, VisitVariableDeclaration(d.name, d.kind, d.flags)
    PROVE  IInv'
<1> DEFINE new == Declaration(d.name, d.kind, d.flags)
<1>1. Top \in Scopes /\ corpus \in Corpora
  BY InvScopes
<1>2. d.name \in Names /\ d.flags \in FlagSets
  BY <1>1, CorpusIs
<1>3. d.kind \in VariableKinds
  BY DeclarableKinds DEF VisitVariableDeclaration
<1>4. /\ Visit("declare", d.name, d.kind, d.flags)
      /\ scopes' = Append(Front(scopes), DeclareVariable(Top, new).scope)
      /\ Say(DeclareVariable(Top, new).reports)
  BY DEF VisitVariableDeclaration, Become
<1>5. Declares("declare", d.name)
  BY DEF Declares
<1> QED
  BY <1>1, <1>2, <1>3, <1>4, <1>5, DeclaringVisit

LEMMA EnterClassScopeBodyKeeps ==
    ASSUME IInv, NEW name \in corpus.classes, EnterClassScopeBody(name)
    PROVE  IInv'
<1> DEFINE me  == [Top EXCEPT !.body = TRUE]
           new == Declaration(name, "class", {})
<1>1. /\ Top \in Scopes /\ corpus \in Corpora /\ scopes \in Seq(Scopes)
      /\ Len(scopes) \in Nat \ {0} /\ Top = scopes[Len(scopes)]
  BY InvScopes
<1>2. name \in Names /\ {} \in FlagSets /\ "class" \in VariableKinds /\ "class" \in VisitKinds
  BY <1>1, CorpusIs DEF VariableKinds, RuntimeKinds, VisitKinds
<1>3. me \in Scopes /\ me.in = Top.in /\ me.kind = Top.kind /\ me.declared = Top.declared
  BY <1>1 DEF Scopes
<1>4. Visit("body", name, "class", {})
  BY DEF EnterClassScopeBody
<1>5. CASE name = ""
  <2>1. scopes' = Append(Front(scopes), me) /\ Say({})
    BY <1>5 DEF EnterClassScopeBody, Become
  <2> HIDE DEF me
  <2>2. scopes' \in Seq(Scopes) /\ SameScopes(scopes, scopes')
    BY <1>1, <1>3, <2>1, BecomeIs, TopChanges, SameAgain
  <2> QED
    BY <1>2, <1>4, <1>5, <2>1, <2>2, QuietVisit
<1>6. CASE name # ""
  <2>1. /\ scopes' = Append(Front(scopes), DeclareVariable(me, new).scope)
        /\ Say(DeclareVariable(me, new).reports)
    BY <1>6 DEF EnterClassScopeBody, Become
  <2>2. Declares("body", name)
    BY <1>6 DEF Declares
  <2> HIDE DEF me, new
  <2> QED
    BY <1>2, <1>3, <1>4, <2>1, <2>2, DeclaringVisit DEF new
<1> QED
  BY <1>5, <1>6

\* Every visit that uses a variable changes but the uses and the marks.
Alike(sc) == /\ sc \in Scopes /\ sc.in = Top.in /\ sc.kind = Top.kind
             /\ SameVariables(Top.declared, sc.declared)

LEMMA MarkedTop ==
    ASSUME IInv, NEW ats
    PROVE  Alike([Top EXCEPT !.declared = MarkUsed(@, ats)])
<1>1. Top \in Scopes
  BY InvScopes
<1>2. Top.declared \in Seq(Variables)
  BY <1>1 DEF Scopes
<1> DEFINE xs == MarkUsed(Top.declared, ats)
<1>3. xs \in Seq(Variables) /\ SameVariables(Top.declared, xs)
  BY <1>2, MarkUsedIs
<1> HIDE DEF xs
<1>4. Alike([Top EXCEPT !.declared = xs])
  BY <1>1, <1>3 DEF Alike, Scopes
<1> QED
  BY <1>4 DEF xs

LEMMA RememberedTop ==
    ASSUME IInv, NEW name \in Names, NEW use \in UseKinds
    PROVE  /\ Alike(Remember(name, use))
           /\ Alike([Remember(name, use) EXCEPT !.evalHere = @ \/ name = "eval"])
<1>1. Top \in Scopes
  BY InvScopes
<1> DEFINE u == [name |-> name, use |-> use, at |-> Here]
           sc == [Top EXCEPT !.uses = @ \cup {u}]
<1>2. u \in WaitingUses
  <2>1. Here \in Nat
    <3>1. program \in Seq(Visits)
      BY DEF IInv, Types
    <3> QED
      BY <3>1 DEF Here
  <2> QED
    BY <2>1 DEF WaitingUses
<1> HIDE DEF u
<1>3. /\ sc \in Scopes /\ sc.in = Top.in /\ sc.kind = Top.kind /\ sc.declared = Top.declared
  BY <1>1, <1>2 DEF Scopes
<1>4. Remember(name, use) = sc
  BY DEF Remember, u
<1> HIDE DEF sc
<1>5. Alike(sc)
  BY <1>3, SameAgain DEF Alike
<1> DEFINE eval == sc.evalHere \/ name = "eval"
<1>6. eval \in BOOLEAN
  OBVIOUS
<1> HIDE DEF eval
<1> DEFINE sd == [sc EXCEPT !.evalHere = eval]
<1>7. sd \in Scopes /\ sd.in = Top.in /\ sd.kind = Top.kind /\ sd.declared = Top.declared
  BY <1>3, <1>6 DEF Scopes
<1> HIDE DEF sd
<1>8. Alike(sd)
  BY <1>7, SameAgain DEF Alike
<1> QED
  BY <1>4, <1>5, <1>8 DEF sd, eval

LEMMA UsingVisit ==
    ASSUME IInv, NEW name \in Names, NEW use \in UseKinds \cup {"predicate"},
           Visit("use", name, use, {}), NEW new, Say(new),
           NEW sc, Alike(sc), Become(sc) \/ scopes' = scopes
    PROVE  IInv'
<1>1. /\ corpus \in Corpora /\ scopes \in Seq(Scopes)
      /\ Len(scopes) \in Nat \ {0} /\ Top = scopes[Len(scopes)]
  BY InvScopes
<1>2. {} \in FlagSets /\ use \in VisitKinds
  BY <1>1, CorpusIs DEF VisitKinds
<1>3. scopes' \in Seq(Scopes) /\ SameScopes(scopes, scopes')
  <2>1. CASE Become(sc)
    BY <1>1, <2>1, BecomeIs, TopChanges DEF Become, Alike
  <2>2. CASE scopes' = scopes
    BY <1>1, <2>2, SameAgain DEF SameScopes
  <2> QED
    BY <2>1, <2>2
<1> QED
  BY <1>2, <1>3, QuietVisit

LEMMA VisitVariableAssignmentKeeps ==
    ASSUME IInv, NEW name \in Names, VisitVariableAssignment(name)
    PROVE  IInv'
<1> DEFINE var == Find(Top.declared, name, "runtime")
           sc  == IF Found(var) THEN [Top EXCEPT !.declared = MarkUsed(@, {var.at})]
                  ELSE Remember(name, "assignment")
           new == IF Found(var) THEN Blame(AssignmentDiags(var.kind, FALSE, FALSE), [at |-> Here], var)
                  ELSE {}
<1>1. "assignment" \in UseKinds
  BY DEF UseKinds, RuntimeUses
<1>2. Alike(sc)
  BY <1>1, MarkedTop, RememberedTop
<1>3. Visit("use", name, "assignment", {}) /\ Become(sc) /\ Say(new)
  BY DEF VisitVariableAssignment
<1> HIDE DEF sc, new
<1> QED
  BY <1>1, <1>2, <1>3, UsingVisit

LEMMA VisitVariableDeleteUseKeeps ==
    ASSUME IInv, NEW name \in Names, VisitVariableDeleteUse(name)
    PROVE  IInv'
<1>1. "delete" \in UseKinds
  BY DEF UseKinds, RuntimeUses
<1>2. Alike(Remember(name, "delete"))
  BY <1>1, RememberedTop
<1>3. Visit("use", name, "delete", {})
  BY DEF VisitVariableDeleteUse
<1>4. PICK new : Say(new) /\ (Become(Remember(name, "delete")) \/ scopes' = scopes)
  BY DEF VisitVariableDeleteUse
<1> QED
  BY <1>1, <1>2, <1>3, <1>4, UsingVisit

LEMMA VisitVariableTypePredicateUseKeeps ==
    ASSUME IInv, NEW name \in Names, VisitVariableTypePredicateUse(name)
    PROVE  IInv'
<1>1. Alike(Top)
  BY InvScopes, SameAgain DEF Alike
<1>2. Visit("use", name, "predicate", {}) /\ scopes' = scopes
  BY DEF VisitVariableTypePredicateUse
<1>3. PICK new : Say(new)
  BY DEF VisitVariableTypePredicateUse
<1> QED
  BY <1>1, <1>2, <1>3, UsingVisit

LEMMA VisitVariableUseKeeps ==
    ASSUME IInv, NEW name \in Names, NEW use \in UseKinds, VisitVariableUse(name, use)
    PROVE  IInv'
<1> DEFINE var == Find(Top.declared, name, NamespaceOf(use))
           sc  == IF Found(var) THEN [Top EXCEPT !.declared = MarkUsed(@, {var.at})]
                  ELSE [Remember(name, use) EXCEPT !.evalHere = @ \/ name = "eval"]
<1>1. Alike(sc)
  BY MarkedTop, RememberedTop
<1>2. Visit("use", name, use, {}) /\ Become(sc) /\ Say({})
  BY DEF VisitVariableUse
<1> HIDE DEF sc
<1> QED
  BY <1>1, <1>2, UsingVisit

\* The top two scopes change.
LEMMA TopTwo ==
    ASSUME NEW S \in Seq(Scopes), Len(S) \in Nat, Len(S) > 1,
           NEW p \in Seq(Scopes), Len(p) = 2, NEW T, T = Front(Front(S)) \o p
    PROVE  /\ T \in Seq(Scopes) /\ Len(T) = Len(S)
           /\ T[Len(S) - 1] = p[1] /\ T[Len(S)] = p[2] /\ \A i \in 1 .. Len(S) - 2 : T[i] = S[i]
<1> DEFINE f == Front(S)
           g == Front(f)
           m == Len(S) - 2
<1>0. m \in Nat /\ Len(S) = m + 2 /\ Len(S) - 1 = m + 1 /\ Len(S) \in Nat \ {0}
  OBVIOUS
<1>1. f \in Seq(Scopes) /\ Len(f) = m + 1 /\ \A i \in 1 .. m + 1 : f[i] = S[i]
  BY <1>0, FrontIs
<1> HIDE DEF f, m
<1>2. g \in Seq(Scopes) /\ Len(g) = m /\ \A i \in 1 .. m : g[i] = f[i]
  <2>1. Len(f) \in Nat \ {0} /\ Len(f) - 1 = m
    BY <1>0, <1>1
  <2> QED
    BY <1>1, <2>1, FrontIs
<1>3. \A i \in 1 .. m : g[i] = S[i]
  BY <1>0, <1>1, <1>2
<1>4. T = g \o p
  BY DEF f
<1> HIDE DEF g
<1>5. /\ T \in Seq(Scopes) /\ Len(T) = m + 2 /\ T[m + 1] = p[1] /\ T[m + 2] = p[2]
      /\ \A i \in 1 .. m : T[i] = g[i]
  <2>2. /\ g \o p \in Seq(Scopes) /\ Len(g \o p) = Len(g) + Len(p)
        /\ \A i \in 1 .. Len(g) + Len(p) :
              (g \o p)[i] = IF i <= Len(g) THEN g[i] ELSE p[i - Len(g)]
    BY <1>2, ConcatProperties
  <2>3. m + 1 \in 1 .. m + 2 /\ m + 2 \in 1 .. m + 2 /\ ~(m + 1 <= m) /\ ~(m + 2 <= m)
        /\ (m + 1) - m = 1 /\ (m + 2) - m = 2 /\ \A i \in 1 .. m : i \in 1 .. m + 2 /\ i <= m
    BY <1>0
  <2>5. (g \o p)[m + 1] = p[1] /\ (g \o p)[m + 2] = p[2] /\ \A i \in 1 .. m : (g \o p)[i] = g[i]
    BY <1>2, <2>2, <2>3
  <2> QED
    BY <1>2, <1>4, <2>2, <2>5
<1>6. /\ T \in Seq(Scopes) /\ Len(T) = Len(S) /\ T[Len(S) - 1] = p[1] /\ T[Len(S)] = p[2]
  BY <1>0, <1>5
<1>7. \A i \in 1 .. m : T[i] = S[i]
  BY <1>3, <1>5
<1> QED
  BY <1>6, <1>7 DEF m

LEMMA UsesToParentIs ==
    ASSUME NEW child \in Scopes, NEW parent \in Scopes, NEW beforeOk, NEW consumeArguments,
           NEW U, U = UsesToParent(child, parent, beforeOk, consumeArguments).scope
    PROVE  /\ U \in Scopes /\ U.in = parent.in /\ U.kind = parent.kind
           /\ SameVariables(parent.declared, U.declared)
<1> DEFINE look == [u \in WaitingIn(child) |-> Find(parent.declared, u.name, NamespaceOf(u.use))]
<1>1. U = PropagateUses(child, parent, look, beforeOk, consumeArguments).scope
  BY DEF UsesToParent
<1> HIDE DEF look
<1>2. /\ U \in Scopes /\ U.in = parent.in /\ U.kind = parent.kind
      /\ \E ats : U.declared = MarkUsed(parent.declared, ats)
  BY <1>1, UsesGoUp
<1>3. parent.declared \in Seq(Variables)
  BY DEF Scopes
<1> QED
  BY <1>2, <1>3, MarkUsedIs

LEMMA EnterFunctionScopeBodyKeeps ==
    ASSUME IInv, EnterFunctionScopeBody
    PROVE  IInv'
<1> DEFINE n  == Len(scopes)
           up == UsesToParent(Top, Under, TRUE, TRUE)
           U  == up.scope
           me == [Top EXCEPT !.body = TRUE, !.uses = {}, !.usesBelow = {}]
<1>1. /\ scopes \in Seq(Scopes) /\ n \in Nat \ {0} /\ corpus \in Corpora
      /\ Top = scopes[n] /\ Top \in Scopes /\ Chained(program, Nesting, scopes)
  BY InvScopes
<1>2. n > 1
  <2>1. Top.kind # "module"
    BY DEF EnterFunctionScopeBody
  <2>2. n # 1
    BY <1>1, <2>1 DEF Chained
  <2> HIDE DEF n
  <2> QED
    BY <1>1, <2>2
<1>3. Under = scopes[n - 1] /\ Under \in Scopes
  BY <1>1, <1>2, TopIs
<1>4. U \in Scopes /\ U.in = Under.in /\ U.kind = Under.kind /\ SameVariables(Under.declared, U.declared)
  <2> DEFINE yes == TRUE
             V   == UsesToParent(Top, Under, yes, yes).scope
  <2> HIDE DEF yes
  <2>1. V = UsesToParent(Top, Under, yes, yes).scope
    OBVIOUS
  <2> HIDE DEF V
  <2>2. V \in Scopes /\ V.in = Under.in /\ V.kind = Under.kind /\ SameVariables(Under.declared, V.declared)
    BY <1>1, <1>3, <2>1, UsesToParentIs
  <2> QED
    BY <2>2 DEF V, yes
<1>5. me \in Scopes /\ me.in = Top.in /\ me.kind = Top.kind /\ me.declared = Top.declared
  BY <1>1 DEF Scopes
<1>6. /\ Visit("body", "", "", {}) /\ scopes' = Front(Front(scopes)) \o <<U, me>>
      /\ Say(up.reports)
  BY DEF EnterFunctionScopeBody
<1> HIDE DEF up, me, U
<1>7. /\ scopes' \in Seq(Scopes) /\ Len(scopes') = n
      /\ scopes'[n] = me /\ scopes'[n - 1] = U /\ \A i \in 1 .. n - 2 : scopes'[i] = scopes[i]
  <2> DEFINE T == scopes'
             p == <<U, me>>
  <2>1. T = Front(Front(scopes)) \o p
    BY <1>6
  <2>9. p \in Seq(Scopes) /\ Len(p) = 2 /\ p[1] = U /\ p[2] = me
    BY <1>4, <1>5
  <2> HIDE DEF T, p
  <2>2. /\ T \in Seq(Scopes) /\ Len(T) = Len(scopes) /\ T[Len(scopes)] = me
        /\ T[Len(scopes) - 1] = U /\ \A i \in 1 .. Len(scopes) - 2 : T[i] = scopes[i]
    <3>1. Len(scopes) \in Nat /\ Len(scopes) > 1
      BY <1>1, <1>2
    <3>2. p \in Seq(Scopes) /\ Len(p) = 2 /\ scopes \in Seq(Scopes)
      BY <1>1, <2>9
    <3>3. /\ T \in Seq(Scopes) /\ Len(T) = Len(scopes)
          /\ T[Len(scopes) - 1] = p[1] /\ T[Len(scopes)] = p[2]
          /\ \A i \in 1 .. Len(scopes) - 2 : T[i] = scopes[i]
      BY <2>1, <3>1, <3>2, TopTwo, ZenonT(40)
    <3> QED
      BY <2>9, <3>3
  <2> QED
    BY <2>2 DEF T
<1>8. SameScopes(scopes, scopes')
  <2>1. ASSUME NEW i \in 1 .. n
        PROVE  /\ scopes'[i].in = scopes[i].in /\ scopes'[i].kind = scopes[i].kind
               /\ SameVariables(scopes[i].declared, scopes'[i].declared)
    <3>1. i = n \/ i = n - 1 \/ i \in 1 .. n - 2
      <4> HIDE DEF n
      <4> QED
        BY <1>1
    <3>2. CASE i = n
      BY <1>1, <1>5, <1>7, <3>2, SameAgain
    <3>3. CASE i = n - 1
      BY <1>3, <1>4, <1>7, <3>3
    <3>4. CASE i \in 1 .. n - 2
      BY <1>7, <3>4, SameAgain
    <3> QED
      BY <3>1, <3>2, <3>3, <3>4
  <2> QED
    BY <1>7, <2>1 DEF SameScopes
<1>9. "" \in Names /\ {} \in FlagSets /\ "" \in VisitKinds
  BY <1>1, CorpusIs DEF VisitKinds
<1> QED
  BY <1>6, <1>7, <1>8, <1>9, QuietVisit

LEMMA SameProgram ==
    ASSUME program' = program
    PROVE  Nesting' = Nesting
BY DEF Nesting, Positions

LEMMA VisitEndOfModuleKeeps ==
    ASSUME IInv, VisitEndOfModule
    PROVE  IInv'
<1>1. /\ scopes' = scopes /\ program' = program /\ corpus' = corpus
      /\ Len(scopes) = 1 /\ status' \in {"crashed", "done"}
  BY DEF VisitEndOfModule
<1>2. reports \subseteq reports'
  BY DEF VisitEndOfModule
<1>3. /\ Types /\ InvBut(program, Nesting, scopes, reports, {}) /\ scopes \in Seq(Scopes)
  BY DEF IInv, Types
<1>4. SameScopes(scopes, scopes) /\ \A i \in 1 .. Len(scopes) : Len(scopes[i].declared) \in Nat
  BY <1>3, SameAgain, DeclaredIs DEF SameScopes
<1>5. InvBut(program, Nesting, scopes, reports', {})
  BY <1>2, <1>3, <1>4, MarksKeep
<1>6. InvBut(program', Nesting', scopes', reports', {})
  BY <1>1, <1>5, SameProgram
<1>7. Types'
  BY <1>1, <1>3 DEF Types
<1> QED
  BY <1>1, <1>6, <1>7 DEF IInv

\* The scopes at the end of one, when its uses have gone up.
LEMMA Marked ==
    ASSUME NEW S \in Seq(Scopes), Len(S) \in Nat, Len(S) > 1, NEW U \in Scopes,
           U.in = S[Len(S) - 1].in, U.kind = S[Len(S) - 1].kind,
           SameVariables(S[Len(S) - 1].declared, U.declared)
    PROVE  \E S2 \in Seq(Scopes) :
              /\ Len(S2) = Len(S) /\ SameScopes(S, S2)
              /\ S2[Len(S)] = S[Len(S)] /\ S2[Len(S) - 1] = U
              /\ \A i \in 1 .. Len(S) - 2 : S2[i] = S[i]
<1> DEFINE n == Len(S)
           S2 == [i \in 1 .. n |-> IF i = n - 1 THEN U ELSE S[i]]
<1>1. n \in Nat /\ n > 1 /\ n - 1 \in 1 .. n /\ n \in 1 .. n /\ n - 1 # n
      /\ \A i \in 1 .. n - 2 : i \in 1 .. n /\ i # n - 1
  OBVIOUS
<1>2. S2 \in Seq(Scopes) /\ Len(S2) = n /\ \A i \in 1 .. n : S2[i] = IF i = n - 1 THEN U ELSE S[i]
  <2>1. ASSUME NEW i \in 1 .. n PROVE S[i] \in Scopes
    OBVIOUS
  <2> HIDE DEF n
  <2> QED
    BY <1>1, <2>1
<1> HIDE DEF S2
<1>3. ASSUME NEW i \in 1 .. n
      PROVE  S2[i].in = S[i].in /\ S2[i].kind = S[i].kind /\ SameVariables(S[i].declared, S2[i].declared)
  BY <1>2, SameAgain
<1>4. SameScopes(S, S2)
  BY <1>2, <1>3 DEF SameScopes
<1>5. S2[n] = S[n] /\ S2[n - 1] = U /\ \A i \in 1 .. n - 2 : S2[i] = S[i]
  <2> HIDE DEF n
  <2> QED
    BY <1>1, <1>2
<1> QED
  BY <1>2, <1>4, <1>5

LEMMA ExitScopeKeeps ==
    ASSUME IInv, ExitScope
    PROVE  IInv'
<1> DEFINE n    == Len(scopes)
           late == Top.kind \in Deferred
           uses == IF Top.kind \in Opaque THEN [scope |-> Under, reports |-> {}]
                   ELSE UsesToParent(Top, Under, late, late)
           decl == IF Top.kind \in Leaky THEN DeclarationsToParent(Top, uses.scope)
                   ELSE [scope |-> uses.scope, reports |-> {}]
           U    == uses.scope
           D    == decl.scope
           more == decl.reports
<1>1. /\ scopes \in Seq(Scopes) /\ n \in Nat \ {0} /\ corpus \in Corpora
      /\ Top = scopes[n] /\ Top \in Scopes
  BY InvScopes
<1>2. /\ n > 1 /\ status = "analyzing" /\ corpus' = corpus /\ program' = program
      /\ scopes' = Append(Front(Front(scopes)), D)
  BY DEF ExitScope
<1>3. reports \cup more \subseteq reports' /\ status' \in {"analyzing", "crashed"}
  <2>1. Say(uses.reports \cup decl.reports) /\ status = "analyzing"
    BY DEF ExitScope
  <2> HIDE DEF uses, decl
  <2> QED
    BY <2>1 DEF Say
<1>4. Under = scopes[n - 1] /\ Under \in Scopes
  BY <1>1, <1>2, TopIs
<1>5. U \in Scopes /\ U.in = Under.in /\ U.kind = Under.kind /\ SameVariables(Under.declared, U.declared)
  <2>1. CASE Top.kind \in Opaque
    BY <1>4, <2>1, SameAgain
  <2>2. CASE Top.kind \notin Opaque
    <3> DEFINE l == late
               V == UsesToParent(Top, Under, l, l).scope
    <3> HIDE DEF l
    <3>1. V = UsesToParent(Top, Under, l, l).scope
      OBVIOUS
    <3> HIDE DEF V
    <3>2. V \in Scopes /\ V.in = Under.in /\ V.kind = Under.kind /\ SameVariables(Under.declared, V.declared)
      BY <1>1, <1>4, <3>1, UsesToParentIs
    <3>3. U = V
      BY <2>2 DEF V, l
    <3> QED
      BY <3>2, <3>3
  <2> QED
    BY <2>1, <2>2
<1>6. decl = IF Top.kind \in Leaky THEN DeclarationsToParent(Top, U) ELSE [scope |-> U, reports |-> {}]
  OBVIOUS
<1> HIDE DEF U, uses
<1>7. PICK S \in Seq(Scopes) :
         /\ Len(S) = n /\ SameScopes(scopes, S) /\ S[n] = Top /\ S[n - 1] = U
         /\ \A i \in 1 .. n - 2 : S[i] = scopes[i]
  BY <1>1, <1>2, <1>4, <1>5, Marked
<1>8. InvBut(program, Nesting, S, reports, {})
  <2>1. InvBut(program, Nesting, scopes, reports, {})
    BY DEF IInv
  <2> QED
    BY <1>1, <1>7, <2>1, DeclaredIs, MarksKeep
<1>9. n - 1 \in 1 .. n
  BY <1>1, <1>2
<1>10. AllCompared(reports, U.declared)
  BY <1>7, <1>8, <1>9 DEF InvBut, ComparedInv
<1>11. /\ D \in Scopes /\ D.in = U.in /\ D.kind = U.kind
       /\ AllCompared(reports', D.declared)
       /\ IF Top.kind \in Leaky
          THEN HandedTo(U.declared, Top.declared, D.declared, Len(Top.declared))
          ELSE D.declared = U.declared
  <2>1. CASE Top.kind \in Leaky
    <3>1. HandedSo(Top, U, reports, decl, Len(Top.declared))
      BY <1>1, <1>5, <1>6, <1>10, <2>1, HandingIs
    <3> HIDE DEF decl
    <3>2. /\ D \in Scopes /\ D.in = U.in /\ D.kind = U.kind
          /\ HandedTo(U.declared, Top.declared, D.declared, Len(Top.declared))
          /\ AllCompared(reports \cup more, D.declared)
      BY <3>1 DEF HandedSo
    <3>3. Len(D.declared) \in Nat
      BY <3>2 DEF Scopes
    <3>4. AllCompared(reports', D.declared)
      <4> DEFINE xs == D.declared
                 R  == reports \cup more
      <4>1. Len(xs) \in Nat /\ R \subseteq reports' /\ AllCompared(R, xs)
        BY <1>3, <3>2, <3>3
      <4> HIDE DEF xs, R
      <4>2. AllCompared(reports', xs)
        BY <4>1, SameAgain, SameCompared
      <4> QED
        BY <4>2 DEF xs
    <3> QED
      BY <2>1, <3>2, <3>4
  <2>2. CASE Top.kind \notin Leaky
    <3>1. D = U
      BY <1>6, <2>2
    <3>2. Len(U.declared) \in Nat /\ reports \subseteq reports'
      BY <1>3, <1>5 DEF Scopes
    <3>3. AllCompared(reports', U.declared)
      BY <1>10, <3>2, SameAgain, SameCompared
    <3> HIDE DEF D
    <3> QED
      BY <1>5, <2>2, <3>1, <3>3
  <2> QED
    BY <2>1, <2>2
<1> HIDE DEF D, decl, more
<1>12. /\ scopes' \in Seq(Scopes) /\ Len(scopes') = n - 1 /\ scopes'[n - 1] = D
       /\ \A i \in 1 .. n - 2 : scopes'[i] = scopes[i]
  <2> DEFINE f == Front(scopes)
  <2>1. f \in Seq(Scopes) /\ Len(f) = n - 1 /\ \A i \in 1 .. n - 1 : f[i] = scopes[i]
    BY <1>1, FrontIs
  <2>2. scopes' = Append(Front(f), D)
    BY <1>2
  <2> HIDE DEF f
  <2>3. Len(f) \in Nat \ {0}
    BY <1>1, <1>2, <2>1
  <2>4. /\ Append(Front(f), D) \in Seq(Scopes) /\ Len(Append(Front(f), D)) = Len(f)
        /\ Append(Front(f), D)[Len(f)] = D
        /\ \A i \in 1 .. Len(f) - 1 : Append(Front(f), D)[i] = f[i]
    BY <1>11, <2>1, <2>3, BecomeIs
  <2> DEFINE T == scopes'
  <2>5. T \in Seq(Scopes) /\ Len(T) = n - 1 /\ T[n - 1] = D /\ \A i \in 1 .. (n - 1) - 1 : T[i] = f[i]
    BY <2>1, <2>2, <2>4
  <2> HIDE DEF T, n
  <2>6. \A i \in 1 .. n - 2 : T[i] = scopes[i]
    BY <1>1, <2>1, <2>5
  <2> QED
    BY <2>5, <2>6 DEF T
<1>13. InvBut(program, Nesting, scopes', reports', {})
  <2> DEFINE T == scopes'
             ys == D.declared
  <2>1. Len(ys) \in Nat
    BY <1>11 DEF Scopes
  <2>2. Len(T) = Len(S) - 1 /\ T[Len(S) - 1] = D /\ \A i \in 1 .. Len(S) - 2 : T[i] = S[i]
    BY <1>7, <1>12
  <2>3. /\ D.in = S[Len(S) - 1].in /\ D.kind = S[Len(S) - 1].kind /\ D.declared = ys
        /\ Len(S) > 1 /\ reports \subseteq reports' /\ AllCompared(reports', ys)
    BY <1>2, <1>3, <1>7, <1>11
  <2>4. IF S[Len(S)].kind \in Leaky
        THEN HandedTo(S[Len(S) - 1].declared, S[Len(S)].declared, ys, Len(S[Len(S)].declared))
        ELSE ys = S[Len(S) - 1].declared
    BY <1>7, <1>11
  <2> HIDE DEF T, ys
  <2>5. InvBut(program, Nesting, T, reports', {})
    BY <1>8, <2>1, <2>2, <2>3, <2>4, ExitKeeps
  <2> QED
    BY <2>5 DEF T
<1>14. Types'
  <2>1. Types
    BY DEF IInv
  <2>2. Len(scopes') \in 1 .. corpus.depth
    <3>1. n \in 1 .. corpus.depth /\ corpus.depth \in Nat
      BY <1>1, <2>1, CorpusIs DEF Types
    <3> QED
      BY <1>2, <1>12, <3>1
  <2> QED
    BY <1>2, <1>3, <1>12, <2>1, <2>2 DEF Types
<1> QED
  BY <1>2, <1>3, <1>13, <1>14, SameProgram DEF IInv
-----------------------------------------------------------------------------
(* The specification. *)

LEMMA StartsRight ==
    ASSUME Init
    PROVE  IInv
<1>1. /\ corpus \in Corpora /\ program = << >> /\ reports = {} /\ status = "analyzing"
      /\ scopes = <<NewScope("module", 0, "")>>
  BY DEF Init
<1> DEFINE sc == NewScope("module", 0, "")
<1>2. sc \in Scopes /\ sc.in = 0 /\ sc.kind = "module" /\ sc.declared = << >>
  <2>1. "" \in Names
    BY <1>1, CorpusIs
  <2>2. "module" \in ScopeKinds
    BY DEF ScopeKinds
  <2>3. << >> \in Seq(Variables)
    OBVIOUS
  <2> QED
    BY <2>1, <2>2, <2>3 DEF Scopes, NewScope
<1> HIDE DEF sc
<1>3. scopes \in Seq(Scopes) /\ Len(scopes) = 1 /\ scopes[1] = sc
  <2>1. scopes = <<sc>>
    BY <1>1 DEF sc
  <2> QED
    BY <1>2, <2>1
<1>4. program \in Seq(Visits) /\ Len(program) = 0 /\ DOMAIN program = {} /\ 1 .. 0 = {}
  <2>1. << >> \in Seq(Visits) /\ Len(<< >>) = 0 /\ DOMAIN << >> = {}
    OBVIOUS
  <2>2. 1 .. 0 = {}
    OBVIOUS
  <2> QED
    BY <1>1, <2>1, <2>2
<1>5. WellNested(program)
  BY <1>4 DEF WellNested
<1>6. IsNesting(program, Nesting)
  <2>1. Nesting = CHOOSE f : f = [p \in DOMAIN program |-> {[scope |-> program[p].in, place |-> p]}
                                 \cup (IF program[p].in = 0 THEN {} ELSE f[program[p].in])]
    BY DEF Nesting, Positions
  <2> QED
    BY <1>5, <2>1, NestingIs
<1>7. Chained(program, Nesting, scopes)
  BY <1>2, <1>3 DEF Chained
<1>8. Decls(program) = {}
  BY <1>4 DEF Decls
<1>9. ToldInv(program, Nesting, scopes) /\ ComparedInv(scopes, reports)
  <2>1. ASSUME NEW i \in 1 .. Len(scopes) PROVE Len(scopes[i].declared) = 0
    BY <1>2, <1>3
  <2> QED
    BY <1>4, <2>1 DEF ToldInv, ComparedInv, AllCompared
<1>10. KnownBut(program, Nesting, scopes, {}) /\ EndedInv(program, Nesting, scopes, reports)
  BY <1>8 DEF KnownBut, EndedInv, OnceIn
<1>11. Types
  <2>1. corpus.visits \in Nat /\ corpus.depth \in Nat \ {0}
    BY <1>1, CorpusIs
  <2> DEFINE visits == corpus.visits
             depth  == corpus.depth
  <2>2. visits \in Nat /\ depth \in Nat \ {0}
    BY <2>1
  <2> HIDE DEF visits, depth
  <2>3. 1 \in 1 .. depth /\ 0 <= visits
    BY <2>2
  <2> QED
    BY <1>1, <1>3, <1>4, <2>3 DEF Types, visits, depth
<1> QED
  BY <1>1, <1>3, <1>5, <1>6, <1>7, <1>9, <1>10, <1>11 DEF IInv, InvBut

LEMMA StepsKeep ==
    ASSUME IInv, [Next]_vars
    PROVE  IInv'
<1>1. corpus \in Corpora
  BY DEF IInv, Types
<1>2. ASSUME NEW kind \in corpus.scopes, EnterScope(kind) PROVE IInv'
  BY <1>2, EnterScopeKeeps
<1>3. ASSUME NEW name \in corpus.functions, EnterNamedFunctionScope(name) PROVE IInv'
  BY <1>3, EnterNamedFunctionScopeKeeps
<1>4. CASE EnterFunctionScopeBody
  BY <1>4, EnterFunctionScopeBodyKeeps
<1>5. ASSUME NEW name \in corpus.classes, EnterClassScopeBody(name) PROVE IInv'
  BY <1>5, EnterClassScopeBodyKeeps
<1>6. ASSUME NEW d \in corpus.declarations, VisitVariableDeclaration(d.name, d.kind, d.flags)
      PROVE  IInv'
  BY <1>6, VisitVariableDeclarationKeeps
<1>7. ASSUME NEW u \in corpus.uses
      PROVE  /\ VisitVariableAssignment(u.name) => IInv'
             /\ VisitVariableDeleteUse(u.name) => IInv'
             /\ VisitVariableTypePredicateUse(u.name) => IInv'
             /\ u.use # "predicate" /\ VisitVariableUse(u.name, u.use) => IInv'
  <2> DEFINE name == u.name
             use  == u.use
  <2>1. name \in Names /\ use \in UseKinds \cup {"predicate"}
    BY <1>1, CorpusIs
  <2> HIDE DEF name, use
  <2>2. ASSUME VisitVariableAssignment(name) PROVE IInv'
    BY <2>1, <2>2, VisitVariableAssignmentKeeps
  <2>3. ASSUME VisitVariableDeleteUse(name) PROVE IInv'
    BY <2>1, <2>3, VisitVariableDeleteUseKeeps
  <2>4. ASSUME VisitVariableTypePredicateUse(name) PROVE IInv'
    BY <2>1, <2>4, VisitVariableTypePredicateUseKeeps
  <2>5. ASSUME use # "predicate", VisitVariableUse(name, use) PROVE IInv'
    <3>1. use \in UseKinds
      BY <2>1, <2>5
    <3> QED
      BY <2>1, <2>5, <3>1, VisitVariableUseKeeps
  <2> QED
    BY <2>2, <2>3, <2>4, <2>5 DEF name, use
<1>8. CASE ExitScope
  BY <1>8, ExitScopeKeeps
<1>9. CASE VisitEndOfModule
  BY <1>9, VisitEndOfModuleKeeps
<1>10. CASE UNCHANGED vars
  <2>1. /\ corpus' = corpus /\ scopes' = scopes /\ reports' = reports /\ status' = status
        /\ program' = program
    BY <1>10 DEF vars
  <2>2. Nesting' = Nesting
    BY <2>1, SameProgram
  <2> QED
    BY <2>1, <2>2 DEF IInv, Types
<1>11. Next \/ UNCHANGED vars
  OBVIOUS
<1> QED
  BY <1>2, <1>3, <1>4, <1>5, <1>6, <1>7, <1>8, <1>9, <1>10, <1>11 DEF Next

\* What the invariant says of names is what the properties say.
LEMMA BoundIs ==
    ASSUME NEW s, NEW p \in Positions
    PROVE  /\ Holds(s, p) <=> s \in Scoped(Nesting, p)
           /\ BoundIn(s, p) <=> Bound(program, Nesting, s, p)
<1>1. \A t : Holds(t, p) <=> t \in Scoped(Nesting, p)
  BY DEF Holds, Scoped
<1>2. \A t : t \in Between(s, p) <=> t \in Scoped(Nesting, p) /\ t > s
  BY DEF Between, Scoped
<1>3. \A t : ScopeKind(t) = KindIn(program, t)
  BY DEF ScopeKind, KindIn
<1> QED
  BY <1>1, <1>2, <1>3 DEF BoundIn, Bound

LEMMA SameNameIs ==
    ASSUME NEW s, NEW d
    PROVE  Declarations = Decls(program) /\ SameNameIn(s, d) = SameName(program, Nesting, s, d)
<1>1. Declarations = Decls(program) /\ Decls(program) \subseteq Positions
  BY DEF Declarations, Decls, Positions
<1> QED
  BY <1>1, BoundIs DEF SameNameIn, SameName

LEMMA OnceInAll ==
    ASSUME IInv, status = "done", NEW s
    PROVE  OnceIn(program, Nesting, reports, s)
<1>1. /\ WellNested(program) /\ IsNesting(program, Nesting) /\ Chained(program, Nesting, scopes)
      /\ ToldInv(program, Nesting, scopes) /\ KnownBut(program, Nesting, scopes, {})
      /\ ComparedInv(scopes, reports) /\ EndedInv(program, Nesting, scopes, reports)
      /\ Len(scopes) = 1 /\ scopes \in Seq(Scopes)
  BY DEF IInv, InvBut, Types
<1>2. CASE s \notin Open(scopes)
  BY <1>1, <1>2 DEF EndedInv
<1>3. CASE s \in Open(scopes)
  <2> DEFINE xs == scopes[1].declared
  <2>1. 1 \in 1 .. Len(scopes) /\ ~(1 < Len(scopes)) /\ s = scopes[1].in
    BY <1>1, <1>3 DEF Open
  <2>2. xs \in Seq(Variables)
    BY <1>1, <2>1, DeclaredIs
  <2>3. \A j \in 1 .. Len(xs) : Told(program, Nesting, s, xs[j])
    BY <1>1, <2>1 DEF ToldInv
  <2>4. \A e \in Decls(program) : Bound(program, Nesting, s, e) => \E j \in 1 .. Len(xs) : xs[j].at = e
    BY <1>1, <2>1 DEF KnownBut
  <2>5. AllCompared(reports, xs)
    BY <1>1, <2>1 DEF ComparedInv
  <2> HIDE DEF xs
  <2> QED
    BY <1>1, <2>2, <2>3, <2>4, <2>5, ScopeIsOnce
<1> QED
  BY <1>2, <1>3

LEMMA InvMeans ==
    ASSUME IInv
    PROVE  DuplicatesAreReported
<1> SUFFICES ASSUME status = "done", NEW d \in Declarations, NEW s, s = program[d].in,
                    \A f \in SameNameIn(s, d) :
                        /\ ~HoistedFunction(s, f)
                        /\ program[f].kind \in Lexical \cup Hoisted \cup Parameters,
                    NEW e \in Declarations
             PROVE  DeclaredOnce(s, d, e)
  BY DEF DuplicatesAreReported
<1> SUFFICES ASSUME d # e, e \in SameNameIn(s, d), program[d].kind \in Lexical
             PROVE  \E r \in reports : r.diag = "Redeclaration_Of_Variable" /\ r.at \in {d, e}
  BY DEF DeclaredOnce
<1>1. OnceIn(program, Nesting, reports, s)
  BY OnceInAll
<1>2. d \in Decls(program) /\ SameNameIn(s, d) = SameName(program, Nesting, s, d)
  BY SameNameIs
<1>3. \A f \in SameName(program, Nesting, s, d) :
          /\ ~(program[f].kind = "function" /\ program[f].in # s)
          /\ program[f].kind \in Lexical \cup Hoisted \cup Parameters
  BY <1>2 DEF HoistedFunction
<1> QED
  BY <1>1, <1>2, <1>3 DEF OnceIn

(***************************************************************************)
(* docs/errors/E0034.md: at the end of a module, whatever the visits were, *)
(* a variable declared with class, const or let has every second           *)
(* declaration of its name in the scope reported, those which blocks       *)
(* inside hoist to it (propagate_variable_declarations_to_parent_scope)    *)
(* included, unless a function of a block is among them.                   *)
(***************************************************************************)
THEOREM AnalyzerReportsDuplicates == Spec => []DuplicatesAreReported
<1>1. Init => IInv
  BY StartsRight
<1>2. IInv /\ [Next]_vars => IInv'
  BY StepsKeep
<1>3. IInv => DuplicatesAreReported
  BY InvMeans
<1> QED
  BY <1>1, <1>2, <1>3, PTL DEF Spec
=============================================================================
