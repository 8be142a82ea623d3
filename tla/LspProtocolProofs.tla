--------------------------- MODULE LspProtocolProofs ---------------------------
(***************************************************************************)
(* Proofs about the two modules of the language server protocol.           *)
(*                                                                         *)
(* LspSession, for any streams of frames, any messages and any capacity of *)
(* the pipes: what the client reads is what was sent, in order, every      *)
(* message is answered as often as it should be, and, at the end of this   *)
(* module, every frame is handled once, however the stream is cut.         *)
(*                                                                         *)
(* LspDocumentText, for any documents and edits of any length: the table   *)
(* of lines that is patched after every edit is the one of the whole text, *)
(* the text is the editor's, and positions and offsets agree.              *)
(***************************************************************************)
EXTENDS LspSession, LspDocumentText, FiniteSetTheorems, FunctionTheorems, SequenceTheorems, TLAPS

(* Numbers. *)

\* What holds of 0 and of each number after one of which it holds, up to n:
\* by a least counterexample.
LEMMA UpTo ==
    ASSUME NEW n \in Nat, NEW P, 0 \in P, \A k \in 1 .. n : k - 1 \in P => k \in P
    PROVE  0 .. n \subseteq P
<1> DEFINE Less == {ss \in Nat \X Nat : ss[1] < ss[2]}
           S == {k \in 0 .. n : k \notin P}
<1>1. SUFFICES ASSUME S # {} PROVE FALSE
  OBVIOUS
<1>2. IsWellFoundedOn(Less, Nat)
  BY NatLessThanWellFounded DEF OpToRel
<1>3. S \subseteq Nat
  OBVIOUS
<1>4. PICK m \in S : \A k \in S : <<k, m>> \notin Less
  <2> HIDE DEF Less, S
  <2> QED
    BY <1>1, <1>2, <1>3, WFMin
<1>5. m \in 1 .. n /\ m - 1 \in 0 .. n
  OBVIOUS
<1>6. m - 1 \in P
  <2>1. m - 1 \in Nat /\ m \in Nat /\ m - 1 < m /\ m - 1 \in 0 .. n
    BY <1>5
  <2>2. <<m - 1, m>> \in Less
    BY <2>1
  <2>3. m - 1 \notin S
    BY <1>4, <2>2
  <2> QED
    BY <2>1, <2>3
<1> QED
  BY <1>5, <1>6

\* The functions on 0 .. n whose every value gives the next: there is one.
Chains(n, S, base, step) ==
    {f \in [0 .. n -> S] : f[0] = base /\ \A k \in 1 .. n : f[k] = step[<<k, f[k - 1]>>]}

LEMMA Recursion ==
    ASSUME NEW n \in Nat, NEW S, NEW base \in S, NEW step \in [(1 .. n) \X S -> S]
    PROVE  Chains(n, S, base, step) # {}
<1> DEFINE Steps(m) == {f \in [0 .. m -> S] :
                          f[0] = base /\ \A k \in 1 .. m : f[k] = step[<<k, f[k - 1]>>]}
           P == {m \in 0 .. n : Steps(m) # {}}
<1>1. 0 \in P
  <2>1. [k \in 0 .. 0 |-> base] \in Steps(0)
    OBVIOUS
  <2> QED
    BY <2>1
<1>2. ASSUME NEW k \in 1 .. n, k - 1 \in P PROVE k \in P
  <2> DEFINE m == k - 1
  <2>1. m \in Nat /\ m + 1 = k /\ Steps(m) # {}
    BY <1>2
  <2>2. PICK f \in [0 .. m -> S] : f[0] = base /\ \A j \in 1 .. m : f[j] = step[<<j, f[j - 1]>>]
    BY <2>1
  <2> HIDE DEF m
  <2> DEFINE g == [j \in 0 .. k |-> IF j = k THEN step[<<k, f[m]>>] ELSE f[j]]
  <2>3. f[m] \in S
    BY <2>1, <2>2
  <2>4. step[<<k, f[m]>>] \in S
    BY <2>3
  <2>5. g \in [0 .. k -> S] /\ g[0] = base
    BY <2>1, <2>2, <2>4
  <2>6. ASSUME NEW j \in 1 .. k PROVE g[j] = step[<<j, g[j - 1]>>]
    <3>1. CASE j = k
      <4>1. k \in Int /\ k - 1 = m /\ m # k /\ m \in 0 .. k /\ k \in 0 .. k
        BY <2>1
      <4>2. g[m] = f[m] /\ g[k] = step[<<k, f[m]>>]
        BY <4>1
      <4> QED
        BY <3>1, <4>1, <4>2
    <3>2. CASE j # k
      <4>1. j \in 1 .. m /\ j - 1 \in 0 .. m /\ j - 1 # k
        BY <3>2, <2>1
      <4>2. j \in 0 .. k /\ j - 1 \in 0 .. k
        BY <2>1
      <4>3. g[j] = f[j] /\ g[j - 1] = f[j - 1]
        BY <3>2, <4>1, <4>2
      <4> QED
        BY <2>2, <4>1, <4>3
    <3> QED
      BY <3>1, <3>2
  <2>7. g \in Steps(k)
    BY <2>5, <2>6
  <2>8. Steps(k) # {}
    BY <2>7
  <2>9. k \in 0 .. n
    OBVIOUS
  <2> HIDE DEF Steps
  <2> QED
    BY <2>8, <2>9
<1> HIDE DEF P
<1>3. 0 .. n \subseteq P
  BY <1>1, <1>2, UpTo
<1> QED
  BY <1>3 DEF P, Chains
-----------------------------------------------------------------------------
(* Sequences of sequences. *)

\* FlattenSeq puts one after the other.
Flattenings(T, s) ==
    {f \in [0 .. Len(s) -> Seq(T)] :
        /\ f[0] = << >>
        /\ \A k \in 1 .. Len(s) : f[k] = f[k - 1] \o s[k]
        /\ FlattenSeq(s) = f[Len(s)]}

LEMMA Flattened ==
    ASSUME NEW T, NEW s \in Seq(Seq(T))
    PROVE  Flattenings(T, s) # {}
<1> DEFINE n == Len(s)
           step == [p \in (1 .. n) \X Seq(T) |-> p[2] \o s[p[1]]]
<1>1. n \in Nat /\ \A k \in 1 .. n : s[k] \in Seq(T)
  BY LenProperties, ElementOfSeq
<1>2. << >> \in Seq(T)
  BY EmptySeq
<1>3. step \in [(1 .. n) \X Seq(T) -> Seq(T)]
  BY <1>1, ConcatProperties
<1>4. \A k \in 1 .. n : \A x \in Seq(T) : step[<<k, x>>] = x \o s[k]
  OBVIOUS
<1> HIDE DEF n, step
<1>5. PICK f \in [0 .. n -> Seq(T)] :
         f[0] = << >> /\ \A k \in 1 .. n : f[k] = step[<<k, f[k - 1]>>]
  <2> DEFINE R == Seq(T)
  <2>1. << >> \in R /\ step \in [(1 .. n) \X R -> R] /\ n \in Nat
    BY <1>1, <1>2, <1>3
  <2> HIDE DEF R
  <2>2. Chains(n, R, << >>, step) # {}
    BY <2>1, Recursion
  <2> QED
    BY <2>2 DEF R, Chains
<1>6. ASSUME NEW k \in 1 .. n PROVE f[k] = f[k - 1] \o s[k]
  <2>1. k - 1 \in 0 .. n
    BY <1>1
  <2> QED
    BY <1>4, <1>5, <2>1
<1>7. CASE n = 0
  <2>1. s = << >>
    BY <1>7, EmptySeq DEF n
  <2>2. FlattenSeq(s) = s
    BY <1>7 DEF FlattenSeq, n
  <2> QED
    BY <1>5, <1>6, <1>7, <2>1, <2>2 DEF n, Flattenings
<1>8. CASE n # 0
  <2> DEFINE Body(a) == [i \in 1 .. n |-> IF i = 1 THEN s[i] ELSE a[i - 1] \o s[i]]
             flatten == CHOOSE a : a = Body(a)
  <2>1. FlattenSeq(s) = flatten[n]
    BY <1>8 DEF FlattenSeq, n
  <2>2. flatten = Body(flatten)
    <3> DEFINE g == [i \in 1 .. n |-> f[i]]
    <3>1. f[1] = s[1]
      <4>1. 1 \in 1 .. n /\ f[1 - 1] = << >>
        BY <1>1, <1>5, <1>8
      <4> QED
        <5>1. f[1] = << >> \o s[1] /\ s[1] \in Seq(T)
          BY <1>1, <1>6, <4>1
        <5> QED
          BY <5>1, ConcatEmptySeq
    <3>2. ASSUME NEW i \in 1 .. n PROVE g[i] = IF i = 1 THEN s[i] ELSE g[i - 1] \o s[i]
      <4>1. CASE i = 1
        BY <3>1, <4>1
      <4>2. CASE i # 1
        <5>1. i - 1 \in 1 .. n
          BY <1>1, <4>2
        <5>2. g[i] = f[i] /\ g[i - 1] = f[i - 1]
          BY <5>1
        <5> QED
          BY <1>6, <4>2, <5>2
      <4> QED
        BY <4>1, <4>2
    <3>3. g = Body(g)
      BY <3>2
    <3> HIDE DEF g, Body
    <3> QED
      BY <3>3
  <2>3. \A i \in 1 .. n : flatten[i] = IF i = 1 THEN s[i] ELSE flatten[i - 1] \o s[i]
    BY <2>2
  <2> HIDE DEF flatten, Body
  <2> DEFINE P == {k \in 0 .. n : k # 0 => flatten[k] = f[k]}
  <2>4. 0 \in P
    BY <1>1
  <2>5. ASSUME NEW k \in 1 .. n, k - 1 \in P PROVE k \in P
    <3>1. CASE k = 1
      <4>1. f[k] = s[k]
        <5>1. f[k - 1] = << >>
          BY <1>5, <3>1
        <5> QED
          BY <1>1, <1>6, <5>1, ConcatEmptySeq
      <4> QED
        BY <3>1, <4>1, <2>3
    <3>2. CASE k # 1
      <4>1. k - 1 # 0 /\ k \in 0 .. n
        BY <3>2, <1>1
      <4>2. flatten[k - 1] = f[k - 1]
        BY <2>5, <4>1
      <4>3. flatten[k] = flatten[k - 1] \o s[k]
        BY <2>3, <3>2
      <4>4. flatten[k] = f[k]
        BY <1>6, <4>2, <4>3
      <4> QED
        BY <4>1, <4>4
    <3> QED
      BY <3>1, <3>2
  <2> HIDE DEF P
  <2>6. 0 .. n \subseteq P
    BY <1>1, <2>4, <2>5, UpTo
  <2>7. flatten[n] = f[n]
    BY <1>1, <1>8, <2>6 DEF P
  <2> QED
    BY <1>5, <1>6, <2>1, <2>7 DEF n, Flattenings
<1> QED
  BY <1>7, <1>8

LEMMA FlattenConcat ==
    ASSUME NEW T, NEW s \in Seq(Seq(T)), NEW t \in Seq(Seq(T))
    PROVE  /\ FlattenSeq(s) \in Seq(T)
           /\ FlattenSeq(s \o t) = FlattenSeq(s) \o FlattenSeq(t)
<1> DEFINE m == Len(s)
           n == Len(t)
           u == s \o t
<1>1. m \in Nat /\ n \in Nat /\ u \in Seq(Seq(T)) /\ Len(u) = m + n
      /\ (\A k \in 1 .. m : u[k] = s[k])
      /\ (\A k \in 1 .. n : u[m + k] = t[k] /\ t[k] \in Seq(T))
  <2>1. /\ u \in Seq(Seq(T)) /\ Len(u) = Len(s) + Len(t)
        /\ \A i \in 1 .. Len(s) + Len(t) :
             u[i] = IF i <= Len(s) THEN s[i] ELSE t[i - Len(s)]
    BY ConcatProperties
  <2>2. m \in Nat /\ n \in Nat /\ \A k \in 1 .. n : t[k] \in Seq(T)
    BY LenProperties, ElementOfSeq
  <2> HIDE DEF u
  <2>3. \A k \in 1 .. m : u[k] = s[k]
    BY <2>1, <2>2
  <2>4. ASSUME NEW k \in 1 .. n PROVE u[m + k] = t[k]
    <3>1. m + k \in 1 .. m + n /\ ~(m + k <= m) /\ (m + k) - m = k
      BY <2>2
    <3> QED
      BY <2>1, <3>1
  <2> QED
    BY <2>1, <2>2, <2>3, <2>4
<1>2. PICK f \in [0 .. m -> Seq(T)] :
         f[0] = << >> /\ (\A k \in 1 .. m : f[k] = f[k - 1] \o s[k]) /\ FlattenSeq(s) = f[m]
  BY Flattened DEF Flattenings
<1>3. PICK g \in [0 .. n -> Seq(T)] :
         g[0] = << >> /\ (\A k \in 1 .. n : g[k] = g[k - 1] \o t[k]) /\ FlattenSeq(t) = g[n]
  BY Flattened DEF Flattenings
<1>4. PICK h \in [0 .. m + n -> Seq(T)] :
         h[0] = << >> /\ (\A k \in 1 .. m + n : h[k] = h[k - 1] \o u[k])
         /\ FlattenSeq(u) = h[m + n]
  <2> HIDE DEF u
  <2>1. Flattenings(T, u) # {}
    BY <1>1, Flattened
  <2> QED
    BY <1>1, <2>1 DEF Flattenings
<1> HIDE DEF m, n, u
<1> DEFINE P == {k \in 0 .. m : h[k] = f[k]}
           Q == {k \in 0 .. n : h[m + k] = f[m] \o g[k]}
<1>5. 0 \in P
  BY <1>1, <1>2, <1>4
<1>6. ASSUME NEW k \in 1 .. m, k - 1 \in P PROVE k \in P
  <2>1. k \in 1 .. m + n /\ k \in 0 .. m /\ u[k] = s[k]
    BY <1>1
  <2>2. h[k] = h[k - 1] \o u[k] /\ f[k] = f[k - 1] \o s[k] /\ h[k - 1] = f[k - 1]
    BY <1>2, <1>4, <1>6, <2>1
  <2> QED
    BY <2>1, <2>2
<1>7. h[m] = f[m] /\ f[m] \in Seq(T)
  <2> HIDE DEF P
  <2>1. 0 .. m \subseteq P
    BY <1>1, <1>5, <1>6, UpTo
  <2> QED
    BY <1>1, <1>2, <2>1 DEF P
<1>8. 0 \in Q
  <2>1. f[m] \o << >> = f[m] /\ m + 0 = m /\ 0 \in 0 .. n
    BY <1>1, <1>7, ConcatEmptySeq
  <2> QED
    BY <1>3, <1>7, <2>1
<1>9. ASSUME NEW k \in 1 .. n, k - 1 \in Q PROVE k \in Q
  <2>1. m + k \in 1 .. m + n /\ (m + k) - 1 = m + (k - 1) /\ k - 1 \in 0 .. n /\ k \in 0 .. n
    BY <1>1
  <2>2. h[m + k] = h[m + (k - 1)] \o t[k] /\ t[k] \in Seq(T)
    <3>1. h[m + k] = h[(m + k) - 1] \o u[m + k]
      BY <1>4, <2>1
    <3>2. h[(m + k) - 1] = h[m + (k - 1)]
      BY <2>1, Zenon
    <3>3. u[m + k] = t[k] /\ t[k] \in Seq(T)
      BY <1>1
    <3> QED
      BY <3>1, <3>2, <3>3, Zenon
  <2>3. h[m + (k - 1)] = f[m] \o g[k - 1]
    BY <1>9
  <2>4. g[k - 1] \in Seq(T) /\ g[k] = g[k - 1] \o t[k]
    BY <1>3, <2>1
  <2>5. (f[m] \o g[k - 1]) \o t[k] = f[m] \o (g[k - 1] \o t[k])
    <3> DEFINE x == f[m]
               y == g[k - 1]
               z == t[k]
    <3>1. x \in Seq(T) /\ y \in Seq(T) /\ z \in Seq(T)
      BY <1>7, <2>2, <2>4
    <3> HIDE DEF x, y, z
    <3>2. (x \o y) \o z = x \o (y \o z)
      BY <3>1, ConcatAssociative, SMTT(30)
    <3> QED
      BY <3>2 DEF x, y, z
  <2>6. h[m + k] = f[m] \o g[k]
    BY <2>2, <2>3, <2>4, <2>5
  <2> QED
    BY <2>1, <2>6
<1>10. h[m + n] = f[m] \o g[n]
  <2> HIDE DEF Q
  <2>1. 0 .. n \subseteq Q
    BY <1>1, <1>8, <1>9, UpTo
  <2>2. n \in Q
    BY <1>1, <2>1
  <2> QED
    BY <2>2, Zenon DEF Q
<1> QED
  BY <1>2, <1>3, <1>4, <1>7, <1>10 DEF u
-----------------------------------------------------------------------------
(* Messages and their bytes. *)

Says == {"result", "method_not_found", "configuration_request", "diagnostics",
         "parse_error", "no_batches", "invalid_request", "show_message"}
Messages == [kind : Says, to : Nat]
Parts == [m : Messages, part : {"header", "json"}]
AllBytes(messages) == FlattenSeq([i \in 1 .. Len(messages) |-> Bytes(messages[i])])

LEMMA OutgoingIsMessage ==
    ASSUME NEW kind \in Says, NEW to \in Nat
    PROVE  Outgoing(kind, to) \in Messages /\ Outgoing(kind, to).to = to
BY DEF Outgoing, Messages

LEMMA BytesAreParts == ASSUME NEW m \in Messages PROVE Bytes(m) \in Seq(Parts)
BY DEF Bytes, Parts

\* The bytes of a message, one sequence for each.
LEMMA Pieces ==
    ASSUME NEW q \in Seq(Messages)
    PROVE  [i \in 1 .. Len(q) |-> Bytes(q[i])] \in Seq(Seq(Parts))
<1>1. Len(q) \in Nat /\ \A i \in 1 .. Len(q) : q[i] \in Messages
  BY LenProperties, ElementOfSeq
<1>2. \A i \in 1 .. Len(q) : Bytes(q[i]) \in Seq(Parts)
  BY <1>1, BytesAreParts
<1> DEFINE n == Len(q)
           f == [i \in 1 .. n |-> Bytes(q[i])]
           R == Seq(Parts)
<1>3. f \in [1 .. n -> R]
  BY <1>2
<1>4. f \in Seq(R)
  <2> HIDE DEF f, R, n
  <2> QED
    BY <1>1, <1>3, SeqDef DEF n
<1> QED
  BY <1>4

LEMMA AllBytesConcat ==
    ASSUME NEW q \in Seq(Messages), NEW r \in Seq(Messages)
    PROVE  AllBytes(q) \in Seq(Parts) /\ AllBytes(q \o r) = AllBytes(q) \o AllBytes(r)
<1> DEFINE B(p) == [i \in 1 .. Len(p) |-> Bytes(p[i])]
<1>1. B(q) \in Seq(Seq(Parts)) /\ B(r) \in Seq(Seq(Parts))
  BY Pieces
<1>2. B(q \o r) = B(q) \o B(r)
  <2>1. /\ Len(q) \in Nat /\ Len(r) \in Nat /\ Len(q \o r) = Len(q) + Len(r)
        /\ \A i \in 1 .. Len(q) + Len(r) :
              (q \o r)[i] = IF i <= Len(q) THEN q[i] ELSE r[i - Len(q)]
        /\ q \o r \in Seq(Messages)
    BY ConcatProperties, LenProperties
  <2>2. Len(B(q)) = Len(q) /\ Len(B(r)) = Len(r)
    BY <2>1
  <2>3. B(q \o r) \in Seq(Seq(Parts)) /\ Len(B(q \o r)) = Len(q) + Len(r)
    BY <2>1, Pieces
  <2>4. /\ B(q) \o B(r) \in Seq(Seq(Parts))
        /\ Len(B(q) \o B(r)) = Len(q) + Len(r)
        /\ \A i \in 1 .. Len(q) + Len(r) :
              (B(q) \o B(r))[i] = IF i <= Len(q) THEN B(q)[i] ELSE B(r)[i - Len(q)]
    <3> DEFINE x == B(q)
               y == B(r)
               R == Seq(Parts)
    <3>1. x \in Seq(R) /\ y \in Seq(R) /\ Len(x) = Len(q) /\ Len(y) = Len(r)
      BY <1>1, <2>2
    <3> HIDE DEF x, y, R
    <3>2. /\ x \o y \in Seq(R)
          /\ Len(x \o y) = Len(x) + Len(y)
          /\ \A i \in 1 .. Len(x) + Len(y) :
                (x \o y)[i] = IF i <= Len(x) THEN x[i] ELSE y[i - Len(x)]
      BY <3>1, ConcatProperties
    <3> QED
      BY <3>1, <3>2 DEF x, y, R
  <2>5. ASSUME NEW i \in 1 .. Len(q) + Len(r) PROVE B(q \o r)[i] = (B(q) \o B(r))[i]
    <3>1. B(q \o r)[i] = Bytes((q \o r)[i])
      BY <2>1
    <3>2. CASE i <= Len(q)
      <4>1. i \in 1 .. Len(q)
        BY <2>1, <3>2
      <4>2. B(q)[i] = Bytes(q[i]) /\ (q \o r)[i] = q[i] /\ (B(q) \o B(r))[i] = B(q)[i]
        BY <2>1, <2>4, <3>2, <4>1
      <4> QED
        BY <3>1, <4>2
    <3>3. CASE ~(i <= Len(q))
      <4>1. i - Len(q) \in 1 .. Len(r)
        BY <2>1, <3>3
      <4>2. /\ B(r)[i - Len(q)] = Bytes(r[i - Len(q)])
            /\ (q \o r)[i] = r[i - Len(q)] /\ (B(q) \o B(r))[i] = B(r)[i - Len(q)]
        BY <2>1, <2>4, <3>3, <4>1
      <4> QED
        BY <3>1, <4>2
    <3> QED
      BY <3>2, <3>3
  <2> QED
    <3> DEFINE x == B(q \o r)
               y == B(q) \o B(r)
               R == Seq(Parts)
    <3>1. /\ x \in Seq(R) /\ y \in Seq(R) /\ Len(x) = Len(y)
          /\ \A i \in 1 .. Len(x) : x[i] = y[i]
      BY <2>3, <2>4, <2>5
    <3> HIDE DEF x, y, R
    <3>2. x = y
      BY <3>1, SeqEqual
    <3> QED
      BY <3>2 DEF x, y
<1> HIDE DEF B
<1>3. /\ FlattenSeq(B(q)) \in Seq(Parts)
      /\ FlattenSeq(B(q) \o B(r)) = FlattenSeq(B(q)) \o FlattenSeq(B(r))
  BY <1>1, FlattenConcat
<1> QED
  BY <1>2, <1>3 DEF AllBytes, B
-----------------------------------------------------------------------------
(* The writer. *)

OutputType ==
    /\ received \in Seq(Parts) /\ out_pipe \in Seq(Parts) /\ pending_ \in Seq(Parts)
    /\ sent \in Seq(Messages)
    /\ Len(out_pipe) <= OutCapacity

OutputInOrder == received \o out_pipe \o pending_ = AllBytes(sent)

LEMMA PartsAssociative ==
    \A a, b, c \in Seq(Parts) : (a \o b) \o c = a \o (b \o c)
BY ConcatAssociative

\* A write moves bytes from the queue to the pipe and keeps their order.
LEMMA WriteStep ==
    ASSUME NEW pending \in Seq(Parts), out_pipe \in Seq(Parts), Len(out_pipe) <= OutCapacity,
           SessionAssumption, WriteAsMuchAsPossible(pending)
    PROVE  /\ out_pipe' \in Seq(Parts) /\ pending_' \in Seq(Parts)
           /\ Len(out_pipe') <= OutCapacity
           /\ out_pipe' \o pending_' = out_pipe \o pending
<1> DEFINE room == OutCapacity - Len(out_pipe)
           n == IF room < Len(pending) THEN room ELSE Len(pending)
           first == SubSeq(pending, 1, n)
           rest == SubSeq(pending, n + 1, Len(pending))
<1>1. OutCapacity \in Nat /\ Len(out_pipe) \in Nat /\ Len(pending) \in Nat
  BY LenProperties DEF SessionAssumption
<1>2. n \in 0 .. Len(pending) /\ n <= room
  BY <1>1
<1>3. out_pipe' = out_pipe \o first /\ pending_' = rest
  BY DEF WriteAsMuchAsPossible
<1> HIDE DEF n, room
<1>4. first \in Seq(Parts) /\ rest \in Seq(Parts) /\ Len(first) = n
  <2>1. \A i \in 1 .. Len(pending) : pending[i] \in Parts
    BY ElementOfSeq
  <2>2. /\ \A i \in 1 .. n : pending[i] \in Parts
        /\ \A i \in n + 1 .. Len(pending) : pending[i] \in Parts
    BY <1>1, <1>2, <2>1
  <2>3. n \in Int /\ 1 \in Int /\ n + 1 \in Int /\ Len(pending) \in Int /\ 0 <= n
    BY <1>1, <1>2
  <2>4. first \in Seq(Parts) /\ Len(first) = IF 1 <= n THEN n - 1 + 1 ELSE 0
    BY <2>2, <2>3, SubSeqProperties
  <2>5. rest \in Seq(Parts)
    BY <2>2, <2>3, SubSeqProperties
  <2> QED
    BY <2>3, <2>4, <2>5
<1>5. first \o rest = pending
  <2>1. SubSeq(pending, 1, n) \o SubSeq(pending, n + 1, Len(pending))
          = SubSeq(pending, 1, Len(pending))
    <3>1. /\ 1 \in 1 .. Len(pending) + 1 /\ n \in 1 - 1 .. Len(pending)
          /\ Len(pending) \in n .. Len(pending)
      BY <1>1, <1>2
    <3> QED
      BY <3>1, ConcatAdjacentSubSeq
  <2> QED
    BY <2>1, SubSeqFull
<1> HIDE DEF first, rest
<1>6. out_pipe \o first \in Seq(Parts) /\ Len(out_pipe \o first) = Len(out_pipe) + n
  BY <1>4, ConcatProperties
<1>7. (out_pipe \o first) \o rest = out_pipe \o (first \o rest)
  BY <1>4, PartsAssociative
<1> QED
  BY <1>1, <1>2, <1>3, <1>4, <1>5, <1>6, <1>7 DEF room

LEMMA WriteMore ==
    ASSUME OutputType, OutputInOrder, SessionAssumption, WriteAsMuchAsPossible(pending_),
           UNCHANGED <<sent, received>>
    PROVE  OutputType' /\ OutputInOrder'
<1>1. /\ received \in Seq(Parts) /\ out_pipe \in Seq(Parts) /\ pending_ \in Seq(Parts)
      /\ Len(out_pipe) <= OutCapacity
  BY DEF OutputType
<1>2. /\ out_pipe' \in Seq(Parts) /\ pending_' \in Seq(Parts)
      /\ Len(out_pipe') <= OutCapacity
      /\ out_pipe' \o pending_' = out_pipe \o pending_
  BY <1>1, WriteStep
<1>3. (received \o out_pipe) \o pending_ = received \o (out_pipe \o pending_)
  BY <1>1, PartsAssociative
<1>4. (received \o out_pipe') \o pending_' = received \o (out_pipe' \o pending_')
  BY <1>1, <1>2, PartsAssociative
<1> QED
  BY <1>1, <1>2, <1>3, <1>4 DEF OutputType, OutputInOrder

LEMMA WriteMessages ==
    ASSUME OutputType, OutputInOrder, SessionAssumption, NEW messages \in Seq(Messages),
           Write(messages), UNCHANGED received
    PROVE  OutputType' /\ OutputInOrder'
<1> DEFINE bytes == AllBytes(messages)
           pending == pending_ \o bytes
<1>1. /\ received \in Seq(Parts) /\ out_pipe \in Seq(Parts) /\ pending_ \in Seq(Parts)
      /\ Len(out_pipe) <= OutCapacity /\ sent \in Seq(Messages)
  BY DEF OutputType
<1>2. /\ sent' = sent \o messages
      /\ WriteAsMuchAsPossible(pending)
  BY DEF Write, Queued, AllBytes
<1>3. bytes \in Seq(Parts) /\ AllBytes(sent \o messages) = AllBytes(sent) \o bytes
  BY <1>1, AllBytesConcat
<1>4. sent \o messages \in Seq(Messages)
  BY <1>1, ConcatProperties
<1> HIDE DEF bytes
<1>5. pending \in Seq(Parts)
  BY <1>1, <1>3, ConcatProperties
<1>6. /\ out_pipe' \in Seq(Parts) /\ pending_' \in Seq(Parts)
      /\ Len(out_pipe') <= OutCapacity
      /\ out_pipe' \o pending_' = out_pipe \o pending
  <2> HIDE DEF pending
  <2> QED
    BY <1>1, <1>2, <1>5, WriteStep
<1>7. (received \o out_pipe') \o pending_' = received \o (out_pipe' \o pending_')
  BY <1>1, <1>6, PartsAssociative
<1>8. received \o (out_pipe \o pending) = (received \o out_pipe) \o pending
  <2> HIDE DEF pending
  <2> QED
    BY <1>1, <1>5, PartsAssociative, SMTT(30)
<1>9. (received \o out_pipe) \o (pending_ \o bytes) = ((received \o out_pipe) \o pending_) \o bytes
  <2> DEFINE x == received \o out_pipe
  <2>1. x \in Seq(Parts)
    BY <1>1, ConcatProperties
  <2> HIDE DEF x
  <2>2. (x \o pending_) \o bytes = x \o (pending_ \o bytes)
    BY <1>1, <1>3, <2>1, PartsAssociative
  <2> QED
    BY <2>2 DEF x
<1>10. (received \o out_pipe') \o pending_' = AllBytes(sent) \o bytes
  BY <1>6, <1>7, <1>8, <1>9 DEF OutputInOrder
<1> QED
  BY <1>1, <1>2, <1>3, <1>4, <1>6, <1>10 DEF OutputType, OutputInOrder

LEMMA ReadByClient ==
    ASSUME OutputType, OutputInOrder, SessionAssumption, received' = received \o out_pipe,
           out_pipe' = << >>, UNCHANGED <<sent, pending_>>
    PROVE  OutputType' /\ OutputInOrder'
<1>1. received \in Seq(Parts) /\ out_pipe \in Seq(Parts)
  BY DEF OutputType
<1>2. received \o out_pipe \in Seq(Parts)
  BY <1>1, ConcatProperties
<1>3. (received \o out_pipe) \o << >> = received \o out_pipe
  BY <1>2, ConcatEmptySeq
<1>4. << >> \in Seq(Parts) /\ Len(<< >>) = 0
  BY EmptySeq
<1> QED
  BY <1>2, <1>3, <1>4 DEF OutputType, OutputInOrder, SessionAssumption
-----------------------------------------------------------------------------
(* How many messages answer message n. *)

Count(q, n) == Cardinality({k \in DOMAIN q : q[k].to = n})

LEMMA CountFinite ==
    ASSUME NEW q \in Seq(Messages), NEW n
    PROVE  IsFiniteSet({k \in DOMAIN q : q[k].to = n}) /\ Count(q, n) \in Nat
<1> DEFINE S == {k \in 1 .. Len(q) : q[k].to = n}
<1>1. Len(q) \in Nat /\ DOMAIN q = 1 .. Len(q)
  BY LenProperties
<1>2. IsFiniteSet(1 .. Len(q))
  BY <1>1, FS_Interval
<1>3. S \in SUBSET (1 .. Len(q))
  OBVIOUS
<1> HIDE DEF S
<1>4. IsFiniteSet(S)
  BY <1>2, <1>3, FS_Subset
<1>5. Cardinality(S) \in Nat
  BY <1>4, FS_CardinalityType
<1> QED
  BY <1>1, <1>4, <1>5 DEF S, Count

LEMMA CountEmpty == \A n : Count(<< >>, n) = 0
<1> TAKE n
<1>1. {k \in DOMAIN << >> : << >>[k].to = n} = {}
  <2>1. DOMAIN << >> = {}
    OBVIOUS
  <2> QED
    BY <2>1
<1> QED
  BY <1>1, FS_EmptySet DEF Count

LEMMA CountAppend ==
    ASSUME NEW q \in Seq(Messages), NEW m \in Messages, NEW n
    PROVE  /\ Append(q, m) \in Seq(Messages)
           /\ Count(Append(q, m), n) = Count(q, n) + (IF m.to = n THEN 1 ELSE 0)
<1> DEFINE S == {k \in DOMAIN q : q[k].to = n}
           p == Append(q, m)
           T == {k \in DOMAIN p : p[k].to = n}
           e == Len(q) + 1
<1>1. /\ Len(q) \in Nat /\ DOMAIN q = 1 .. Len(q)
      /\ p \in Seq(Messages) /\ DOMAIN p = 1 .. e /\ p[e] = m
      /\ \A k \in 1 .. Len(q) : p[k] = q[k]
  BY AppendProperties, LenProperties
<1>2. IsFiniteSet(S) /\ Cardinality(S) \in Nat
  BY CountFinite DEF Count
<1>3. e \notin S
  BY <1>1
<1>4. CASE m.to = n
  <2>1. T = S \cup {e}
    <3> HIDE DEF p
    <3>1. \A k : k \in T <=> k \in S \cup {e}
      BY <1>1, <1>4
    <3> QED
      BY <3>1
  <2>2. Cardinality(S \cup {e}) = Cardinality(S) + 1
    <3> HIDE DEF S, e
    <3> QED
      BY <1>2, <1>3, FS_AddElement
  <2> QED
    BY <1>1, <1>4, <2>1, <2>2 DEF Count
<1>5. CASE m.to # n
  <2>1. T = S
    <3> HIDE DEF p
    <3>1. \A k : k \in T <=> k \in S
      BY <1>1, <1>5
    <3> QED
      BY <3>1
  <2> QED
    <3>1. Count(p, n) = Count(q, n)
      BY <2>1 DEF Count
    <3>2. Count(q, n) \in Nat
      BY CountFinite
    <3> HIDE DEF p
    <3>3. Count(p, n) = Count(q, n) + (IF m.to = n THEN 1 ELSE 0)
      BY <1>5, <3>1, <3>2
    <3> QED
      BY <1>1, <3>3 DEF p
<1> QED
  BY <1>4, <1>5

LEMMA CountConcat ==
    ASSUME NEW q \in Seq(Messages), NEW r \in Seq(Messages), NEW n
    PROVE  q \o r \in Seq(Messages) /\ Count(q \o r, n) = Count(q, n) + Count(r, n)
<1> DEFINE a == Len(q)
           b == Len(r)
           A == {k \in DOMAIN q : q[k].to = n}
           B == {k \in DOMAIN r : r[k].to = n}
           p == q \o r
           T == {k \in DOMAIN p : p[k].to = n}
           C == {k \in a + 1 .. a + b : r[k - a].to = n}
<1>1. /\ a \in Nat /\ b \in Nat /\ DOMAIN q = 1 .. a /\ DOMAIN r = 1 .. b
      /\ p \in Seq(Messages) /\ DOMAIN p = 1 .. a + b
      /\ \A k \in 1 .. a + b : p[k] = IF k <= a THEN q[k] ELSE r[k - a]
  BY ConcatProperties, LenProperties
<1>2. IsFiniteSet(A) /\ IsFiniteSet(B) /\ Cardinality(A) \in Nat /\ Cardinality(B) \in Nat
  BY CountFinite DEF Count
<1>3. T = A \cup C
  <2> HIDE DEF p, a, b
  <2>1. ASSUME NEW k PROVE k \in T <=> k \in A \cup C
    <3>1. CASE k \in 1 .. a
      BY <1>1, <3>1
    <3>2. CASE k \in a + 1 .. a + b
      BY <1>1, <3>2
    <3>3. CASE k \notin 1 .. a /\ k \notin a + 1 .. a + b
      BY <1>1, <3>3
    <3> QED
      BY <3>1, <3>2, <3>3
  <2> QED
    BY <2>1
<1>4. A \cap C = {}
  BY <1>1
<1>5. IsFiniteSet(C) /\ Cardinality(C) = Cardinality(B)
  <2> DEFINE f == [k \in B |-> a + k]
  <2>1. \A k \in B : a + k \in C
    <3> HIDE DEF a, b
    <3>1. ASSUME NEW k \in B PROVE a + k \in C
      <4>1. k \in 1 .. b /\ r[k].to = n
        BY <1>1
      <4>2. a + k \in a + 1 .. a + b /\ (a + k) - a = k
        BY <1>1, <4>1
      <4> QED
        BY <4>1, <4>2
    <3> QED
      BY <3>1
  <2>2. \A k \in C : k - a \in B /\ a + (k - a) = k
    <3> HIDE DEF a, b
    <3> QED
      BY <1>1
  <2>3. \A k \in B : k \in Int
    BY <1>1
  <2> HIDE DEF B, C
  <2>4. f \in [B -> C]
    BY <2>1
  <2>5. \A k, l \in B : f[k] = f[l] => k = l
    BY <1>1, <2>3
  <2>6. \A k \in C : \E l \in B : f[l] = k
    BY <2>2
  <2> HIDE DEF f
  <2>7. ExistsBijection(B, C)
    <3>1. f \in Injection(B, C)
      BY <2>4, <2>5, Fun_IsInj
    <3>2. f \in Surjection(B, C)
      BY <2>4, <2>6, Fun_IsSurj
    <3> QED
      BY <3>1, <3>2 DEF ExistsBijection, Bijection
  <2> QED
    BY <1>2, <2>7, FS_Bijection
<1> HIDE DEF A, B, C, p
<1>6. Cardinality(A \cup C) = Cardinality(A) + Cardinality(C) - Cardinality({})
  BY <1>2, <1>4, <1>5, FS_Union
<1>7. Cardinality(A \cup C) = Cardinality(A) + Cardinality(B)
  BY <1>2, <1>5, <1>6, FS_EmptySet
<1> QED
  BY <1>1, <1>3, <1>7 DEF Count, A, B, p
-----------------------------------------------------------------------------
(* The handler.  What it was given is a sequence of contents of any kind. *)

Backends == Nat \cup {NoBackend}
Handlers(handled) ==
    [error_responses : Seq(Messages), outgoing_messages : Seq(Messages),
     shutdown_requested : BOOLEAN, tracing_directory : STRING \cup {""},
     tracer_backend : Backends, enabled : SUBSET Backends, backends : Nat,
     did_report_watch_io_error : BOOLEAN, watch_errors : BOOLEAN,
     handled : {handled}, exit : {"no", "0", "1"}]
HandlerOK(h) == h \in Handlers(h.handled) /\ h.handled \in Seq(Range(h.handled))

\* What changes of a handler that says nothing.
Quiet(h) ==
    {g \in Handlers(h.handled) :
        g.error_responses = h.error_responses /\ g.outgoing_messages = h.outgoing_messages}

LEMMA SetTracingDirectoryIsQuiet ==
    ASSUME NEW h, NEW g \in Quiet(h), NEW directory \in STRING
    PROVE  SetTracingDirectory(g, directory) \in Quiet(h)
<1>1. [g EXCEPT !.tracing_directory = directory] \in Quiet(h)
  BY DEF Quiet, Handlers
<1>2. \A k \in Quiet(h) : WithoutBackend(k) \in Quiet(h)
  BY DEF WithoutBackend, Quiet, Handlers, Backends
<1>3. \A k \in Quiet(h) : WithBackend(k, directory) \in Quiet(h)
  <2> SUFFICES ASSUME NEW k \in Quiet(h) PROVE WithBackend(k, directory) \in Quiet(h)
    OBVIOUS
  <2>1. k \in Handlers(h.handled) /\ k.backends \in Nat
    BY DEF Quiet, Handlers
  <2> DEFINE b == k.backends + 1
  <2>2. b \in Nat
    BY <2>1
  <2> HIDE DEF b
  <2>3. b \in Backends
    BY <2>2 DEF Backends
  <2> DEFINE e == k.enabled \cup {b}
             opened == [k EXCEPT !.backends = b, !.tracer_backend = b, !.enabled = e]
  <2>4. e \in SUBSET Backends
    BY <2>1, <2>3 DEF Handlers
  <2>5. WithBackend(k, directory) = k \/ WithBackend(k, directory) = opened
    BY <2>1 DEF WithBackend, b, Handlers
  <2> HIDE DEF e
  <2>6. opened \in Quiet(h)
    BY <2>2, <2>3, <2>4 DEF Quiet, Handlers
  <2> HIDE DEF opened
  <2> QED
    BY <2>5, <2>6
<1> QED
  BY <1>1, <1>2, <1>3 DEF SetTracingDirectory

LEMMA ProcessNotificationIsQuiet ==
    ASSUME NEW h, HandlerOK(h), NEW settings \in Seq(STRING)
    PROVE  ProcessNotification(h, settings) \in Quiet(h)
<1> DEFINE n == Len(settings)
           G == Quiet(h)
           step == [p \in (1 .. n) \X G |-> ProcessSetting(p[2], settings, p[1])]
           Body(a) == [i \in 0 .. n |->
                         IF i = 0 THEN h ELSE ProcessSetting(a[i - 1], settings, i)]
           after == CHOOSE a : a = Body(a)
<1>1. n \in Nat /\ \A i \in 1 .. n : settings[i] \in STRING
  BY LenProperties, ElementOfSeq
<1>2. h \in G
  BY DEF HandlerOK, Quiet
<1>3. \A i \in 1 .. n : \A g \in G : ProcessSetting(g, settings, i) \in G
  BY <1>1, SetTracingDirectoryIsQuiet DEF ProcessSetting
<1>4. ProcessNotification(h, settings) = after[n]
  BY DEF ProcessNotification
<1>5. step \in [(1 .. n) \X G -> G]
        /\ \A i \in 1 .. n : \A g \in G : step[<<i, g>>] = ProcessSetting(g, settings, i)
  BY <1>3
<1> HIDE DEF n, G, step
<1>6. PICK f \in [0 .. n -> G] :
         f[0] = h /\ \A i \in 1 .. n : f[i] = step[<<i, f[i - 1]>>]
  <2>1. Chains(n, G, h, step) # {}
    BY <1>1, <1>2, <1>5, Recursion
  <2> QED
    BY <2>1 DEF Chains
<1>7. f = Body(f)
  <2>1. ASSUME NEW i \in 0 .. n, i # 0 PROVE f[i] = ProcessSetting(f[i - 1], settings, i)
    <3>1. i \in 1 .. n /\ i - 1 \in 0 .. n
      BY <1>1, <2>1
    <3>2. f[i] = step[<<i, f[i - 1]>>] /\ f[i - 1] \in G
      BY <1>6, <3>1
    <3> QED
      BY <1>5, <3>1, <3>2
  <2>2. \A i \in 0 .. n : f[i] = Body(f)[i]
    BY <1>6, <2>1
  <2> QED
    BY <1>6, <2>2
<1>8. after = Body(after)
  <2> HIDE DEF Body
  <2> QED
    BY <1>7
<1>9. \A i \in 0 .. n : after[i] = IF i = 0 THEN h ELSE ProcessSetting(after[i - 1], settings, i)
  BY <1>8
<1> HIDE DEF after, Body
<1> DEFINE P == {i \in 0 .. n : after[i] \in G}
<1>10. 0 \in P
  BY <1>1, <1>2, <1>9
<1>11. ASSUME NEW i \in 1 .. n, i - 1 \in P PROVE i \in P
  <2>1. i \in 0 .. n /\ i # 0
    BY <1>1
  <2>2. after[i] = ProcessSetting(after[i - 1], settings, i) /\ after[i - 1] \in G
    BY <1>9, <1>11, <2>1
  <2> QED
    BY <1>3, <2>1, <2>2
<1>12. after[n] \in G
  <2> HIDE DEF P
  <2>1. 0 .. n \subseteq P
    BY <1>1, <1>10, <1>11, UpTo
  <2> QED
    BY <1>1, <2>1 DEF P
<1> QED
  BY <1>4, <1>12 DEF G
-----------------------------------------------------------------------------
(* What the handler answers to the message it was given last. *)

AnswersOf(h, n) == Count(h.error_responses, n) + Count(h.outgoing_messages, n)
Replies(h, due) ==
    {g \in Handlers(h.handled) :
        \A n \in Nat \ {0} :
            AnswersOf(g, n) = AnswersOf(h, n) + (IF n = Len(h.handled) THEN due ELSE 0)}

LEMMA HandlerFacts ==
    ASSUME NEW h, HandlerOK(h)
    PROVE  /\ h.error_responses \in Seq(Messages) /\ h.outgoing_messages \in Seq(Messages)
           /\ Len(h.handled) \in Nat
           /\ \A n : Count(h.error_responses, n) \in Nat
                     /\ Count(h.outgoing_messages, n) \in Nat /\ AnswersOf(h, n) \in Nat
<1>1. h.error_responses \in Seq(Messages) /\ h.outgoing_messages \in Seq(Messages)
  BY DEF HandlerOK, Handlers
<1>2. Len(h.handled) \in Nat
  BY LenProperties DEF HandlerOK
<1>3. \A n : Count(h.error_responses, n) \in Nat /\ Count(h.outgoing_messages, n) \in Nat
  BY <1>1, CountFinite
<1> QED
  BY <1>1, <1>2, <1>3 DEF AnswersOf

LEMMA QuietReplies ==
    ASSUME NEW h, HandlerOK(h)
    PROVE  Quiet(h) \subseteq Replies(h, 0)
<1> SUFFICES ASSUME NEW g \in Quiet(h) PROVE g \in Replies(h, 0)
  OBVIOUS
<1>1. g \in Handlers(h.handled) /\ \A n : AnswersOf(g, n) = AnswersOf(h, n)
  BY DEF Quiet, AnswersOf
<1>2. \A n : AnswersOf(h, n) \in Nat
  BY HandlerFacts
<1>3. \A n \in Nat \ {0} :
         AnswersOf(g, n) = AnswersOf(h, n) + (IF n = Len(h.handled) THEN 0 ELSE 0)
  BY <1>1, <1>2
<1> QED
  BY <1>1, <1>3 DEF Replies

LEMMA SayReplies ==
    ASSUME NEW h, HandlerOK(h), NEW g \in Quiet(h), NEW kind \in Says
    PROVE  Say(g, kind, 0) \in Replies(h, 0) /\ Answer(g, kind) \in Replies(h, 1)
<1> DEFINE N == Len(h.handled)
<1>1. /\ g \in Handlers(h.handled) /\ g.handled = h.handled
      /\ g.error_responses = h.error_responses /\ g.outgoing_messages = h.outgoing_messages
  BY DEF Quiet, Handlers
<1>2. /\ h.outgoing_messages \in Seq(Messages) /\ N \in Nat
      /\ \A n : Count(h.error_responses, n) \in Nat /\ Count(h.outgoing_messages, n) \in Nat
  BY HandlerFacts
<1>3. ASSUME NEW to \in Nat
      PROVE  /\ Say(g, kind, to) \in Handlers(h.handled)
             /\ \A n : AnswersOf(Say(g, kind, to), n)
                         = AnswersOf(h, n) + (IF to = n THEN 1 ELSE 0)
  <2> DEFINE m == Outgoing(kind, to)
             q == Append(h.outgoing_messages, m)
  <2>1. m \in Messages /\ m.to = to
    BY OutgoingIsMessage
  <2> HIDE DEF m
  <2>2. /\ q \in Seq(Messages)
        /\ \A n : Count(q, n) = Count(h.outgoing_messages, n) + (IF to = n THEN 1 ELSE 0)
    BY <1>2, <2>1, CountAppend
  <2>3. Say(g, kind, to) = [g EXCEPT !.outgoing_messages = q]
    BY <1>1 DEF Say, m
  <2> HIDE DEF q
  <2>4. /\ [g EXCEPT !.outgoing_messages = q] \in Handlers(h.handled)
        /\ [g EXCEPT !.outgoing_messages = q].error_responses = h.error_responses
        /\ [g EXCEPT !.outgoing_messages = q].outgoing_messages = q
    BY <1>1, <2>2 DEF Handlers
  <2>5. \A n : Count(h.error_responses, n) + Count(q, n)
                 = Count(h.error_responses, n) + Count(h.outgoing_messages, n)
                     + (IF to = n THEN 1 ELSE 0)
    BY <1>2, <2>2
  <2> QED
    BY <2>3, <2>4, <2>5 DEF AnswersOf
<1>4. Say(g, kind, 0) \in Replies(h, 0)
  <2>1. \A n \in Nat \ {0} : AnswersOf(Say(g, kind, 0), n)
                               = AnswersOf(h, n) + (IF n = N THEN 0 ELSE 0)
    BY <1>3
  <2> QED
    BY <1>3, <2>1 DEF Replies
<1>5. Answer(g, kind) \in Replies(h, 1)
  <2>1. Answer(g, kind) = Say(g, kind, N)
    BY <1>1 DEF Answer
  <2>2. \A n \in Nat \ {0} : AnswersOf(Say(g, kind, N), n)
                               = AnswersOf(h, n) + (IF n = N THEN 1 ELSE 0)
    BY <1>2, <1>3
  <2> QED
    BY <1>2, <1>3, <2>1, <2>2 DEF Replies
<1> QED
  BY <1>4, <1>5

LEMMA ErrorReplies ==
    ASSUME NEW h, HandlerOK(h), NEW kind \in Says
    PROVE  Error(h, kind) \in Replies(h, 1)
<1> DEFINE N == Len(h.handled)
           m == Outgoing(kind, N)
           q == Append(h.error_responses, m)
<1>1. /\ h.error_responses \in Seq(Messages) /\ N \in Nat
      /\ \A n : Count(h.error_responses, n) \in Nat /\ Count(h.outgoing_messages, n) \in Nat
  BY HandlerFacts
<1>2. m \in Messages /\ m.to = N
  BY <1>1, OutgoingIsMessage
<1>3. h \in Handlers(h.handled) /\ Error(h, kind) = [h EXCEPT !.error_responses = q]
  BY DEF Error, HandlerOK, Handlers
<1> HIDE DEF m, N
<1>4. /\ q \in Seq(Messages)
      /\ \A n : Count(q, n) = Count(h.error_responses, n) + (IF N = n THEN 1 ELSE 0)
  BY <1>1, <1>2, CountAppend
<1> HIDE DEF q
<1>5. /\ [h EXCEPT !.error_responses = q] \in Handlers(h.handled)
      /\ [h EXCEPT !.error_responses = q].error_responses = q
      /\ [h EXCEPT !.error_responses = q].outgoing_messages = h.outgoing_messages
  BY <1>3, <1>4 DEF Handlers
<1>6. \A n : Count(q, n) + Count(h.outgoing_messages, n)
               = Count(h.error_responses, n) + Count(h.outgoing_messages, n)
                   + (IF n = N THEN 1 ELSE 0)
  BY <1>1, <1>4
<1> QED
  BY <1>3, <1>5, <1>6 DEF AnswersOf, Replies, N

\* Every message is answered as often as it should be: once, or not at all.
LEMMA DispatchReplies ==
    ASSUME NEW h, HandlerOK(h), NEW m \in Kinds
    PROVE  Dispatch(h, m) \in Replies(h, AnswersTo(m))
<1>1. /\ m.json \in {"object", "array", "broken"}
      /\ m.error \in {"none", "good", "malformed"} /\ m.result \in BOOLEAN
      /\ m.id \in {"none", "1", "number", "string", "object", "broken"}
      /\ m.settings \in Seq(STRING)
  BY DEF Kinds
<1>2. h \in Quiet(h) /\ Quiet(h) \subseteq Replies(h, 0)
  BY QuietReplies DEF HandlerOK, Quiet
<1>3. \A kind \in Says : Error(h, kind) \in Replies(h, 1)
  BY ErrorReplies
<1>4. CASE ParseError(m)
  <2>1. Dispatch(h, m) = Error(h, "parse_error")
    BY <1>4 DEF Dispatch, ParseError, Malformed
  <2>2. AnswersTo(m) = 1
    BY <1>4 DEF AnswersTo, WellFormed, ParseError
  <2> QED
    BY <1>3, <2>1, <2>2 DEF Says
<1>5. CASE ~ParseError(m) /\ m.json = "array"
  <2>1. Dispatch(h, m) = Error(h, "no_batches")
    BY <1>5 DEF Dispatch, ParseError, Malformed
  <2>2. AnswersTo(m) = 1
    BY <1>5 DEF AnswersTo, WellFormed
  <2> QED
    BY <1>3, <2>1, <2>2 DEF Says
<1>6. CASE m.json = "object" /\ m.id # "broken" /\ Malformed(m)
  <2>1. Dispatch(h, m) = Error(h, "invalid_request")
    BY <1>6 DEF Dispatch, ParseError
  <2>2. AnswersTo(m) = 1
    BY <1>6 DEF AnswersTo, WellFormed, Malformed
  <2> QED
    BY <1>3, <2>1, <2>2 DEF Says
<1>7. CASE m.json = "object" /\ m.id # "broken" /\ ~Malformed(m)
  <2> DEFINE request == Has(m) = Shape(TRUE, TRUE, FALSE, FALSE)
             failure == Has(m) = Shape(TRUE, FALSE, TRUE, FALSE) /\ m.id # "string"
             response == Has(m) = Shape(TRUE, FALSE, FALSE, TRUE) /\ m.id # "string"
             notification == Has(m) = Shape(FALSE, TRUE, FALSE, FALSE)
  <2>1. Dispatch(h, m) = CASE request -> HandleRequest(h, m)
                           [] failure -> h
                           [] response -> HandleResponse(h, m)
                           [] notification -> HandleNotification(h, m)
                           [] OTHER -> Error(h, "invalid_request")
    BY <1>7 DEF Dispatch, ParseError
  <2>2. /\ request <=> m.id # "none" /\ m.method # "none" /\ m.error = "none" /\ ~m.result
        /\ failure <=> m.id # "none" /\ m.method = "none" /\ m.error # "none" /\ ~m.result
                       /\ m.id # "string"
        /\ response <=> m.id # "none" /\ m.method = "none" /\ m.error = "none" /\ m.result
                        /\ m.id # "string"
        /\ notification <=> m.id = "none" /\ m.method # "none" /\ m.error = "none" /\ ~m.result
    BY <1>1 DEF Has, Shape
  <2>3. /\ request <=> IsRequest(m)
        /\ failure \/ response <=> IsResponse(m)
        /\ notification <=> IsNotification(m)
        /\ WellFormed(m)
    BY <1>1, <1>7, <2>2 DEF IsRequest, IsResponse, IsNotification, WellFormed, Malformed
  <2>4. /\ request => ~failure /\ ~response /\ ~notification
        /\ failure => ~response /\ ~notification
        /\ response => ~notification
    BY <2>2
  <2> HIDE DEF request, failure, response, notification
  <2>5. ProcessNotification(h, m.settings) \in Quiet(h)
    BY <1>1, ProcessNotificationIsQuiet
  <2>6. CASE request
    <3>1. Dispatch(h, m) = HandleRequest(h, m)
      BY <2>1, <2>4, <2>6
    <3>2. AnswersTo(m) = IF m.method = "initialize" /\ ~GoodSettings(m.settings) THEN 0 ELSE 1
      BY <2>3, <2>4, <2>6 DEF AnswersTo
    <3>3. CASE m.method = "initialize"
      <4>1. Dispatch(h, m) = Initialize(h, m)
        BY <3>1, <3>3 DEF HandleRequest
      <4>2. CASE GoodSettings(m.settings)
        <5>1. Answer(ProcessNotification(h, m.settings), "result") \in Replies(h, 1)
          BY <2>5, SayReplies DEF Says
        <5> QED
          BY <3>2, <4>1, <4>2, <5>1 DEF Initialize
      <4>3. CASE ~GoodSettings(m.settings)
        BY <1>2, <2>5, <3>2, <3>3, <4>1, <4>3 DEF Initialize
      <4> QED
        BY <4>2, <4>3
    <3>4. CASE m.method = "shutdown"
      <4> DEFINE a == Answer(h, "result")
      <4>1. Dispatch(h, m) = [a EXCEPT !.shutdown_requested = TRUE]
        BY <3>1, <3>4 DEF HandleRequest, Shutdown
      <4>2. a \in Replies(h, 1)
        BY <1>2, SayReplies DEF Says
      <4> HIDE DEF a
      <4>3. [a EXCEPT !.shutdown_requested = TRUE] \in Replies(h, 1)
        BY <4>2 DEF Replies, Handlers, AnswersOf
      <4> QED
        BY <3>2, <3>4, <4>1, <4>3
    <3>5. CASE m.method # "initialize" /\ m.method # "shutdown"
      <4>1. Answer(h, "method_not_found") \in Replies(h, 1)
        BY <1>2, SayReplies DEF Says
      <4> QED
        BY <3>1, <3>2, <3>5, <4>1 DEF HandleRequest
    <3> QED
      BY <3>3, <3>4, <3>5
  <2>7. CASE failure
    <3>1. Dispatch(h, m) = h
      BY <2>1, <2>4, <2>7
    <3>2. AnswersTo(m) = 0
      BY <2>3, <2>4, <2>7 DEF AnswersTo
    <3> QED
      BY <1>2, <3>1, <3>2
  <2>8. CASE response
    <3>1. Dispatch(h, m) = HandleResponse(h, m)
      BY <2>1, <2>4, <2>8
    <3>2. AnswersTo(m) = 0
      BY <2>3, <2>4, <2>8 DEF AnswersTo
    <3>3. m.settings # << >> => m.settings[1] \in STRING
      <4>1. m.settings # << >> => 1 \in 1 .. Len(m.settings)
        BY <1>1, EmptySeq, LenProperties
      <4> QED
        BY <1>1, <4>1, ElementOfSeq
    <3>4. HandleResponse(h, m) \in Quiet(h)
      BY <1>2, <3>3, SetTracingDirectoryIsQuiet DEF HandleResponse, ProcessResponse
    <3> QED
      BY <1>2, <3>1, <3>2, <3>4
  <2>9. CASE notification
    <3>1. Dispatch(h, m) = HandleNotification(h, m)
      BY <2>1, <2>4, <2>9
    <3>2. AnswersTo(m) = 0
      BY <2>3, <2>4, <2>9 DEF AnswersTo
    <3>3. \A kind \in Says : Say(h, kind, 0) \in Replies(h, 0)
      BY <1>2, SayReplies
    <3>4. Exit(h) \in Replies(h, 0)
      <4>1. Exit(h) \in Quiet(h)
        BY DEF Exit, Quiet, Handlers, HandlerOK
      <4> QED
        BY <1>2, <4>1
    <3>5. [Say(h, "diagnostics", 0) EXCEPT !.watch_errors = TRUE] \in Replies(h, 0)
      <4> DEFINE a == Say(h, "diagnostics", 0)
      <4>1. a \in Replies(h, 0)
        BY <3>3 DEF Says
      <4> HIDE DEF a
      <4>2. [a EXCEPT !.watch_errors = TRUE] \in Replies(h, 0)
        BY <4>1 DEF Replies, Handlers, AnswersOf
      <4> QED
        BY <4>2 DEF a
    <3>6. HandleNotification(h, m) \in Replies(h, 0)
      BY <1>2, <2>5, <3>3, <3>4, <3>5 DEF HandleNotification, Says
    <3> QED
      BY <3>1, <3>2, <3>6
  <2>10. CASE ~request /\ ~failure /\ ~response /\ ~notification
    <3>1. Dispatch(h, m) = Error(h, "invalid_request")
      BY <2>1, <2>10
    <3>2. AnswersTo(m) = 1
      BY <2>3, <2>10 DEF AnswersTo
    <3> QED
      BY <1>3, <3>1, <3>2 DEF Says
  <2> QED
    BY <2>6, <2>7, <2>8, <2>9, <2>10
<1> QED
  BY <1>1, <1>4, <1>5, <1>6, <1>7 DEF ParseError
-----------------------------------------------------------------------------
(* Messages that wait with the handler are accounted for, like those that were sent. *)

NothingQueued ==
    pc \in {"read", "poll"} =>
        handler.error_responses = << >> /\ handler.outgoing_messages = << >>

Due(handled, n) == IF n <= Len(handled) THEN AnswersTo(Json(handled[n])) ELSE 0
AllAnswered ==
    \A n \in Nat \ {0} : Count(sent, n) + AnswersOf(handler, n) = Due(handler.handled, n)

SessionInv ==
    /\ OutputType /\ OutputInOrder
    /\ HandlerOK(handler)
    /\ NothingQueued
    /\ AllAnswered

LEMMA JsonType == ASSUME SessionAssumption, NEW content PROVE Json(content) \in Kinds
<1>1. << >> \in Seq(STRING)
  BY EmptySeq
<1>2. NotJson \in Kinds
  BY <1>1 DEF NotJson, Kinds
<1> QED
  BY <1>2 DEF Json, SessionAssumption

\* A handler is given one more message.
Given(h, content) == [h EXCEPT !.handled = Append(h.handled, content)]

LEMMA GivenMessage ==
    ASSUME NEW h, HandlerOK(h), NEW content, NEW g, g = Given(h, content)
    PROVE  /\ HandlerOK(g)
           /\ Len(h.handled) \in Nat /\ Len(g.handled) = Len(h.handled) + 1
           /\ g.handled[Len(h.handled) + 1] = content
           /\ \A n \in 1 .. Len(h.handled) : g.handled[n] = h.handled[n]
           /\ \A n : AnswersOf(g, n) = AnswersOf(h, n)
<1> DEFINE s == h.handled
           t == Append(s, content)
           C == Range(s) \cup {content}
<1>1. s \in Seq(Range(s))
  BY DEF HandlerOK
<1>2. /\ t \in Seq(C) /\ Len(s) \in Nat /\ Len(t) = Len(s) + 1
      /\ t[Len(s) + 1] = content /\ \A n \in 1 .. Len(s) : t[n] = s[n]
  <2> HIDE DEF C, s
  <2>1. Range(s) \subseteq C /\ content \in C
    BY DEF C
  <2>2. s \in Seq(C)
    BY <1>1, <2>1, SeqMonotonic
  <2> QED
    BY <2>1, <2>2, AppendProperties, LenProperties
<1>3. t \in Seq(Range(t))
  <2> HIDE DEF t, C
  <2> QED
    BY <1>2, SeqOfRange
<1> HIDE DEF t
<1>4. /\ g \in Handlers(t) /\ g.handled = t
      /\ g.error_responses = h.error_responses /\ g.outgoing_messages = h.outgoing_messages
  BY DEF HandlerOK, Handlers, Given, t
<1> QED
  BY <1>2, <1>3, <1>4 DEF HandlerOK, AnswersOf

LEMMA HandleStep ==
    ASSUME SessionAssumption, SessionInv, HandleMessage
    PROVE  /\ HandlerOK(handler)' /\ AllAnswered'
           /\ handler'.handled = Append(handler.handled, ParsedContent)
<1> DEFINE c == ParsedContent
           g == Given(handler, c)
           N == Len(handler.handled)
           due == AnswersTo(Json(c))
<1>1. handler' = Dispatch(g, Json(c)) /\ UNCHANGED sent
  BY DEF HandleMessage, MessageParsed, Given, output
<1>2. HandlerOK(handler) /\ sent \in Seq(Messages)
  BY DEF SessionInv, OutputType
<1> HIDE DEF c
<1>3. /\ HandlerOK(g) /\ N \in Nat /\ Len(g.handled) = N + 1 /\ g.handled[N + 1] = c
      /\ \A n \in 1 .. N : g.handled[n] = handler.handled[n]
      /\ \A n : AnswersOf(g, n) = AnswersOf(handler, n)
  BY <1>2, GivenMessage
<1>handled. g.handled = Append(handler.handled, c)
  <2> HIDE DEF c
  <2> QED
    BY <1>2 DEF Given, HandlerOK, Handlers
<1> HIDE DEF g, N
<1>4. handler' \in Replies(g, due)
  BY <1>1, <1>3, JsonType, DispatchReplies
<1>5. HandlerOK(handler)' /\ handler'.handled = g.handled
  BY <1>3, <1>4 DEF Replies, HandlerOK, Handlers
<1>6. due \in Nat
  BY DEF AnswersTo
<1>7. ASSUME NEW n \in Nat \ {0}
      PROVE  Count(sent, n) + AnswersOf(handler', n) = Due(g.handled, n)
  <2>1. Count(sent, n) \in Nat /\ AnswersOf(handler, n) \in Nat
    BY <1>2, CountFinite, HandlerFacts
  <2>2. AnswersOf(handler', n) = AnswersOf(handler, n) + (IF n = N + 1 THEN due ELSE 0)
    BY <1>3, <1>4 DEF Replies
  <2>3. Count(sent, n) + AnswersOf(handler, n) = Due(handler.handled, n)
    BY DEF SessionInv, AllAnswered
  <2>4. CASE n <= N
    <3>1. n # N + 1 /\ n \in 1 .. N /\ n <= N + 1
      BY <1>3, <2>4
    <3>2. Due(g.handled, n) = Due(handler.handled, n)
      BY <1>3, <2>4, <3>1 DEF Due, N
    <3> QED
      BY <2>1, <2>2, <2>3, <3>1, <3>2
  <2>5. CASE n = N + 1
    <3>1. ~(n <= N) /\ n <= N + 1
      BY <1>3, <2>5
    <3>2. Due(handler.handled, n) = 0 /\ Due(g.handled, n) = due
      BY <1>3, <2>5, <3>1 DEF Due, N
    <3> QED
      BY <1>6, <2>1, <2>2, <2>3, <2>5, <3>2
  <2>6. CASE ~(n <= N + 1)
    <3>1. ~(n <= N) /\ n # N + 1
      BY <1>3, <2>6
    <3>2. Due(handler.handled, n) = 0 /\ Due(g.handled, n) = 0
      BY <1>3, <2>6, <3>1 DEF Due, N
    <3> QED
      BY <2>1, <2>2, <2>3, <3>1, <3>2
  <2> QED
    BY <1>3, <2>4, <2>5, <2>6
<1> QED
  BY <1>1, <1>handled, <1>5, <1>7 DEF AllAnswered, c

LEMMA FlushStep ==
    ASSUME SessionAssumption, SessionInv, FlushMessages
    PROVE  SessionInv' /\ handler'.handled = handler.handled
<1> DEFINE w == AddWatchIoErrors(handler)
           messages == handler.error_responses \o w.outgoing_messages
           g == [w EXCEPT !.error_responses = << >>, !.outgoing_messages = << >>]
<1>1. /\ Write(messages) /\ handler' = g /\ pc' = "poll" /\ UNCHANGED received
  BY DEF FlushMessages
<1>2. /\ OutputType /\ OutputInOrder /\ HandlerOK(handler) /\ sent \in Seq(Messages)
      /\ \A n \in Nat \ {0} : Count(sent, n) + AnswersOf(handler, n) = Due(handler.handled, n)
  BY DEF SessionInv, OutputType, AllAnswered
<1>3. w \in Replies(handler, 0) /\ w.error_responses = handler.error_responses
  <2> DEFINE taken == [handler EXCEPT !.watch_errors = FALSE]
             said == Say(taken, "show_message", 0)
  <2>1. taken \in Quiet(handler)
    BY <1>2 DEF HandlerOK, Quiet, Handlers
  <2>2. taken \in Replies(handler, 0)
    BY <1>2, <2>1, QuietReplies
  <2>3. said \in Replies(handler, 0)
    <3> HIDE DEF taken
    <3> QED
      BY <1>2, <2>1, SayReplies DEF Says
  <2>4. said.error_responses = handler.error_responses
    BY <2>1 DEF Say, Quiet, Handlers
  <2> HIDE DEF said
  <2>5. [said EXCEPT !.did_report_watch_io_error = TRUE] \in Replies(handler, 0)
    BY <2>3 DEF Replies, Handlers, AnswersOf
  <2>6. [said EXCEPT !.did_report_watch_io_error = TRUE].error_responses = handler.error_responses
    BY <2>3, <2>4 DEF Replies, Handlers
  <2>7. taken.error_responses = handler.error_responses
    BY <2>1 DEF Quiet
  <2> QED
    BY <2>2, <2>5, <2>6, <2>7 DEF AddWatchIoErrors, said
<1> HIDE DEF w
<1>4. /\ w \in Handlers(handler.handled) /\ w.handled = handler.handled
      /\ handler.error_responses \in Seq(Messages) /\ w.outgoing_messages \in Seq(Messages)
  BY <1>2, <1>3, HandlerFacts DEF Replies, Handlers
<1>5. messages \in Seq(Messages)
      /\ \A n : Count(messages, n) = Count(handler.error_responses, n)
                                       + Count(w.outgoing_messages, n)
  BY <1>4, CountConcat
<1> HIDE DEF messages
<1>6. OutputType' /\ OutputInOrder'
  BY <1>1, <1>2, <1>5, WriteMessages
<1>7. g \in Handlers(handler.handled) /\ g.handled = handler.handled
      /\ g.error_responses = << >> /\ g.outgoing_messages = << >>
  <2>1. << >> \in Seq(Messages)
    BY EmptySeq
  <2> QED
    BY <1>4, <2>1 DEF Handlers
<1> HIDE DEF g
<1>8. HandlerOK(handler)' /\ NothingQueued'
  BY <1>1, <1>2, <1>7 DEF HandlerOK, NothingQueued
<1>9. ASSUME NEW n \in Nat \ {0}
      PROVE  Count(sent', n) + AnswersOf(g, n) = Due(handler.handled, n)
  <2>1. sent' = sent \o messages
    BY <1>1 DEF Write
  <2>2. Count(sent', n) = Count(sent, n) + Count(messages, n)
    BY <1>2, <1>5, <2>1, CountConcat
  <2>3. AnswersOf(w, n) = AnswersOf(handler, n)
    <3>1. AnswersOf(handler, n) \in Nat
      BY <1>2, HandlerFacts
    <3>2. AnswersOf(w, n) = AnswersOf(handler, n) + (IF n = Len(handler.handled) THEN 0 ELSE 0)
      BY <1>3 DEF Replies
    <3> QED
      BY <3>1, <3>2
  <2>4. Count(messages, n) = AnswersOf(handler, n)
    BY <1>3, <1>5, <2>3 DEF AnswersOf
  <2>5. AnswersOf(g, n) = 0
    BY <1>7, CountEmpty DEF AnswersOf
  <2>6. Count(sent, n) \in Nat /\ AnswersOf(handler, n) \in Nat
    BY <1>2, CountFinite, HandlerFacts
  <2> QED
    BY <1>2, <2>2, <2>4, <2>5, <2>6
<1>10. AllAnswered'
  BY <1>1, <1>7, <1>9 DEF AllAnswered
<1> QED
  BY <1>1, <1>6, <1>7, <1>8, <1>10 DEF SessionInv

\* A change of the file system makes the handler say something that answers nothing.
LEMMA FilesystemChangedStep ==
    ASSUME SessionAssumption, SessionInv, PollOthers, FilesystemChanged
    PROVE  SessionInv' /\ handler'.handled = handler.handled
<1>1. PICK diagnostics \in {<< >>, <<Outgoing("diagnostics", 0)>>}, failed \in BOOLEAN :
         /\ handler' = [handler EXCEPT !.watch_errors = @ \/ failed]
         /\ Write(diagnostics)
  BY DEF FilesystemChanged
<1>2. /\ OutputType /\ OutputInOrder /\ HandlerOK(handler) /\ sent \in Seq(Messages)
      /\ \A n \in Nat \ {0} : Count(sent, n) + AnswersOf(handler, n) = Due(handler.handled, n)
      /\ handler.error_responses = << >> /\ handler.outgoing_messages = << >>
  BY DEF SessionInv, OutputType, AllAnswered, NothingQueued, PollOthers
<1>3. diagnostics \in Seq(Messages) /\ \A n \in Nat \ {0} : Count(diagnostics, n) = 0
  <2> DEFINE m == Outgoing("diagnostics", 0)
  <2>1. m \in Messages /\ m.to = 0
    BY OutgoingIsMessage DEF Says
  <2> HIDE DEF m
  <2>2. << >> \in Seq(Messages) /\ \A n : Count(<< >>, n) = 0
    BY EmptySeq, CountEmpty
  <2>3. <<m>> = Append(<< >>, m)
    OBVIOUS
  <2>4. <<m>> \in Seq(Messages) /\ \A n \in Nat \ {0} : Count(<<m>>, n) = 0
    <3> DEFINE e == << >>
               s == Append(e, m)
    <3>1. e \in Seq(Messages) /\ \A n : Count(e, n) = 0
      BY <2>2
    <3> HIDE DEF e
    <3>2. s \in Seq(Messages) /\ \A n : Count(s, n) = Count(e, n) + (IF m.to = n THEN 1 ELSE 0)
      BY <2>1, <3>1, CountAppend
    <3> HIDE DEF s
    <3>3. s \in Seq(Messages) /\ \A n \in Nat \ {0} : Count(s, n) = 0
      BY <2>1, <3>1, <3>2
    <3> QED
      BY <2>3, <3>3 DEF s, e
  <2> QED
    BY <2>2, <2>4 DEF m
<1>4. OutputType' /\ OutputInOrder'
  <2>1. UNCHANGED received
    BY DEF PollOthers
  <2> QED
    BY <1>1, <1>2, <1>3, <2>1, WriteMessages
<1>5. /\ handler' \in Handlers(handler.handled) /\ handler'.handled = handler.handled
      /\ handler'.error_responses = << >> /\ handler'.outgoing_messages = << >>
  <2> DEFINE e == handler.watch_errors \/ failed
  <2>1. e \in BOOLEAN /\ handler' = [handler EXCEPT !.watch_errors = e]
    BY <1>1
  <2> HIDE DEF e
  <2> QED
    BY <1>2, <2>1 DEF HandlerOK, Handlers
<1>6. HandlerOK(handler)' /\ NothingQueued'
  BY <1>2, <1>5 DEF HandlerOK, NothingQueued
<1>7. ASSUME NEW n \in Nat \ {0}
      PROVE  Count(sent', n) + AnswersOf(handler', n) = Due(handler.handled, n)
  <2>1. sent' = sent \o diagnostics
    BY <1>1 DEF Write
  <2>2. Count(sent', n) = Count(sent, n) + Count(diagnostics, n)
    BY <1>2, <1>3, <2>1, CountConcat
  <2>3. AnswersOf(handler', n) = AnswersOf(handler, n)
    BY <1>2, <1>5 DEF AnswersOf
  <2>4. Count(sent, n) \in Nat
    BY <1>2, CountFinite
  <2> QED
    BY <1>2, <1>3, <2>2, <2>3, <2>4
<1>8. AllAnswered'
  BY <1>5, <1>7 DEF AllAnswered
<1> QED
  BY <1>4, <1>5, <1>6, <1>8 DEF SessionInv

LEMMA SessionInit == ASSUME SessionAssumption, Init PROVE SessionInv
<1>1. << >> \in Seq(Parts) /\ << >> \in Seq(Messages) /\ Len(<< >>) = 0
  BY EmptySeq
<1>2. << >> \o << >> = << >>
  BY <1>1, ConcatEmptySeq
<1>3. AllBytes(<< >>) = << >>
  BY DEF AllBytes, FlattenSeq
<1>4. OutputType /\ OutputInOrder
  <2>1. received = << >> /\ out_pipe = << >> /\ pending_ = << >> /\ sent = << >>
    BY DEF Init
  <2>2. received \o out_pipe \o pending_ = << >>
    BY <1>2, <2>1
  <2>3. OutputInOrder
    BY <1>3, <2>1, <2>2 DEF OutputInOrder
  <2>4. Len(out_pipe) <= OutCapacity
    BY <1>1, <2>1 DEF SessionAssumption
  <2> QED
    BY <1>1, <2>1, <2>3, <2>4 DEF OutputType
<1>5. handler.handled = << >> /\ handler.error_responses = << >>
      /\ handler.outgoing_messages = << >> /\ sent = << >>
  BY DEF Init
<1>6. HandlerOK(handler)
  <2>1. << >> \in Seq(Range(<< >>))
    BY EmptySeq
  <2>2. handler \in Handlers(<< >>)
    BY <1>1 DEF Init, Handlers, Backends
  <2> QED
    BY <1>5, <2>1, <2>2 DEF HandlerOK
<1>7. NothingQueued
  BY <1>5 DEF NothingQueued
<1>8. AllAnswered
  <2>1. ASSUME NEW n \in Nat \ {0}
        PROVE  Count(sent, n) + AnswersOf(handler, n) = Due(handler.handled, n)
    <3>1. Due(<< >>, n) = 0
      BY <1>1 DEF Due
    <3> QED
      BY <1>5, <3>1, CountEmpty DEF AnswersOf
  <2> QED
    BY <2>1 DEF AllAnswered
<1> QED
  BY <1>4, <1>6, <1>7, <1>8 DEF SessionInv

LEMMA SessionStep == ASSUME SessionAssumption, SessionInv, [Next]_vars PROVE SessionInv'
<1>1. /\ OutputType /\ OutputInOrder /\ HandlerOK(handler) /\ NothingQueued /\ AllAnswered
  BY DEF SessionInv
<1>2. ASSUME UNCHANGED output, UNCHANGED received
      PROVE  OutputType' /\ OutputInOrder'
  BY <1>1, <1>2 DEF output, OutputType, OutputInOrder
<1>3. ASSUME UNCHANGED <<handler, sent>>
      PROVE  HandlerOK(handler)' /\ AllAnswered'
  BY <1>1, <1>3 DEF HandlerOK, AllAnswered, Due
<1>4. ASSUME UNCHANGED handler,
             pc' \in {"read", "poll"} => pc \in {"read", "poll"}
      PROVE  NothingQueued'
  BY <1>1, <1>4 DEF NothingQueued
<1>5. CASE ReadChunk
  BY <1>2, <1>3, <1>4, <1>5 DEF ReadChunk, output, SessionInv
<1>6. CASE ReadNothing
  BY <1>2, <1>3, <1>4, <1>6 DEF ReadNothing, output, SessionInv
<1>7. CASE ReadEof
  BY <1>2, <1>3, <1>4, <1>7 DEF ReadEof, output, SessionInv
<1>8. CASE HandleMessage
  <2>1. NothingQueued'
    BY <1>8 DEF HandleMessage, NothingQueued
  <2> QED
    BY <1>2, <1>8, <2>1, HandleStep DEF HandleMessage, SessionInv
<1>9. CASE PassHeaders
  BY <1>2, <1>3, <1>4, <1>9 DEF PassHeaders, output, SessionInv
<1>10. CASE FlushMessages
  BY <1>10, FlushStep
<1>11. CASE PollReadable
  BY <1>2, <1>3, <1>4, <1>11 DEF PollReadable, output, SessionInv
<1>12. CASE PollOthers
  <2>1. CASE FilesystemChanged
    BY <1>12, <2>1, FilesystemChangedStep
  <2>2. CASE PipeWriteEvent /\ UNCHANGED handler
    <3>1. OutputType' /\ OutputInOrder' /\ UNCHANGED sent
      <4>1. UNCHANGED received
        BY <1>12 DEF PollOthers
      <4>2. CASE WriteAsMuchAsPossible(pending_) /\ UNCHANGED sent
        BY <1>1, <4>1, <4>2, WriteMore
      <4>3. CASE UNCHANGED output
        BY <1>2, <4>1, <4>3 DEF output
      <4> QED
        BY <2>2, <4>2, <4>3 DEF PipeWriteEvent
    <3> QED
      BY <1>3, <1>4, <1>12, <2>2, <3>1 DEF PollOthers, SessionInv
  <2> QED
    BY <1>12, <2>1, <2>2 DEF PollOthers
<1>13. CASE ClientWrite
  BY <1>2, <1>3, <1>4, <1>13 DEF ClientWrite, output, SessionInv
<1>14. CASE ClientClose
  BY <1>2, <1>3, <1>4, <1>14 DEF ClientClose, output, SessionInv
<1>15. CASE ClientRead
  <2>1. OutputType' /\ OutputInOrder'
    BY <1>1, <1>15, ReadByClient DEF ClientRead
  <2> QED
    BY <1>3, <1>4, <1>15, <2>1 DEF ClientRead, SessionInv
<1>16. CASE FsChange
  BY <1>2, <1>3, <1>4, <1>16 DEF FsChange, output, SessionInv
<1>17. CASE UNCHANGED vars
  BY <1>2, <1>3, <1>4, <1>17 DEF vars, output, SessionInv
<1> QED
  BY <1>5, <1>6, <1>7, <1>8, <1>9, <1>10, <1>11, <1>12, <1>13, <1>14, <1>15, <1>16, <1>17
     DEF Next, Loop

LEMMA SessionInvariant == Spec => []SessionInv
<1>1. Init => SessionInv
  BY SessionAssumption, SessionInit
<1>2. SessionInv /\ [Next]_vars => SessionInv'
  BY SessionAssumption, SessionStep
<1> QED
  BY <1>1, <1>2, PTL DEF Spec

-----------------------------------------------------------------------------
(* The client reads whole messages in the order they were sent, for any capacity of the pipes: *)
(* OutputIsInOrder, of Non_Blocking_Pipe_Writer and the queues of the handler. *)
THEOREM SessionOutputIsInOrder == Spec => []OutputIsInOrder
<1>1. SessionInv => OutputIsInOrder
  BY DEF SessionInv, OutputInOrder, OutputIsInOrder, AllBytes
<1> QED
  BY <1>1, SessionInvariant, PTL

(* Every message is answered exactly as often as it should be, for any streams of frames, in *)
(* whatever pieces they come: AnsweredOnce, of the JSON-RPC dispatch and the handlers. *)
THEOREM SessionAnswersOnce == Spec => []AnsweredOnce
<1>1. SessionInv => AnsweredOnce
  <2> SUFFICES ASSUME SessionInv, NEW n \in 1 .. Len(handler.handled)
               PROVE  IF Settled THEN Count(sent, n) = AnswersTo(Json(handler.handled[n]))
                      ELSE Count(sent, n) <= AnswersTo(Json(handler.handled[n]))
    BY DEF AnsweredOnce, Count
  <2>1. HandlerOK(handler) /\ sent \in Seq(Messages)
    BY DEF SessionInv, OutputType
  <2>2. n \in Nat \ {0} /\ n <= Len(handler.handled)
    BY <2>1, HandlerFacts
  <2>3. Count(sent, n) + AnswersOf(handler, n) = AnswersTo(Json(handler.handled[n]))
    BY <2>2 DEF SessionInv, AllAnswered, Due
  <2>4. Count(sent, n) \in Nat /\ AnswersOf(handler, n) \in Nat
    BY <2>1, CountFinite, HandlerFacts
  <2>5. Settled => AnswersOf(handler, n) = 0
    BY CountEmpty DEF Settled, SessionInv, NothingQueued, AnswersOf
  <2> QED
    BY <2>3, <2>4, <2>5
<1> QED
  BY <1>1, SessionInvariant, PTL

-----------------------------------------------------------------------------
(* LspDocumentText. *)

\* What holds of the last number, and of each number if of all after it.
LEMMA DownTo ==
    ASSUME NEW a \in Int, NEW b \in Int, NEW P, \A k \in a .. b : k + 1 .. b \subseteq P => k \in P
    PROVE  a .. b \subseteq P
<1> DEFINE n == b - a + 1
           Q == {k \in 0 .. n : b - k + 1 .. b \subseteq P}
<1>1. CASE a > b
  BY <1>1
<1>2. CASE a <= b
  <2>1. n \in Nat /\ a = b - n + 1
    BY <1>2
  <2>2. 0 \in Q
    BY <2>1
  <2>3. ASSUME NEW k \in 1 .. n, k - 1 \in Q PROVE k \in Q
    <3> DEFINE m == b - k + 1
    <3>1. m \in a .. b /\ k - 1 \in 0 .. n /\ b - (k - 1) + 1 = m + 1 /\ k \in 0 .. n
      BY <2>1
    <3>2. m + 1 .. b \subseteq P
      BY <2>3, <3>1
    <3>3. m \in P
      BY <3>1, <3>2
    <3> HIDE DEF m
    <3>4. m .. b \subseteq P
      <4> SUFFICES ASSUME NEW i \in m .. b PROVE i \in P
        OBVIOUS
      <4>1. i = m \/ i \in m + 1 .. b
        BY <3>1
      <4> QED
        BY <3>2, <3>3, <4>1
    <3> QED
      BY <3>1, <3>4 DEF m
  <2> HIDE DEF Q
  <2>4. n \in Q
    BY <2>1, <2>2, <2>3, UpTo
  <2> QED
    BY <2>1, <2>4 DEF Q
<1> QED
  BY <1>1, <1>2

\* Functions on a .. b whose values are computed from the values after them.
DownChains(a, b, S, step) == {f \in [a .. b -> S] : \A k \in a .. b : f[k] = step[<<k, f>>]}
LooksAhead(a, b, S, step) ==
    \A k \in a .. b : \A f, g \in [a .. b -> S] :
        (\A j \in k + 1 .. b : f[j] = g[j]) => step[<<k, f>>] = step[<<k, g>>]

LEMMA DownRecursion ==
    ASSUME NEW a \in Int, NEW b \in Int, NEW S, NEW base \in S,
           NEW step \in [(a .. b) \X [a .. b -> S] -> S], LooksAhead(a, b, S, step)
    PROVE  DownChains(a, b, S, step) # {}
<1> DEFINE F == [a .. b -> S]
           Q == {k \in Int : \E f \in F : \A j \in a .. b : j >= k => f[j] = step[<<j, f>>]}
           n == b - a + 1
           P == {k \in 0 .. n : b - k + 1 \in Q}
<1>1. ASSUME NEW k \in a .. b, k + 1 \in Q PROVE k \in Q
  <2>1. PICK f \in F : \A j \in a .. b : j >= k + 1 => f[j] = step[<<j, f>>]
    BY <1>1
  <2> DEFINE v == step[<<k, f>>]
             g == [f EXCEPT ![k] = v]
  <2>2. v \in S
    OBVIOUS
  <2>3. g \in F /\ g[k] = v /\ \A j \in a .. b : j # k => g[j] = f[j]
    BY <2>2
  <2>4. k \in Int /\ a .. b \subseteq Int
    OBVIOUS
  <2> HIDE DEF v, g
  <2>5. ASSUME NEW j \in a .. b, j >= k PROVE g[j] = step[<<j, g>>]
    <3>1. \A i \in j + 1 .. b : f[i] = g[i]
      <4> TAKE i \in j + 1 .. b
      <4>1. i \in a .. b /\ i # k
        BY <2>4, <2>5
      <4> QED
        BY <2>3, <4>1
    <3>2. step[<<j, f>>] = step[<<j, g>>]
      BY <2>3, <3>1 DEF LooksAhead
    <3>3. CASE j = k
      BY <2>3, <3>2, <3>3 DEF v
    <3>4. CASE j # k
      <4>1. j >= k + 1
        BY <2>4, <2>5, <3>4
      <4> QED
        BY <2>1, <2>3, <3>2, <3>4, <4>1
    <3> QED
      BY <3>3, <3>4
  <2> QED
    BY <2>3, <2>4, <2>5
<1>2. CASE a > b
  <2>1. [j \in a .. b |-> base] \in F /\ a .. b = {}
    BY <1>2
  <2> DEFINE f == [j \in a .. b |-> base]
  <2>2. \A k \in a .. b : f[k] = step[<<k, f>>]
    BY <2>1
  <2> HIDE DEF f
  <2> QED
    BY <2>1, <2>2 DEF DownChains, f
<1>3. CASE a <= b
  <2>1. n \in Nat /\ a = b - n + 1 /\ b - 0 + 1 = b + 1
    BY <1>3
  <2>2. 0 \in P
    <3> DEFINE f == [j \in a .. b |-> base]
    <3>1. f \in F /\ b + 1 \in Int /\ \A j \in a .. b : ~(j >= b + 1)
      OBVIOUS
    <3> HIDE DEF f, F
    <3>2. b + 1 \in Q
      BY <3>1
    <3> HIDE DEF Q
    <3> QED
      BY <2>1, <3>2
  <2>3. ASSUME NEW k \in 1 .. n, k - 1 \in P PROVE k \in P
    <3>1. b - k + 1 \in a .. b /\ b - (k - 1) + 1 = (b - k + 1) + 1 /\ k \in 0 .. n
      BY <2>1
    <3> HIDE DEF Q
    <3> QED
      BY <1>1, <2>3, <3>1
  <2> HIDE DEF P
  <2>4. n \in P
    BY <2>1, <2>2, <2>3, UpTo, SMTT(30)
  <2>5. a \in Q
    <3> HIDE DEF Q, n
    <3> QED
      BY <2>1, <2>4 DEF P
  <2>6. PICK f \in F : \A j \in a .. b : j >= a => f[j] = step[<<j, f>>]
    <3> HIDE DEF F
    <3> QED
      BY <2>5
  <2>7. \A j \in a .. b : j >= a
    OBVIOUS
  <2>8. \A j \in a .. b : f[j] = step[<<j, f>>]
    BY <2>6, <2>7, Zenon
  <2> QED
    BY <2>8, Zenon DEF DownChains
<1>4. a > b \/ a <= b
  OBVIOUS
<1> QED
  BY <1>2, <1>3, <1>4, Zenon
-----------------------------------------------------------------------------
(* TextBytes, characters and terminators. *)

TextBytes == {"a", "CR", "LF", "e1", "e2", "s1", "s2", "s3", "s4"}

LEMMA TextsAreBytes == \A t \in Texts \cup Replacements : t \in Seq(TextBytes)
<1>1. Ascii \cup Range(TwoBytes) \cup Range(FourBytes) \subseteq TextBytes
  BY DEF Ascii, Range, TwoBytes, FourBytes, TextBytes
<1> SUFFICES ASSUME NEW t \in Texts \cup Replacements PROVE t \in Seq(TextBytes)
  OBVIOUS
<1> DEFINE B == Ascii \cup Range(TwoBytes) \cup Range(FourBytes)
<1>2. t \in Seq(B)
  BY TextsAssumption DEF TextsAssumption
<1> HIDE DEF B
<1>3. B \subseteq TextBytes
  BY <1>1 DEF B
<1> QED
  BY <1>2, <1>3, SeqMonotonic

LEMMA StartsBytes ==
    ASSUME NEW t \in Seq(TextBytes), NEW o \in Nat, NEW c \in Seq(TextBytes)
    PROVE  Starts(t, o, c) <=> o + Len(c) <= Len(t) /\ \A i \in 1 .. Len(c) : t[o + i] = c[i]
<1> DEFINE n == Len(c)
           s == SubSeq(t, o + 1, o + n)
<1>1. n \in Nat /\ Len(t) \in Nat /\ \A i \in 1 .. Len(t) : t[i] \in TextBytes
  BY LenProperties, ElementOfSeq
<1>2. CASE o + n <= Len(t)
  <2>1. o + 1 \in Int /\ o + n \in Int /\ \A i \in o + 1 .. o + n : t[i] \in TextBytes
    BY <1>1, <1>2
  <2>2. /\ s \in Seq(TextBytes)
        /\ Len(s) = IF o + 1 <= o + n THEN (o + n) - (o + 1) + 1 ELSE 0
        /\ \A i \in 1 .. (o + n) - (o + 1) + 1 : s[i] = t[(o + 1) + i - 1]
    <3> HIDE DEF n
    <3> QED
      BY <2>1, SubSeqProperties
  <2>3. Len(s) = n /\ \A i \in 1 .. n : s[i] = t[o + i]
    <3> HIDE DEF s, n
    <3>1. (o + n) - (o + 1) + 1 = n /\ \A i \in 1 .. n : (o + 1) + i - 1 = o + i
      BY <1>1
    <3>2. Len(s) = n
      BY <1>1, <2>2, <3>1
    <3>3. ASSUME NEW i \in 1 .. n PROVE s[i] = t[o + i]
      BY <2>2, <3>1, <3>3
    <3> QED
      BY <3>2, <3>3
  <2>4. s = c <=> \A i \in 1 .. n : t[o + i] = c[i]
    <3>1. ASSUME s = c PROVE \A i \in 1 .. n : t[o + i] = c[i]
      <4> HIDE DEF s
      <4> QED
        BY <2>3, <3>1
    <3>2. ASSUME \A i \in 1 .. n : t[o + i] = c[i] PROVE s = c
      <4> HIDE DEF s
      <4> QED
        BY <2>2, <2>3, <3>2, SeqEqual
    <3> QED
      BY <3>1, <3>2
  <2> QED
    BY <1>2, <2>4 DEF Starts
<1>3. CASE ~(o + n <= Len(t))
  BY <1>3 DEF Starts
<1> QED
  BY <1>2, <1>3

LEMMA StartsFacts ==
    ASSUME NEW t \in Seq(TextBytes), NEW o \in Nat
    PROVE  /\ Starts(t, o, LF) <=> o + 1 <= Len(t) /\ t[o + 1] = "LF"
           /\ Starts(t, o, CR \o LF) <=> o + 2 <= Len(t) /\ t[o + 1] = "CR" /\ t[o + 2] = "LF"
           /\ Starts(t, o, TwoBytes) <=> o + 2 <= Len(t) /\ t[o + 1] = "e1" /\ t[o + 2] = "e2"
           /\ Starts(t, o, FourBytes) <=>
                o + 4 <= Len(t) /\ t[o + 1] = "s1" /\ t[o + 2] = "s2" /\ t[o + 3] = "s3" /\ t[o + 4] = "s4"
<1>1. /\ LF \in Seq(TextBytes) /\ Len(LF) = 1 /\ LF[1] = "LF"
      /\ TwoBytes \in Seq(TextBytes) /\ Len(TwoBytes) = 2 /\ TwoBytes[1] = "e1" /\ TwoBytes[2] = "e2"
      /\ FourBytes \in Seq(TextBytes) /\ Len(FourBytes) = 4 /\ FourBytes[1] = "s1" /\ FourBytes[2] = "s2"
      /\ FourBytes[3] = "s3" /\ FourBytes[4] = "s4"
  BY DEF LF, TwoBytes, FourBytes, TextBytes
<1>2. CR \o LF \in Seq(TextBytes) /\ Len(CR \o LF) = 2 /\ (CR \o LF)[1] = "CR" /\ (CR \o LF)[2] = "LF"
  <2>1. CR \in Seq(TextBytes) /\ Len(CR) = 1 /\ CR[1] = "CR"
    BY DEF CR, TextBytes
  <2>2. /\ CR \o LF \in Seq(TextBytes) /\ Len(CR \o LF) = Len(CR) + Len(LF)
        /\ \A i \in 1 .. Len(CR) + Len(LF) :
             (CR \o LF)[i] = IF i <= Len(CR) THEN CR[i] ELSE LF[i - Len(CR)]
    BY <1>1, <2>1, ConcatProperties
  <2>3. (CR \o LF)[1] = CR[1] /\ (CR \o LF)[2] = LF[1]
    BY <1>1, <2>1, <2>2
  <2> QED
    BY <1>1, <2>1, <2>2, <2>3
<1>3. /\ 1 .. 1 = {1} /\ 1 .. 2 = {1, 2} /\ 1 .. 4 = {1, 2, 3, 4}
  OBVIOUS
<1>4. Starts(t, o, LF) <=> o + 1 <= Len(t) /\ t[o + 1] = "LF"
  <2>1. Starts(t, o, LF) <=> o + Len(LF) <= Len(t) /\ \A i \in 1 .. Len(LF) : t[o + i] = LF[i]
    BY <1>1, StartsBytes
  <2> QED
    BY <1>1, <1>3, <2>1
<1>5. Starts(t, o, CR \o LF) <=> o + 2 <= Len(t) /\ t[o + 1] = "CR" /\ t[o + 2] = "LF"
  <2> DEFINE c == CR \o LF
  <2>1. c \in Seq(TextBytes) /\ Len(c) = 2 /\ c[1] = "CR" /\ c[2] = "LF"
    BY <1>2
  <2> HIDE DEF c
  <2>2. Starts(t, o, c) <=> o + Len(c) <= Len(t) /\ \A i \in 1 .. Len(c) : t[o + i] = c[i]
    BY <2>1, StartsBytes
  <2>3. Starts(t, o, c) <=> o + 2 <= Len(t) /\ t[o + 1] = "CR" /\ t[o + 2] = "LF"
    BY <1>3, <2>1, <2>2
  <2> QED
    BY <2>3 DEF c
<1>6. Starts(t, o, TwoBytes) <=> o + 2 <= Len(t) /\ t[o + 1] = "e1" /\ t[o + 2] = "e2"
  <2>1. Starts(t, o, TwoBytes) <=>
          o + Len(TwoBytes) <= Len(t) /\ \A i \in 1 .. Len(TwoBytes) : t[o + i] = TwoBytes[i]
    BY <1>1, StartsBytes
  <2> QED
    BY <1>1, <1>3, <2>1
<1>7. Starts(t, o, FourBytes) <=>
        o + 4 <= Len(t) /\ t[o + 1] = "s1" /\ t[o + 2] = "s2" /\ t[o + 3] = "s3" /\ t[o + 4] = "s4"
  <2>1. Starts(t, o, FourBytes) <=>
          o + Len(FourBytes) <= Len(t) /\ \A i \in 1 .. Len(FourBytes) : t[o + i] = FourBytes[i]
    BY <1>1, StartsBytes
  <2> QED
    BY <1>1, <1>3, <2>1
<1> QED
  BY <1>4, <1>5, <1>6, <1>7

LEMMA PlaceFacts ==
    ASSUME NEW t \in Seq(TextBytes), NEW o \in Nat
    PROVE  /\ AfterTerminator(t, o) <=>
                o > 0 /\ (t[o] = "LF" \/ (t[o] = "CR" /\ ~(o + 1 <= Len(t) /\ t[o + 1] = "LF")))
           /\ InsideTerminator(t, o) <=>
                o > 0 /\ o + 1 <= Len(t) /\ t[o] = "CR" /\ t[o + 1] = "LF"
           /\ InsideCharacter(t, o) <=>
                \/ o > 0 /\ Starts(t, o - 1, TwoBytes)
                \/ o > 0 /\ Starts(t, o - 1, FourBytes)
                \/ o > 1 /\ Starts(t, o - 2, FourBytes)
                \/ o > 2 /\ Starts(t, o - 3, FourBytes)
<1>1. AfterTerminator(t, o) <=>
        o > 0 /\ (t[o] = "LF" \/ (t[o] = "CR" /\ ~(o + 1 <= Len(t) /\ t[o + 1] = "LF")))
  <2>1. (o - 1) + 1 = o
    OBVIOUS
  <2> QED
    BY <2>1, StartsFacts DEF AfterTerminator, At
<1>2. InsideTerminator(t, o) <=> o > 0 /\ o + 1 <= Len(t) /\ t[o] = "CR" /\ t[o + 1] = "LF"
  <2>1. CASE o > 0
    <3>1. o - 1 \in Nat /\ (o - 1) + 1 = o /\ (o - 1) + 2 = o + 1
      BY <2>1
    <3>2. Starts(t, o - 1, CR \o LF) <=>
            (o - 1) + 2 <= Len(t) /\ t[(o - 1) + 1] = "CR" /\ t[(o - 1) + 2] = "LF"
      BY <3>1, StartsFacts
    <3> QED
      BY <2>1, <3>1, <3>2 DEF InsideTerminator
  <2>2. CASE ~(o > 0)
    BY <2>2 DEF InsideTerminator
  <2> QED
    BY <2>1, <2>2
<1>3. InsideCharacter(t, o) <=>
        \/ o > 0 /\ Starts(t, o - 1, TwoBytes)
        \/ o > 0 /\ Starts(t, o - 1, FourBytes)
        \/ o > 1 /\ Starts(t, o - 2, FourBytes)
        \/ o > 2 /\ Starts(t, o - 3, FourBytes)
  <2>1. 1 .. 3 = {1, 2, 3}
    OBVIOUS
  <2>2. (\E k \in 1 .. 3 : o >= k /\ Starts(t, o - k, FourBytes)) <=>
          \/ o >= 1 /\ Starts(t, o - 1, FourBytes)
          \/ o >= 2 /\ Starts(t, o - 2, FourBytes)
          \/ o >= 3 /\ Starts(t, o - 3, FourBytes)
    BY <2>1
  <2>3. (o >= 1 <=> o > 0) /\ (o >= 2 <=> o > 1) /\ (o >= 3 <=> o > 2)
    OBVIOUS
  <2> QED
    BY <2>2, <2>3 DEF InsideCharacter
<1> QED
  BY <1>1, <1>2, <1>3

LEMMA TerminatorFacts ==
    ASSUME NEW t \in Seq(TextBytes), NEW c \in Nat, c < Len(t)
    PROVE  /\ TerminatorAt(t, c) \in {0, 1, 2}
           /\ TerminatorAt(t, c) = 0 <=> t[c + 1] \notin {"CR", "LF"}
           /\ TerminatorAt(t, c) = 2 <=> c + 2 <= Len(t) /\ t[c + 1] = "CR" /\ t[c + 2] = "LF"
BY StartsFacts DEF TerminatorAt, At

-----------------------------------------------------------------------------
(* What a scan of the bytes from b to e finds. *)

Increasing(s) == \A i, j \in 1 .. Len(s) : i < j => s[i] < s[j]
IsLines(t, b, e, starts) ==
    /\ starts \in Seq(Nat) /\ Len(starts) >= 1 /\ starts[1] = b
    /\ Increasing(starts)
    /\ \A o \in Nat : (\E i \in 1 .. Len(starts) : starts[i] = o) <=>
                         o = b \/ (o \in b + 1 .. e /\ AfterTerminator(t, o))

AsciiIn(t, b, e) == \A o \in b + 1 .. e : t[o] \in Ascii
EndOf(starts, i, e) == IF i = Len(starts) THEN e ELSE starts[i + 1]
AreFlags(starts, flags) == flags \in Seq(BOOLEAN) /\ Len(flags) = Len(starts)
AreExact(t, e, starts, flags) ==
    \A i \in 1 .. Len(starts) : flags[i] <=> AsciiIn(t, starts[i], EndOf(starts, i, e))

Scans == [offsets : Seq(Nat), ascii : Seq(BOOLEAN), last : BOOLEAN]
IsScan(t, b, e, scan) ==
    LET starts == <<b>> \o scan.offsets
        flags == Append(scan.ascii, scan.last)
    IN  /\ scan \in Scans
        /\ IsLines(t, b, e, starts) /\ AreFlags(starts, flags) /\ AreExact(t, e, starts, flags)

LEMMA Prepended ==
    ASSUME NEW S, NEW s \in Seq(S), NEW x \in S
    PROVE  /\ <<x>> \o s \in Seq(S)
           /\ Len(<<x>> \o s) = Len(s) + 1 /\ Len(s) \in Nat
           /\ (<<x>> \o s)[1] = x
           /\ \A i \in 1 .. Len(s) : (<<x>> \o s)[i + 1] = s[i]
<1> DEFINE u == <<x>>
<1>1. u \in Seq(S) /\ Len(u) = 1 /\ u[1] = x /\ Len(s) \in Nat
  BY LenProperties
<1> HIDE DEF u
<1>2. /\ u \o s \in Seq(S) /\ Len(u \o s) = Len(u) + Len(s)
      /\ \A i \in 1 .. Len(u) + Len(s) : (u \o s)[i] = IF i <= Len(u) THEN u[i] ELSE s[i - Len(u)]
  BY <1>1, ConcatProperties
<1>3. (u \o s)[1] = x
  BY <1>1, <1>2
<1>4. ASSUME NEW i \in 1 .. Len(s) PROVE (u \o s)[i + 1] = s[i]
  <2>1. i + 1 \in 1 .. Len(u) + Len(s) /\ ~(i + 1 <= Len(u)) /\ (i + 1) - Len(u) = i
    BY <1>1
  <2> QED
    BY <1>2, <2>1
<1> QED
  BY <1>1, <1>2, <1>3, <1>4 DEF u

\* A line in front: it begins at b, before the others.
LEMMA LinesPrepended ==
    ASSUME NEW t, NEW b \in Nat, NEW c \in Nat, NEW e \in Nat, b < c, c <= e, NEW starts,
           IsLines(t, c, e, starts), AfterTerminator(t, c),
           \A o \in b + 1 .. c - 1 : ~AfterTerminator(t, o)
    PROVE  IsLines(t, b, e, <<b>> \o starts)
<1> DEFINE s == <<b>> \o starts
           n == Len(starts)
<1>1. /\ s \in Seq(Nat) /\ Len(s) = n + 1 /\ s[1] = b /\ \A i \in 1 .. n : s[i + 1] = starts[i]
      /\ n \in Nat /\ n >= 1 /\ \A i \in 1 .. n : starts[i] \in Nat
  <2>1. starts \in Seq(Nat) /\ Len(starts) >= 1
    BY DEF IsLines
  <2>2. \A i \in 1 .. n : starts[i] \in Nat
    BY <2>1, ElementOfSeq
  <2> QED
    BY <2>1, <2>2, Prepended
<1>2. starts[1] = c /\ \A i, j \in 1 .. n : i < j => starts[i] < starts[j]
  BY DEF IsLines, Increasing
<1>3. \A o \in Nat : (\E i \in 1 .. n : starts[i] = o) <=>
                        o = c \/ (o \in c + 1 .. e /\ AfterTerminator(t, o))
  BY DEF IsLines
<1> HIDE DEF s, n
<1>4. \A i \in 1 .. n : starts[i] >= c
  BY <1>1, <1>2
<1>5. ASSUME NEW i \in 1 .. Len(s), NEW j \in 1 .. Len(s), i < j PROVE s[i] < s[j]
  <2>1. j - 1 \in 1 .. n /\ s[j] = starts[j - 1]
    <3>1. j - 1 \in 1 .. n /\ (j - 1) + 1 = j
      BY <1>1, <1>5
    <3> QED
      BY <1>1, <3>1
  <2>2. CASE i = 1
    <3>1. s[j] >= c /\ s[j] \in Nat
      BY <1>1, <1>4, <2>1
    <3> QED
      BY <1>1, <2>2, <3>1
  <2>3. CASE i # 1
    <3>1. i - 1 \in 1 .. n /\ (i - 1) + 1 = i /\ i - 1 < j - 1
      BY <1>1, <1>5, <2>3
    <3>2. s[i] = starts[i - 1]
      BY <1>1, <3>1
    <3> QED
      BY <1>2, <2>1, <3>1, <3>2
  <2> QED
    BY <2>2, <2>3
<1>6. ASSUME NEW o \in Nat
      PROVE  (\E i \in 1 .. Len(s) : s[i] = o) <=> o = b \/ (o \in b + 1 .. e /\ AfterTerminator(t, o))
  <2>1. (\E i \in 1 .. Len(s) : s[i] = o) <=> o = b \/ \E i \in 1 .. n : starts[i] = o
    <3>1. ASSUME NEW i \in 1 .. Len(s), s[i] = o PROVE o = b \/ \E j \in 1 .. n : starts[j] = o
      <4>1. CASE i = 1
        BY <1>1, <3>1, <4>1
      <4>2. CASE i # 1
        <5>1. i - 1 \in 1 .. n /\ (i - 1) + 1 = i
          BY <1>1, <4>2
        <5> QED
          BY <1>1, <3>1, <5>1
      <4> QED
        BY <4>1, <4>2
    <3>2. ASSUME NEW i \in 1 .. n, starts[i] = o PROVE \E j \in 1 .. Len(s) : s[j] = o
      <4>1. i + 1 \in 1 .. Len(s) /\ s[i + 1] = o
        BY <1>1, <3>2
      <4> QED
        BY <4>1
    <3>3. 1 \in 1 .. Len(s)
      BY <1>1
    <3> QED
      BY <1>1, <3>1, <3>2, <3>3
  <2>2. o \in b + 1 .. e /\ AfterTerminator(t, o) <=>
          o = c \/ (o \in c + 1 .. e /\ AfterTerminator(t, o))
    <3>1. o \in b + 1 .. e <=> o \in b + 1 .. c - 1 \/ o = c \/ o \in c + 1 .. e
      OBVIOUS
    <3> QED
      BY <3>1
  <2> QED
    BY <1>3, <2>1, <2>2
<1> QED
  <2>1. Increasing(s) /\ Len(s) >= 1
    BY <1>1, <1>5 DEF Increasing
  <2>2. IsLines(t, b, e, s)
    BY <1>1, <1>6, <2>1 DEF IsLines
  <2> QED
    BY <2>2 DEF s

\* A first line that begins earlier.
LEMMA LinesExtended ==
    ASSUME NEW t, NEW b \in Nat, NEW c \in Nat, NEW e \in Nat, b < c, c <= e, NEW s \in Seq(Nat),
           IsLines(t, c, e, <<c>> \o s),
           \A o \in b + 1 .. c : ~AfterTerminator(t, o)
    PROVE  IsLines(t, b, e, <<b>> \o s)
<1> DEFINE p == <<c>> \o s
           q == <<b>> \o s
           n == Len(s)
<1>1. /\ p \in Seq(Nat) /\ Len(p) = n + 1 /\ p[1] = c /\ \A i \in 1 .. n : p[i + 1] = s[i]
      /\ q \in Seq(Nat) /\ Len(q) = n + 1 /\ q[1] = b /\ \A i \in 1 .. n : q[i + 1] = s[i]
      /\ n \in Nat /\ \A i \in 1 .. n : s[i] \in Nat
  BY Prepended, ElementOfSeq
<1>2. /\ \A i, j \in 1 .. n + 1 : i < j => p[i] < p[j]
      /\ \A o \in Nat : (\E i \in 1 .. n + 1 : p[i] = o) <=>
                           o = c \/ (o \in c + 1 .. e /\ AfterTerminator(t, o))
  BY <1>1 DEF IsLines, Increasing
<1> HIDE DEF p, q, n
<1>3. \A i \in 2 .. n + 1 : p[i] = q[i] /\ q[i] > c /\ q[i] \in Nat
  <2> SUFFICES ASSUME NEW i \in 2 .. n + 1 PROVE p[i] = q[i] /\ q[i] > c /\ q[i] \in Nat
    OBVIOUS
  <2>1. i - 1 \in 1 .. n /\ (i - 1) + 1 = i /\ i \in 1 .. n + 1 /\ 1 \in 1 .. n + 1 /\ 1 < i
    BY <1>1
  <2>2. p[i] = s[i - 1] /\ q[i] = s[i - 1] /\ s[i - 1] \in Nat
    BY <1>1, <2>1
  <2> QED
    BY <1>1, <1>2, <2>1, <2>2
<1>4. ASSUME NEW i \in 1 .. Len(q), NEW j \in 1 .. Len(q), i < j PROVE q[i] < q[j]
  <2>1. j \in 2 .. n + 1 /\ i \in 1 .. n + 1 /\ j \in 1 .. n + 1
    BY <1>1, <1>4
  <2>2. CASE i = 1
    BY <1>1, <1>3, <2>1, <2>2
  <2>3. CASE i # 1
    <3>1. i \in 2 .. n + 1
      BY <2>1, <2>3
    <3> QED
      BY <1>2, <1>3, <1>4, <2>1, <3>1
  <2> QED
    BY <2>2, <2>3
<1>5. ASSUME NEW o \in Nat
      PROVE  (\E i \in 1 .. Len(q) : q[i] = o) <=> o = b \/ (o \in b + 1 .. e /\ AfterTerminator(t, o))
  <2>1. 1 .. n + 1 = {1} \cup (2 .. n + 1)
    BY <1>1
  <2>2. (\E i \in 1 .. Len(q) : q[i] = o) <=> o = b \/ \E i \in 2 .. n + 1 : p[i] = o
    BY <1>1, <1>3, <2>1
  <2>3. (\E i \in 2 .. n + 1 : p[i] = o) <=> o \in c + 1 .. e /\ AfterTerminator(t, o)
    <3>1. (\E i \in 2 .. n + 1 : p[i] = o) => o > c
      BY <1>3
    <3>2. (\E i \in 1 .. n + 1 : p[i] = o) <=> o = c \/ \E i \in 2 .. n + 1 : p[i] = o
      BY <1>1, <2>1
    <3> QED
      BY <1>2, <3>1, <3>2
  <2>4. o \in b + 1 .. e /\ AfterTerminator(t, o) <=> o \in c + 1 .. e /\ AfterTerminator(t, o)
    <3>1. o \in b + 1 .. e <=> o \in b + 1 .. c \/ o \in c + 1 .. e
      OBVIOUS
    <3> QED
      BY <3>1
  <2> QED
    BY <2>2, <2>3, <2>4
<1> QED
  <2>1. Increasing(q) /\ Len(q) >= 1
    BY <1>1, <1>4 DEF Increasing
  <2>2. IsLines(t, b, e, q)
    BY <1>1, <1>5, <2>1 DEF IsLines
  <2> QED
    BY <2>2 DEF q

LEMMA Appended ==
    ASSUME NEW S, NEW s \in Seq(S), NEW x \in S
    PROVE  /\ Append(s, x) \in Seq(S) /\ Len(Append(s, x)) = Len(s) + 1 /\ Len(s) \in Nat
           /\ \A i \in 1 .. Len(s) + 1 : Append(s, x)[i] = IF i = Len(s) + 1 THEN x ELSE s[i]
<1>1. /\ Append(s, x) \in Seq(S) /\ Len(Append(s, x)) = Len(s) + 1
      /\ \A i \in 1 .. Len(s) : Append(s, x)[i] = s[i]
      /\ Append(s, x)[Len(s) + 1] = x /\ Len(s) \in Nat
  BY AppendProperties, LenProperties
<1> QED
  BY <1>1

LEMMA ScanParts ==
    ASSUME NEW b \in Nat, NEW scan \in Scans
    PROVE  LET starts == <<b>> \o scan.offsets
               flags == Append(scan.ascii, scan.last)
           IN  /\ scan.offsets \in Seq(Nat) /\ scan.ascii \in Seq(BOOLEAN) /\ scan.last \in BOOLEAN
               /\ starts \in Seq(Nat) /\ Len(starts) = Len(scan.offsets) + 1
               /\ starts[1] = b /\ \A i \in 1 .. Len(scan.offsets) : starts[i + 1] = scan.offsets[i]
               /\ Len(scan.offsets) \in Nat /\ Len(scan.ascii) \in Nat
               /\ flags \in Seq(BOOLEAN) /\ Len(flags) = Len(scan.ascii) + 1
               /\ \A i \in 1 .. Len(scan.ascii) + 1 :
                    flags[i] = IF i = Len(scan.ascii) + 1 THEN scan.last ELSE scan.ascii[i]
<1>1. scan.offsets \in Seq(Nat) /\ scan.ascii \in Seq(BOOLEAN) /\ scan.last \in BOOLEAN
  BY DEF Scans
<1> QED
  <2>1. /\ <<b>> \o scan.offsets \in Seq(Nat) /\ Len(<<b>> \o scan.offsets) = Len(scan.offsets) + 1
        /\ Len(scan.offsets) \in Nat /\ (<<b>> \o scan.offsets)[1] = b
        /\ \A i \in 1 .. Len(scan.offsets) : (<<b>> \o scan.offsets)[i + 1] = scan.offsets[i]
    BY <1>1, Prepended
  <2>2. LET flags == Append(scan.ascii, scan.last)
        IN  /\ flags \in Seq(BOOLEAN) /\ Len(flags) = Len(scan.ascii) + 1 /\ Len(scan.ascii) \in Nat
            /\ \A i \in 1 .. Len(scan.ascii) + 1 :
                 flags[i] = IF i = Len(scan.ascii) + 1 THEN scan.last ELSE scan.ascii[i]
    BY <1>1, Appended
  <2> QED
    BY <1>1, <2>1, <2>2

\* A terminator ends a line that begins at b.
LEMMA LineIsAdded ==
    ASSUME NEW t \in Seq(TextBytes), NEW b \in Nat, NEW c \in Nat, NEW e \in Nat, b < c, c <= e,
           NEW scan, IsScan(t, c, e, scan), AfterTerminator(t, c),
           \A o \in b + 1 .. c - 1 : ~AfterTerminator(t, o), AsciiIn(t, b, c)
    PROVE  IsScan(t, b, e, AfterLine(scan, c))
<1> DEFINE starts == <<c>> \o scan.offsets
           flags == Append(scan.ascii, scan.last)
           n == Len(starts)
           new == AfterLine(scan, c)
           newStarts == <<b>> \o new.offsets
           newFlags == Append(new.ascii, new.last)
<1>1. scan \in Scans /\ IsLines(t, c, e, starts) /\ AreFlags(starts, flags)
      /\ AreExact(t, e, starts, flags)
  BY DEF IsScan
<1>2. /\ starts \in Seq(Nat) /\ n = Len(scan.offsets) + 1 /\ starts[1] = c
      /\ flags \in Seq(BOOLEAN) /\ Len(flags) = Len(scan.ascii) + 1
      /\ scan.offsets \in Seq(Nat) /\ scan.ascii \in Seq(BOOLEAN) /\ scan.last \in BOOLEAN
      /\ Len(scan.offsets) \in Nat /\ Len(scan.ascii) \in Nat
      /\ \A i \in 1 .. Len(scan.ascii) + 1 :
           flags[i] = IF i = Len(scan.ascii) + 1 THEN scan.last ELSE scan.ascii[i]
  BY <1>1, ScanParts
<1>3. new.offsets = starts /\ new.ascii = <<TRUE>> \o scan.ascii /\ new.last = scan.last
  BY DEF AfterLine
<1>4. /\ newStarts \in Seq(Nat) /\ Len(newStarts) = n + 1
      /\ newStarts[1] = b /\ \A i \in 1 .. n : newStarts[i + 1] = starts[i]
  <2>1. newStarts = <<b>> \o starts
    BY <1>3
  <2> HIDE DEF starts, newStarts
  <2> QED
    BY <1>2, <2>1, Prepended, SMTT(30)
<1>5. /\ new.ascii \in Seq(BOOLEAN) /\ Len(new.ascii) = Len(scan.ascii) + 1
      /\ new.ascii[1] = TRUE /\ \A i \in 1 .. Len(scan.ascii) : new.ascii[i + 1] = scan.ascii[i]
  BY <1>2, <1>3, Prepended
<1>6. new \in Scans
  BY <1>2, <1>3, <1>5 DEF AfterLine, Scans
<1>7. /\ newFlags \in Seq(BOOLEAN) /\ Len(newFlags) = Len(new.ascii) + 1
      /\ \A i \in 1 .. Len(new.ascii) + 1 :
           newFlags[i] = IF i = Len(new.ascii) + 1 THEN new.last ELSE new.ascii[i]
  BY <1>6, ScanParts
<1> HIDE DEF newFlags, new, flags, starts, newStarts, n
<1>8. newFlags[1] = TRUE /\ \A i \in 1 .. n : newFlags[i + 1] = flags[i]
  <2> DEFINE m == Len(scan.ascii)
  <2>1. m \in Nat /\ n = m + 1 /\ Len(new.ascii) = m + 1
    BY <1>1, <1>2, <1>5 DEF AreFlags, n
  <2>2. /\ \A i \in 1 .. m + 2 : newFlags[i] = IF i = m + 2 THEN scan.last ELSE new.ascii[i]
        /\ \A i \in 1 .. m + 1 : flags[i] = IF i = m + 1 THEN scan.last ELSE scan.ascii[i]
        /\ new.ascii[1] = TRUE /\ \A i \in 1 .. m : new.ascii[i + 1] = scan.ascii[i]
    <3>1. (m + 1) + 1 = m + 2
      BY <2>1
    <3> QED
      BY <1>2, <1>3, <1>5, <1>7, <2>1, <3>1, ZenonT(40)
  <2> HIDE DEF m
  <2>3. newFlags[1] = TRUE
    <3>1. 1 \in 1 .. m + 2 /\ 1 # m + 2
      BY <2>1
    <3> QED
      BY <2>2, <3>1
  <2>4. ASSUME NEW i \in 1 .. n PROVE newFlags[i + 1] = flags[i]
    <3>1. i + 1 \in 1 .. m + 2 /\ i \in 1 .. m + 1 /\ (i + 1 = m + 2 <=> i = m + 1)
      BY <2>1
    <3>2. CASE i = m + 1
      BY <2>2, <3>1, <3>2
    <3>3. CASE i # m + 1
      <4>1. i \in 1 .. m
        BY <2>1, <3>1, <3>3
      <4> QED
        BY <2>2, <3>1, <3>3, <4>1
    <3> QED
      BY <3>2, <3>3
  <2> QED
    BY <2>3, <2>4
<1>9. IsLines(t, b, e, newStarts)
  <2>1. newStarts = <<b>> \o starts
    BY <1>3 DEF newStarts
  <2> QED
    BY <1>1, <2>1, LinesPrepended
<1>10. AreFlags(newStarts, newFlags)
  BY <1>1, <1>2, <1>4, <1>5, <1>7 DEF AreFlags, n
<1>11. AreExact(t, e, newStarts, newFlags)
  <2>0. n \in Nat /\ n >= 1
    BY <1>2, SMTT(30)
  <2> SUFFICES ASSUME NEW i \in 1 .. n + 1
               PROVE  newFlags[i] <=> AsciiIn(t, newStarts[i], EndOf(newStarts, i, e))
    BY <1>4 DEF AreExact
  <2>1. CASE i = 1
    <3>1. newStarts[1] = b /\ 1 \in 1 .. n /\ 1 + 1 = 2
      BY <1>4, <2>0
    <3>2. newStarts[2] = c
      BY <1>2, <1>4, <3>1
    <3>3. EndOf(newStarts, 1, e) = c
      BY <1>4, <2>0, <3>1, <3>2 DEF EndOf
    <3> QED
      BY <1>8, <2>1, <3>1, <3>3
  <2>2. CASE i # 1
    <3> DEFINE j == i - 1
    <3>1. j \in 1 .. n /\ j + 1 = i /\ (j = n <=> i = n + 1)
      BY <2>0, <2>2
    <3> HIDE DEF j
    <3>2. newStarts[i] = starts[j] /\ newFlags[i] = flags[j]
      BY <1>4, <1>8, <3>1
    <3>3. EndOf(newStarts, i, e) = EndOf(starts, j, e)
      <4>1. CASE j = n
        BY <1>4, <3>1, <4>1 DEF EndOf, n
      <4>2. CASE j # n
        <5>1. j + 1 \in 1 .. n /\ i + 1 = (j + 1) + 1
          BY <2>0, <3>1, <4>2
        <5>2. newStarts[i + 1] = starts[j + 1]
          BY <1>4, <5>1
        <5> QED
          BY <1>4, <3>1, <4>2, <5>2 DEF EndOf, n
      <4> QED
        BY <4>1, <4>2
    <3>4. flags[j] <=> AsciiIn(t, starts[j], EndOf(starts, j, e))
      BY <1>1, <3>1 DEF AreExact, n
    <3> QED
      BY <3>2, <3>3, <3>4
  <2> QED
    BY <2>1, <2>2
<1> QED
  BY <1>6, <1>9, <1>10, <1>11 DEF IsScan, newFlags, newStarts, new

\* A byte that ends no line belongs to the first one.
LEMMA LineGrows ==
    ASSUME NEW t \in Seq(TextBytes), NEW b \in Nat, NEW e \in Nat, b < e,
           NEW scan, IsScan(t, b + 1, e, scan), ~AfterTerminator(t, b + 1),
           NEW ascii \in BOOLEAN, ascii <=> t[b + 1] \in Ascii
    PROVE  IsScan(t, b, e, Flag(scan, ascii))
<1> DEFINE starts == <<b + 1>> \o scan.offsets
           flags == Append(scan.ascii, scan.last)
           m == Len(scan.ascii)
           new == Flag(scan, ascii)
           newStarts == <<b>> \o new.offsets
           newFlags == Append(new.ascii, new.last)
<1>1. scan \in Scans /\ IsLines(t, b + 1, e, starts) /\ AreFlags(starts, flags)
      /\ AreExact(t, e, starts, flags)
  BY DEF IsScan
<1>2. /\ starts \in Seq(Nat) /\ Len(starts) = Len(scan.offsets) + 1 /\ starts[1] = b + 1
      /\ \A i \in 1 .. Len(scan.offsets) : starts[i + 1] = scan.offsets[i]
      /\ flags \in Seq(BOOLEAN) /\ Len(flags) = m + 1
      /\ scan.offsets \in Seq(Nat) /\ scan.ascii \in Seq(BOOLEAN) /\ scan.last \in BOOLEAN
      /\ Len(scan.offsets) \in Nat /\ m \in Nat
      /\ \A i \in 1 .. m + 1 : flags[i] = IF i = m + 1 THEN scan.last ELSE scan.ascii[i]
  <2>1. b + 1 \in Nat
    OBVIOUS
  <2> QED
    BY <1>1, <2>1, ScanParts
<1>3. /\ new.offsets = scan.offsets /\ new \in Scans /\ new.ascii \in Seq(BOOLEAN)
      /\ Len(new.ascii) = m /\ new.last \in BOOLEAN
      /\ \A i \in 2 .. m : new.ascii[i] = scan.ascii[i]
      /\ m > 0 => new.last = scan.last /\ (new.ascii[1] <=> ascii /\ scan.ascii[1])
      /\ m = 0 => (new.last <=> ascii /\ scan.last)
  <2>1. CASE ascii
    BY <1>1, <1>2, <2>1 DEF Flag
  <2>2. CASE ~ascii /\ scan.ascii = << >>
    <3>1. new = [scan EXCEPT !.last = FALSE] /\ m = 0
      BY <2>2 DEF Flag
    <3> HIDE DEF new, m
    <3>2. /\ new \in Scans /\ new.offsets = scan.offsets /\ new.ascii = scan.ascii
          /\ new.last = FALSE
      BY <1>1, <3>1 DEF Scans
    <3>3. new.last <=> ascii /\ scan.last
      BY <2>2, <3>2, Zenon
    <3>4. Len(new.ascii) = m
      BY <3>2, Zenon DEF m
    <3>5. new.ascii \in Seq(BOOLEAN) /\ new.last \in BOOLEAN
      BY <1>2, <3>2
    <3>6. \A i \in 2 .. m : new.ascii[i] = scan.ascii[i]
      BY <3>2
    <3> QED
      BY <3>1, <3>2, <3>3, <3>4, <3>5, <3>6
  <2>3. CASE ~ascii /\ scan.ascii # << >>
    <3> DEFINE tail == Tail(scan.ascii)
               front == <<FALSE>> \o tail
    <3>1. tail \in Seq(BOOLEAN) /\ Len(tail) = m - 1 /\ m > 0
          /\ \A i \in 1 .. Len(tail) : tail[i] = scan.ascii[i + 1]
      <4> DEFINE s == scan.ascii
      <4>1. s \in Seq(BOOLEAN) /\ s # << >> /\ Len(s) \in Nat
        BY <1>2, <2>3
      <4> HIDE DEF s
      <4>2. Len(s) # 0
        BY <4>1, EmptySeq
      <4>3. /\ Tail(s) \in Seq(BOOLEAN) /\ Len(Tail(s)) = Len(s) - 1
            /\ \A i \in 1 .. Len(Tail(s)) : Tail(s)[i] = s[i + 1]
        BY <4>1, HeadTailProperties
      <4> QED
        BY <4>1, <4>2, <4>3 DEF s
    <3>2. new = [scan EXCEPT !.ascii = front]
      BY <2>3 DEF Flag
    <3> HIDE DEF tail, new, m
    <3>3. front \in Seq(BOOLEAN) /\ Len(front) = Len(tail) + 1 /\ front[1] = FALSE
          /\ \A i \in 1 .. Len(tail) : front[i + 1] = tail[i]
      BY <3>1, Prepended
    <3> HIDE DEF front
    <3>4. new \in Scans /\ new.offsets = scan.offsets /\ new.ascii = front /\ new.last = scan.last
      BY <1>1, <3>2, <3>3 DEF Scans
    <3>5. ASSUME NEW i \in 2 .. m PROVE front[i] = scan.ascii[i]
      <4>1. i - 1 \in 1 .. Len(tail) /\ (i - 1) + 1 = i
        BY <1>2, <3>1
      <4> QED
        BY <3>1, <3>3, <4>1
    <3>6. Len(front) = m
      BY <1>2, <3>1, <3>3
    <3> QED
      BY <1>2, <2>3, <3>1, <3>3, <3>4, <3>5, <3>6
  <2> QED
    BY <2>1, <2>2, <2>3
<1> HIDE DEF new, m, starts, flags
<1>4. /\ newStarts \in Seq(Nat) /\ Len(newStarts) = Len(scan.offsets) + 1 /\ newStarts[1] = b
      /\ \A i \in 1 .. Len(scan.offsets) : newStarts[i + 1] = scan.offsets[i]
      /\ newFlags \in Seq(BOOLEAN) /\ Len(newFlags) = m + 1
      /\ \A i \in 1 .. m + 1 : newFlags[i] = IF i = m + 1 THEN new.last ELSE new.ascii[i]
  <2>1. /\ newStarts \in Seq(Nat) /\ Len(newStarts) = Len(new.offsets) + 1 /\ newStarts[1] = b
        /\ \A i \in 1 .. Len(new.offsets) : newStarts[i + 1] = new.offsets[i]
        /\ newFlags \in Seq(BOOLEAN) /\ Len(newFlags) = Len(new.ascii) + 1
        /\ \A i \in 1 .. Len(new.ascii) + 1 :
             newFlags[i] = IF i = Len(new.ascii) + 1 THEN new.last ELSE new.ascii[i]
    BY <1>3, ScanParts
  <2> HIDE DEF newStarts, newFlags
  <2> QED
    BY <1>3, <2>1
<1> HIDE DEF newStarts, newFlags
<1>5. Len(starts) = m + 1 /\ Len(newStarts) = m + 1
  BY <1>1, <1>2, <1>4 DEF AreFlags
<1>6. /\ newFlags[1] <=> ascii /\ flags[1]
      /\ \A i \in 2 .. m + 1 : newFlags[i] = flags[i]
  <2>1. 1 \in 1 .. m + 1
    BY <1>2
  <2>2. newFlags[1] <=> ascii /\ flags[1]
    <3>1. CASE m = 0
      <4>1. 1 = m + 1
        BY <3>1
      <4>2. newFlags[1] = new.last /\ flags[1] = scan.last
        BY <1>2, <1>4, <2>1, <4>1
      <4> QED
        BY <1>3, <3>1, <4>2, Zenon
    <3>2. CASE m > 0
      <4>1. 1 # m + 1
        BY <1>2, <3>2
      <4>2. newFlags[1] = new.ascii[1] /\ flags[1] = scan.ascii[1]
        BY <1>2, <1>4, <2>1, <4>1
      <4> QED
        BY <1>3, <3>2, <4>2
    <3> QED
      BY <1>2, <3>1, <3>2
  <2>3. ASSUME NEW i \in 2 .. m + 1 PROVE newFlags[i] = flags[i]
    <3>1. i \in 1 .. m + 1 /\ (i = m + 1 \/ i \in 2 .. m)
      BY <1>2
    <3>2. CASE i = m + 1
      <4>1. m > 0
        BY <1>2, <3>2
      <4> QED
        BY <1>2, <1>3, <1>4, <3>1, <3>2, <4>1
    <3>3. CASE i # m + 1
      <4>1. newFlags[i] = new.ascii[i] /\ flags[i] = scan.ascii[i]
        BY <1>2, <1>4, <3>1, <3>3
      <4> QED
        BY <1>3, <3>1, <3>3, <4>1
    <3> QED
      BY <3>2, <3>3
  <2> QED
    BY <2>2, <2>3
<1>7. \A i \in 2 .. m + 1 : newStarts[i] = starts[i]
  <2> SUFFICES ASSUME NEW i \in 2 .. m + 1 PROVE newStarts[i] = starts[i]
    OBVIOUS
  <2>1. i - 1 \in 1 .. Len(scan.offsets) /\ (i - 1) + 1 = i
    BY <1>2, <1>5
  <2> QED
    BY <1>2, <1>4, <2>1
<1>8. IsLines(t, b, e, newStarts)
  <2>1. b + 1 \in Nat /\ b < b + 1 /\ b + 1 <= e /\ \A o \in b + 1 .. b + 1 : o = b + 1
    OBVIOUS
  <2>2. IsLines(t, b, e, <<b>> \o scan.offsets)
    <3> DEFINE c == b + 1
    <3>1. IsLines(t, c, e, <<c>> \o scan.offsets) /\ \A o \in b + 1 .. c : ~AfterTerminator(t, o)
      BY <1>1, <2>1 DEF starts
    <3>2. c \in Nat /\ b < c /\ c <= e
      BY <2>1
    <3> HIDE DEF c
    <3> QED
      BY <1>2, <3>1, <3>2, LinesExtended
  <2> QED
    BY <1>3, <2>2 DEF newStarts
<1>9. AreFlags(newStarts, newFlags)
  BY <1>4, <1>5 DEF AreFlags
<1>10. AreExact(t, e, newStarts, newFlags)
  <2> SUFFICES ASSUME NEW i \in 1 .. m + 1
               PROVE  newFlags[i] <=> AsciiIn(t, newStarts[i], EndOf(newStarts, i, e))
    BY <1>5 DEF AreExact
  <2>1. EndOf(newStarts, i, e) = EndOf(starts, i, e)
    <3>1. CASE i = m + 1
      BY <1>5, <3>1 DEF EndOf
    <3>2. CASE i # m + 1
      <4>1. i + 1 \in 2 .. m + 1
        BY <1>2, <3>2
      <4> QED
        BY <1>5, <1>7, <3>2, <4>1 DEF EndOf
    <3> QED
      BY <3>1, <3>2
  <2>2. flags[i] <=> AsciiIn(t, starts[i], EndOf(starts, i, e))
    BY <1>1, <1>5 DEF AreExact
  <2>3. CASE i = 1
    <3> DEFINE z == EndOf(starts, 1, e)
    <3>1. z \in Nat /\ z >= b + 1
      <4>1. CASE m + 1 = 1
        BY <1>5, <4>1 DEF EndOf
      <4>2. CASE m + 1 # 1
        <5>1. 1 \in 1 .. Len(starts) /\ 2 \in 1 .. Len(starts) /\ 1 < 2
          BY <1>2, <1>5, <4>2
        <5>2. starts[2] \in Nat /\ starts[1] < starts[2]
          BY <1>1, <1>2, <5>1, ElementOfSeq DEF IsLines, Increasing
        <5> QED
          BY <1>2, <1>5, <4>2, <5>2 DEF EndOf
      <4> QED
        BY <4>1, <4>2
    <3> HIDE DEF z
    <3>2. AsciiIn(t, b, z) <=> t[b + 1] \in Ascii /\ AsciiIn(t, b + 1, z)
      <4>1. \A o : o \in b + 1 .. z <=> o = b + 1 \/ o \in (b + 1) + 1 .. z
        BY <3>1
      <4> QED
        BY <4>1 DEF AsciiIn
    <3>3. newStarts[1] = b /\ starts[1] = b + 1
      BY <1>2, <1>4
    <3>4. flags[1] <=> AsciiIn(t, b + 1, z)
      BY <2>2, <2>3, <3>3 DEF z
    <3>5. newFlags[1] <=> AsciiIn(t, newStarts[1], z)
      BY <1>6, <3>2, <3>3, <3>4
    <3> QED
      BY <2>1, <2>3, <3>5 DEF z
  <2>4. CASE i # 1
    <3>1. i \in 2 .. m + 1
      BY <1>2, <2>4
    <3> QED
      BY <1>6, <1>7, <2>1, <2>2, <3>1
  <2> QED
    BY <2>3, <2>4
<1> QED
  BY <1>3, <1>8, <1>9, <1>10 DEF IsScan, newStarts, newFlags, new

\* Where a place is not inside a terminator, the scan of the bytes before it finds its lines.
LEMMA ScanIsRight ==
    ASSUME NEW t \in Seq(TextBytes), NEW b \in Nat, NEW e \in Nat, b <= e, e <= Len(t),
           ~InsideTerminator(t, e)
    PROVE  IsScan(t, b, e, ComputeOffsetsOfLines(t, b, e))
<1> DEFINE nothing == [offsets |-> << >>, ascii |-> << >>, last |-> TRUE]
           Value(c, f) == IF c = e THEN nothing
                          ELSE IF TerminatorAt(t, c) = 0 THEN Flag(f[c + 1], At(t, c) \in Ascii)
                          ELSE AfterLine(f[c + TerminatorAt(t, c)], c + TerminatorAt(t, c))
           Body(f) == [c \in b .. e |-> Value(c, f)]
           scan == CHOOSE f : f = Body(f)
           F == [b .. e -> Scans]
           Good == {c \in b .. e : IsScan(t, c, e, scan[c])}
<1>1. ComputeOffsetsOfLines(t, b, e) = scan[b]
  BY DEF ComputeOffsetsOfLines
<1>2. ASSUME NEW c \in b .. e, c # e
      PROVE  /\ c \in Nat /\ c < Len(t) /\ c + 1 \in b .. e /\ (At(t, c) \in Ascii) \in BOOLEAN
             /\ At(t, c) = t[c + 1]
             /\ TerminatorAt(t, c) \in Nat /\ TerminatorAt(t, c) >= 0
             /\ TerminatorAt(t, c) # 0 =>
                  /\ c + TerminatorAt(t, c) \in c + 1 .. e /\ c + TerminatorAt(t, c) \in b .. e
                  /\ c + TerminatorAt(t, c) \in Nat
  <2>1. c \in Nat /\ c < Len(t) /\ c + 1 \in b .. e /\ Len(t) \in Nat
    BY <1>2, LenProperties
  <2>2. /\ TerminatorAt(t, c) \in {0, 1, 2}
        /\ TerminatorAt(t, c) = 2 => t[c + 1] = "CR" /\ t[c + 2] = "LF" /\ c + 2 <= Len(t)
    BY <2>1, TerminatorFacts
  <2>3. TerminatorAt(t, c) = 2 => c + 1 # e
    <3>1. SUFFICES ASSUME TerminatorAt(t, c) = 2, c + 1 = e PROVE FALSE
      OBVIOUS
    <3>2. e > 0 /\ e + 1 = c + 2
      BY <2>1, <3>1
    <3> QED
      BY <2>1, <2>2, <3>1, <3>2, PlaceFacts
  <2> QED
    BY <1>2, <2>1, <2>2, <2>3 DEF At
<1>3. nothing \in Scans
  BY DEF Scans
<1>4. \A scan1 \in Scans, ascii \in BOOLEAN : Flag(scan1, ascii) \in Scans
  <2> TAKE scan1 \in Scans, ascii \in BOOLEAN
  <2>1. CASE scan1.ascii # << >> /\ ~ascii
    <3> DEFINE s == scan1.ascii
    <3>1. s \in Seq(BOOLEAN) /\ s # << >>
      BY <2>1 DEF Scans
    <3> HIDE DEF s
    <3>2. <<FALSE>> \o Tail(s) \in Seq(BOOLEAN)
      BY <3>1, HeadTailProperties, Prepended
    <3>3. Flag(scan1, ascii) = [scan1 EXCEPT !.ascii = <<FALSE>> \o Tail(s)]
      BY <2>1 DEF Flag, s
    <3> QED
      BY <3>2, <3>3 DEF Scans
  <2>2. CASE ~(scan1.ascii # << >> /\ ~ascii)
    BY <2>2 DEF Flag, Scans
  <2> QED
    BY <2>1, <2>2
<1>5. \A scan1 \in Scans, c \in Nat : AfterLine(scan1, c) \in Scans
  <2> TAKE scan1 \in Scans, c \in Nat
  <2>1. scan1.offsets \in Seq(Nat) /\ scan1.ascii \in Seq(BOOLEAN) /\ scan1.last \in BOOLEAN
    BY DEF Scans
  <2>2. <<c>> \o scan1.offsets \in Seq(Nat) /\ <<TRUE>> \o scan1.ascii \in Seq(BOOLEAN)
    BY <2>1, Prepended
  <2> QED
    BY <2>1, <2>2 DEF AfterLine, Scans
<1>6. \A c \in b .. e, f \in F : Value(c, f) \in Scans
  <2> TAKE c \in b .. e, f \in F
  <2>1. CASE c = e
    BY <1>3, <2>1
  <2>2. CASE c # e
    <3>1. TerminatorAt(t, c) = 0 => Value(c, f) = Flag(f[c + 1], At(t, c) \in Ascii)
      BY <2>2
    <3>2. TerminatorAt(t, c) # 0 =>
            Value(c, f) = AfterLine(f[c + TerminatorAt(t, c)], c + TerminatorAt(t, c))
      BY <2>2
    <3> HIDE DEF Value
    <3> QED
      BY <1>2, <1>4, <1>5, <2>2, <3>1, <3>2, ZenonT(40)
  <2> QED
    BY <2>1, <2>2
<1>7. ASSUME NEW c \in b .. e, NEW f \in F, NEW g \in F, \A j \in c + 1 .. e : f[j] = g[j]
      PROVE  Value(c, f) = Value(c, g)
  <2>1. CASE c = e
    BY <2>1
  <2>2. CASE c # e
    <3>1. c + 1 \in c + 1 .. e
      BY <1>2, <2>2
    <3> QED
      BY <1>2, <1>7, <2>2, <3>1
  <2> QED
    BY <2>1, <2>2
<1>8. scan = Body(scan)
  <2> DEFINE step == [kf \in (b .. e) \X F |-> Value(kf[1], kf[2])]
  <2>1. \A k \in b .. e, f \in F : step[<<k, f>>] = Value(k, f)
    <3> HIDE DEF Value
    <3> QED
      OBVIOUS
  <2>2. step \in [(b .. e) \X F -> Scans]
    <3> HIDE DEF Value
    <3> QED
      BY <1>6
  <2>3. LooksAhead(b, e, Scans, step)
    <3> SUFFICES ASSUME NEW k \in b .. e, NEW f \in F, NEW g \in F,
                        \A j \in k + 1 .. e : f[j] = g[j]
                 PROVE  step[<<k, f>>] = step[<<k, g>>]
      BY DEF LooksAhead
    <3> HIDE DEF Value, step, F
    <3> QED
      BY <1>7, <2>1
  <2>4. DownChains(b, e, Scans, step) # {}
    <3> HIDE DEF step, nothing
    <3>1. b \in Int /\ e \in Int
      OBVIOUS
    <3> QED
      BY <1>3, <2>2, <2>3, <3>1, DownRecursion
  <2>5. PICK f \in F : \A k \in b .. e : f[k] = step[<<k, f>>]
    BY <2>4 DEF DownChains
  <2> HIDE DEF Value, step
  <2>6. f = Body(f)
    BY <2>1, <2>5
  <2> HIDE DEF Body
  <2> QED
    BY <2>6
<1>9. \A c \in b .. e : scan[c] = Value(c, scan)
  <2> HIDE DEF scan, Value
  <2>1. \A c \in b .. e : Body(scan)[c] = Value(c, scan)
    OBVIOUS
  <2> HIDE DEF Body
  <2> QED
    BY <1>8, <2>1
<1> HIDE DEF scan
<1>10. ASSUME NEW c \in b .. e, c + 1 .. e \subseteq Good PROVE c \in Good
  <2>1. CASE c = e
    <3>1. scan[c] = nothing /\ e \in Nat
      BY <1>9, <2>1
    <3>2. /\ <<e>> \o nothing.offsets = <<e>> /\ Append(nothing.ascii, nothing.last) = <<TRUE>>
          /\ nothing.offsets = << >>
      <4>1. nothing.offsets = << >> /\ nothing.ascii = << >> /\ nothing.last = TRUE
        OBVIOUS
      <4>2. <<e>> \o << >> = <<e>> /\ Append(<< >>, TRUE) = <<TRUE>>
        OBVIOUS
      <4> QED
        BY <4>1, <4>2, Zenon
    <3>3. IsLines(t, e, e, <<e>>)
      BY DEF IsLines, Increasing
    <3>4. AreFlags(<<e>>, <<TRUE>>)
      BY DEF AreFlags
    <3>5. AreExact(t, e, <<e>>, <<TRUE>>)
      <4> SUFFICES ASSUME NEW i \in 1 .. Len(<<e>>)
                   PROVE  <<TRUE>>[i] <=> AsciiIn(t, <<e>>[i], EndOf(<<e>>, i, e))
        BY DEF AreExact
      <4>1. i = 1 /\ e \in Nat
        OBVIOUS
      <4>2. EndOf(<<e>>, 1, e) = e
        BY DEF EndOf
      <4>3. AsciiIn(t, e, e)
        BY DEF AsciiIn
      <4> QED
        BY <4>1, <4>2, <4>3
    <3> QED
      BY <1>3, <2>1, <3>1, <3>2, <3>3, <3>4, <3>5, Zenon DEF IsScan
  <2>2. CASE c # e /\ TerminatorAt(t, c) = 0
    <3>1. c \in Nat /\ c < Len(t) /\ c + 1 \in b .. e /\ At(t, c) = t[c + 1] /\ c < e
      BY <1>2, <2>2
    <3>2. scan[c] = Flag(scan[c + 1], At(t, c) \in Ascii)
      BY <1>9, <2>2
    <3>3. IsScan(t, c + 1, e, scan[c + 1])
      BY <1>10, <3>1
    <3>4. ~AfterTerminator(t, c + 1)
      <4>1. t[c + 1] \notin {"CR", "LF"} /\ c + 1 \in Nat
        BY <2>2, <3>1, TerminatorFacts
      <4> QED
        BY <4>1, PlaceFacts
    <3>5. IsScan(t, c, e, Flag(scan[c + 1], At(t, c) \in Ascii))
      <4> DEFINE ascii == At(t, c) \in Ascii
      <4>1. ascii \in BOOLEAN /\ (ascii <=> t[c + 1] \in Ascii)
        BY <3>1
      <4> HIDE DEF ascii
      <4>2. IsScan(t, c, e, Flag(scan[c + 1], ascii))
        BY <3>1, <3>3, <3>4, <4>1, LineGrows
      <4> QED
        BY <4>2 DEF ascii
    <3> QED
      BY <3>2, <3>5
  <2>3. CASE c # e /\ TerminatorAt(t, c) # 0
    <3> DEFINE d == c + TerminatorAt(t, c)
    <3>1. c \in Nat /\ c < Len(t) /\ d \in c + 1 .. e /\ d \in b .. e /\ d \in Nat /\ c < d /\ d <= e
      BY <1>2, <2>3
    <3>2. scan[c] = AfterLine(scan[d], d)
      BY <1>9, <2>3
    <3>3. IsScan(t, d, e, scan[d])
      BY <1>10, <3>1
    <3>4. /\ t[c + 1] \in {"CR", "LF"} /\ (d = c + 1 \/ d = c + 2)
          /\ d = c + 2 <=> c + 2 <= Len(t) /\ t[c + 1] = "CR" /\ t[c + 2] = "LF"
      BY <2>3, <3>1, TerminatorFacts
    <3> HIDE DEF d
    <3>5. AfterTerminator(t, d) /\ \A o \in c + 1 .. d - 1 : ~AfterTerminator(t, o)
      <4>1. c + 1 \in Nat /\ c + 2 \in Nat /\ (c + 1) + 1 = c + 2 /\ Len(t) \in Nat
        BY <3>1, LenProperties
      <4>2. /\ AfterTerminator(t, c + 1) <=>
                  t[c + 1] = "LF" \/ (t[c + 1] = "CR" /\ ~(c + 2 <= Len(t) /\ t[c + 2] = "LF"))
            /\ t[c + 2] = "LF" => AfterTerminator(t, c + 2)
        BY <3>1, <4>1, PlaceFacts
      <4>3. CASE d = c + 1
        BY <3>1, <3>4, <4>1, <4>2, <4>3
      <4>4. CASE d = c + 2
        <5>1. \A o \in c + 1 .. d - 1 : o = c + 1
          BY <3>1, <4>4
        <5> QED
          BY <3>1, <3>4, <4>1, <4>2, <4>4, <5>1
      <4> QED
        BY <3>4, <4>3, <4>4
    <3>6. AsciiIn(t, c, d)
      <4>1. \A o \in c + 1 .. d : o = c + 1 \/ (d = c + 2 /\ o = c + 2)
        BY <3>1, <3>4
      <4> QED
        BY <3>4, <4>1 DEF AsciiIn, Ascii
    <3>7. IsScan(t, c, e, AfterLine(scan[d], d))
      BY <3>1, <3>3, <3>5, <3>6, LineIsAdded
    <3> QED
      BY <3>2, <3>7
  <2> QED
    BY <2>1, <2>2, <2>3
<1>11. b .. e \subseteq Good
  <2> HIDE DEF Good
  <2>1. b \in Int /\ e \in Int
    OBVIOUS
  <2> QED
    BY <1>10, <2>1, DownTo
<1>12. b \in b .. e
  OBVIOUS
<1> QED
  BY <1>1, <1>11, <1>12

-----------------------------------------------------------------------------
(* The line of an offset. *)

IsLineOf(starts, o, k) ==
    k \in 1 .. Len(starts) /\ starts[k] <= o /\ (k < Len(starts) => starts[k + 1] > o)

LEMMA LineOfExists ==
    ASSUME NEW starts \in Seq(Nat), NEW o \in Nat, Len(starts) >= 1, starts[1] <= o
    PROVE  \E k \in 1 .. Len(starts) : IsLineOf(starts, o, k)
<1> DEFINE n == Len(starts)
           P == {k \in 0 .. n - 1 : starts[k + 1] <= o}
<1>1. SUFFICES ASSUME \A k \in 1 .. n : ~IsLineOf(starts, o, k) PROVE FALSE
  OBVIOUS
<1>2. n \in Nat /\ n - 1 \in Nat /\ \A k \in 1 .. n : starts[k] \in Nat
  BY LenProperties, ElementOfSeq
<1>3. 0 \in P
  BY <1>2
<1>4. ASSUME NEW k \in 1 .. n - 1, k - 1 \in P PROVE k \in P
  <2>1. k \in 1 .. n /\ (k - 1) + 1 = k /\ k < n /\ k \in 0 .. n - 1 /\ k + 1 \in 1 .. n
    BY <1>2
  <2>2. starts[k] <= o
    BY <1>4, <2>1
  <2>3. ~(starts[k + 1] > o)
    BY <1>1, <2>1, <2>2 DEF IsLineOf
  <2> QED
    BY <1>2, <2>1, <2>3
<1>5. n - 1 \in P
  <2> HIDE DEF P
  <2>1. 0 .. n - 1 \subseteq P
    BY <1>2, <1>3, <1>4, UpTo
  <2> QED
    BY <1>2, <2>1
<1>6. IsLineOf(starts, o, n)
  <2>1. (n - 1) + 1 = n /\ n \in 1 .. n /\ ~(n < n)
    BY <1>2
  <2> QED
    BY <1>5, <2>1 DEF IsLineOf
<1> QED
  BY <1>1, <1>2, <1>6

LEMMA LinesBefore ==
    ASSUME NEW starts \in Seq(Nat), NEW o \in Nat, NEW k, IsLineOf(starts, o, k), Increasing(starts)
    PROVE  \A i \in 1 .. Len(starts) : starts[i] <= o <=> i <= k
<1> DEFINE n == Len(starts)
<1>1. /\ n \in Nat /\ \A i \in 1 .. n : starts[i] \in Nat
      /\ \A i, j \in 1 .. n : i < j => starts[i] < starts[j]
      /\ k \in 1 .. n /\ starts[k] <= o /\ (k < n => starts[k + 1] > o)
  BY LenProperties, ElementOfSeq DEF IsLineOf, Increasing
<1> SUFFICES ASSUME NEW i \in 1 .. n PROVE starts[i] <= o <=> i <= k
  OBVIOUS
<1> HIDE DEF n
<1>2. CASE i < k
  BY <1>1, <1>2
<1>3. CASE i = k
  BY <1>1, <1>3
<1>4. CASE i > k
  <2>1. k < n /\ k + 1 \in 1 .. n /\ (i = k + 1 \/ k + 1 < i)
    BY <1>1, <1>4
  <2>2. starts[i] >= starts[k + 1]
    BY <1>1, <2>1
  <2> QED
    BY <1>1, <1>4, <2>1, <2>2
<1> QED
  BY <1>1, <1>2, <1>3, <1>4

\* Two increasing sequences of the same numbers are the same.
LEMMA IncreasingIsUnique ==
    ASSUME NEW s \in Seq(Nat), NEW q \in Seq(Nat), Increasing(s), Increasing(q),
           \A o \in Nat : (\E i \in 1 .. Len(s) : s[i] = o) <=> (\E i \in 1 .. Len(q) : q[i] = o)
    PROVE  s = q
<1> DEFINE m == Len(s)
           n == Len(q)
           P == {k \in Nat : (k <= m <=> k <= n)
                             /\ \A i \in 1 .. k : i <= m => s[i] = q[i]}
<1>1. /\ m \in Nat /\ \A i \in 1 .. m : s[i] \in Nat
      /\ n \in Nat /\ \A i \in 1 .. n : q[i] \in Nat
      /\ \A i, j \in 1 .. m : i < j => s[i] < s[j]
      /\ \A i, j \in 1 .. n : i < j => q[i] < q[j]
  BY LenProperties, ElementOfSeq DEF Increasing
<1>2. \A i \in 1 .. m : \E j \in 1 .. n : q[j] = s[i]
  BY <1>1
<1>3. \A j \in 1 .. n : \E i \in 1 .. m : s[i] = q[j]
  BY <1>1
<1> HIDE DEF m, n
<1>4. 0 \in P
  BY <1>1
<1>5. ASSUME NEW k \in Nat \ {0}, k - 1 \in P PROVE k \in P
  <2>1. k - 1 \in Nat /\ (k - 1 <= m <=> k - 1 <= n)
        /\ \A i \in 1 .. k - 1 : i <= m => s[i] = q[i]
    BY <1>5
  <2>2. k <= m => k <= n
    <3>1. SUFFICES ASSUME k <= m, ~(k <= n) PROVE FALSE
      OBVIOUS
    <3>2. k \in 1 .. m /\ n = k - 1
      BY <1>1, <2>1, <3>1
    <3>3. PICK j \in 1 .. n : q[j] = s[k]
      BY <1>2, <3>2
    <3>4. j \in 1 .. k - 1 /\ j \in 1 .. m /\ j < k
      BY <1>1, <3>2, <3>3
    <3>5. s[j] = s[k]
      BY <2>1, <3>3, <3>4
    <3> QED
      BY <1>1, <3>2, <3>4, <3>5
  <2>3. k <= n => k <= m
    <3>1. SUFFICES ASSUME k <= n, ~(k <= m) PROVE FALSE
      OBVIOUS
    <3>2. k \in 1 .. n /\ m = k - 1
      BY <1>1, <2>1, <3>1
    <3>3. PICK j \in 1 .. m : s[j] = q[k]
      BY <1>3, <3>2
    <3>4. j \in 1 .. k - 1 /\ j \in 1 .. n /\ j < k
      BY <1>1, <3>2, <3>3
    <3>5. q[j] = q[k]
      BY <2>1, <3>3, <3>4
    <3> QED
      BY <1>1, <3>2, <3>4, <3>5
  <2>4. ASSUME k <= m PROVE s[k] = q[k]
    <3>1. k \in 1 .. m /\ k \in 1 .. n
      BY <1>1, <2>2, <2>4
    <3>2. PICK j \in 1 .. n : q[j] = s[k]
      BY <1>2, <3>1
    <3>3. PICK i \in 1 .. m : s[i] = q[k]
      BY <1>3, <3>1
    <3>4. j >= k
      <4>1. SUFFICES ASSUME j < k PROVE FALSE
        BY <1>1, <3>1
      <4>2. j \in 1 .. k - 1 /\ j \in 1 .. m
        BY <1>1, <3>1, <4>1
      <4>3. s[j] = s[k]
        BY <2>1, <3>2, <4>2
      <4> QED
        BY <1>1, <3>1, <4>1, <4>2, <4>3
    <3>5. i >= k
      <4>1. SUFFICES ASSUME i < k PROVE FALSE
        BY <1>1, <3>1
      <4>2. i \in 1 .. k - 1 /\ i \in 1 .. n
        BY <1>1, <3>1, <4>1
      <4>3. q[i] = q[k]
        BY <2>1, <3>3, <4>2
      <4> QED
        BY <1>1, <3>1, <4>1, <4>2, <4>3
    <3>6. s[k] >= q[k]
      BY <1>1, <3>1, <3>2, <3>4
    <3>7. q[k] >= s[k]
      BY <1>1, <3>1, <3>3, <3>5
    <3> QED
      BY <1>1, <3>1, <3>6, <3>7
  <2>5. \A i \in 1 .. k : i = k \/ i \in 1 .. k - 1
    OBVIOUS
  <2> QED
    BY <2>1, <2>2, <2>3, <2>4, <2>5
<1>6. m + 1 \in P /\ m \in P
  <2> HIDE DEF P
  <2>1. \A k \in 1 .. m + 1 : k - 1 \in P => k \in P
    BY <1>1, <1>5
  <2>2. 0 .. m + 1 \subseteq P
    <3>1. m + 1 \in Nat
      BY <1>1
    <3> QED
      BY <1>4, <2>1, <3>1, UpTo
  <2> QED
    BY <1>1, <2>2
<1>7. m = n /\ \A i \in 1 .. m : s[i] = q[i]
  BY <1>1, <1>6
<1> QED
  BY <1>7, SeqEqual DEF m, n

AreStarts(T, starts, a, b) == \A o : o \in T <=> \E i \in a .. b : starts[i] = o

LEMMA StartsAreCounted ==
    ASSUME NEW starts \in Seq(Nat), Increasing(starts), NEW a \in Nat, NEW b \in Nat,
           1 <= a, a <= b + 1, b <= Len(starts), NEW T, AreStarts(T, starts, a, b)
    PROVE  IsFiniteSet(T) /\ Cardinality(T) = b - a + 1
<1> DEFINE f == [i \in a .. b |-> starts[i]]
<1>1. /\ \A i \in a .. b : i \in 1 .. Len(starts)
      /\ \A i \in 1 .. Len(starts) : starts[i] \in Nat
  BY LenProperties, ElementOfSeq
<1>2. \A i, j \in a .. b : f[i] = f[j] => i = j
  <2> SUFFICES ASSUME NEW i \in a .. b, NEW j \in a .. b, starts[i] = starts[j] PROVE i = j
    OBVIOUS
  <2>1. ~(i < j) /\ ~(j < i)
    BY <1>1 DEF Increasing
  <2> QED
    BY <2>1
<1>3. f \in [a .. b -> T] /\ \A o \in T : \E i \in a .. b : f[i] = o
  BY DEF AreStarts
<1> HIDE DEF f
<1>4. f \in Surjection(a .. b, T)
  BY <1>3, Fun_IsSurj
<1>5. f \in Bijection(a .. b, T)
  BY <1>2, <1>3, <1>4, Fun_IsBij
<1>6. ExistsBijection(a .. b, T)
  BY <1>5 DEF ExistsBijection
<1>7. IsFiniteSet(a .. b) /\ Cardinality(a .. b) = b - a + 1
  <2>1. a \in Int /\ b \in Int
    OBVIOUS
  <2>2. IsFiniteSet(a .. b) /\ Cardinality(a .. b) = IF a > b THEN 0 ELSE b - a + 1
    BY <2>1, FS_Interval
  <2> QED
    BY <2>2
<1> QED
  BY <1>6, <1>7, FS_Bijection

LEMMA StartsOfText ==
    ASSUME NEW t \in Seq(TextBytes), NEW starts, IsLines(t, 0, Len(t), starts)
    PROVE  /\ starts \in Seq(Nat) /\ Len(starts) \in Nat /\ Len(starts) >= 1 /\ starts[1] = 0
           /\ Increasing(starts) /\ Len(t) \in Nat
           /\ \A i \in 1 .. Len(starts) : starts[i] \in Nat /\ starts[i] <= Len(t)
           /\ \A i \in 1 .. Len(starts) : starts[i] > 0 => AfterTerminator(t, starts[i])
           /\ \A o : o \in LineStarts(t) <=> \E i \in 1 .. Len(starts) : starts[i] = o
           /\ Cardinality(LineStarts(t)) = Len(starts)
<1> DEFINE n == Len(starts)
<1>1. /\ starts \in Seq(Nat) /\ n \in Nat /\ n >= 1 /\ starts[1] = 0 /\ Increasing(starts)
      /\ Len(t) \in Nat /\ \A i \in 1 .. n : starts[i] \in Nat
      /\ \A o \in Nat : (\E i \in 1 .. n : starts[i] = o) <=>
                           o = 0 \/ (o \in 0 + 1 .. Len(t) /\ AfterTerminator(t, o))
  <2>1. starts \in Seq(Nat)
    BY DEF IsLines
  <2> QED
    BY <2>1, LenProperties, ElementOfSeq DEF IsLines
<1>2. \A o : o \in LineStarts(t) <=> o \in Nat /\ (o = 0 \/ (o \in 0 + 1 .. Len(t) /\ AfterTerminator(t, o)))
  BY <1>1 DEF LineStarts
<1>3. \A o : o \in LineStarts(t) <=> \E i \in 1 .. n : starts[i] = o
  <2> HIDE DEF n
  <2> QED
    BY <1>1, <1>2
<1>4. \A i \in 1 .. n : starts[i] <= Len(t) /\ (starts[i] > 0 => AfterTerminator(t, starts[i]))
  <2> SUFFICES ASSUME NEW i \in 1 .. n
               PROVE  starts[i] <= Len(t) /\ (starts[i] > 0 => AfterTerminator(t, starts[i]))
    OBVIOUS
  <2> HIDE DEF n
  <2>1. starts[i] \in Nat
        /\ (starts[i] = 0 \/ (starts[i] \in 0 + 1 .. Len(t) /\ AfterTerminator(t, starts[i])))
    BY <1>1
  <2> QED
    BY <1>1, <2>1
<1>5. Cardinality(LineStarts(t)) = n
  <2> HIDE DEF n
  <2>1. 1 \in Nat /\ 1 <= 1 /\ 1 <= n + 1 /\ n <= n /\ n - 1 + 1 = n
    BY <1>1
  <2>2. AreStarts(LineStarts(t), starts, 1, n)
    BY <1>3 DEF AreStarts
  <2>3. Cardinality(LineStarts(t)) = n - 1 + 1
    BY <1>1, <2>1, <2>2, StartsAreCounted DEF n
  <2> QED
    BY <2>1, <2>3
<1> QED
  BY <1>1, <1>3, <1>4, <1>5

\* The line the editor counts is the line of the table.
LEMMA EditorLine ==
    ASSUME NEW t \in Seq(TextBytes), NEW starts, IsLines(t, 0, Len(t), starts), NEW o \in 0 .. Len(t),
           NEW k, IsLineOf(starts, o, k)
    PROVE  /\ Quantify(LineStarts(t), LAMBDA s : 0 < s /\ s <= o) = k - 1
           /\ Max({s \in LineStarts(t) : s <= o}) = starts[k]
<1> DEFINE n == Len(starts)
<1>1. /\ starts \in Seq(Nat) /\ n \in Nat /\ n >= 1 /\ starts[1] = 0 /\ Increasing(starts)
      /\ \A i \in 1 .. n : starts[i] \in Nat
      /\ \A x : x \in LineStarts(t) <=> \E i \in 1 .. n : starts[i] = x
      /\ \A i, j \in 1 .. n : i < j => starts[i] < starts[j]
      /\ o \in Nat
  BY StartsOfText DEF Increasing
<1>2. k \in 1 .. n /\ starts[k] <= o /\ \A i \in 1 .. n : starts[i] <= o <=> i <= k
  BY <1>1, LinesBefore DEF IsLineOf
<1>3. Quantify(LineStarts(t), LAMBDA s : 0 < s /\ s <= o) = k - 1
  <2> DEFINE T == {s \in LineStarts(t) : 0 < s /\ s <= o}
  <2>1. \A x : x \in T <=> \E i \in 2 .. k : starts[i] = x
    <3> SUFFICES ASSUME NEW x PROVE x \in T <=> \E i \in 2 .. k : starts[i] = x
      OBVIOUS
    <3> HIDE DEF n
    <3>1. ASSUME x \in T PROVE \E i \in 2 .. k : starts[i] = x
      <4>1. PICK i \in 1 .. n : starts[i] = x
        BY <1>1, <3>1
      <4>2. i # 1 /\ i <= k
        BY <1>1, <1>2, <3>1, <4>1
      <4> QED
        BY <1>2, <4>1, <4>2
    <3>2. ASSUME NEW i \in 2 .. k, starts[i] = x PROVE x \in T
      <4>1. i \in 1 .. n /\ 1 \in 1 .. n /\ 1 < i /\ i <= k
        BY <1>1, <1>2
      <4>2. starts[i] > 0 /\ starts[i] <= o
        BY <1>1, <1>2, <4>1
      <4> QED
        BY <1>1, <3>2, <4>1, <4>2
    <3> QED
      BY <3>1, <3>2
  <2>2. 2 \in Nat /\ k \in Nat /\ 1 <= 2 /\ 2 <= k + 1 /\ k <= n /\ k - 2 + 1 = k - 1
    BY <1>1, <1>2
  <2> HIDE DEF T
  <2>3. AreStarts(T, starts, 2, k)
    BY <2>1 DEF AreStarts
  <2>4. Cardinality(T) = k - 2 + 1
    BY <1>1, <2>2, <2>3, StartsAreCounted
  <2> QED
    BY <2>2, <2>4 DEF T, Quantify
<1>4. Max({s \in LineStarts(t) : s <= o}) = starts[k]
  <2> DEFINE T == {s \in LineStarts(t) : s <= o}
  <2>1. starts[k] \in T /\ \A x \in T : starts[k] >= x
    <3> HIDE DEF n
    <3>1. starts[k] \in T
      BY <1>1, <1>2
    <3>2. ASSUME NEW x \in T PROVE starts[k] >= x
      <4>1. PICK i \in 1 .. n : starts[i] = x
        BY <1>1
      <4>2. i <= k
        BY <1>1, <1>2, <4>1
      <4> QED
        BY <1>1, <1>2, <4>1, <4>2, SMTT(30)
    <3> QED
      BY <3>1, <3>2
  <2>2. \A x \in T : x \in Nat
    BY <1>1
  <2> HIDE DEF T
  <2>3. \A x \in T : (\A y \in T : x >= y) => x = starts[k]
    <3> SUFFICES ASSUME NEW x \in T, \A y \in T : x >= y PROVE x = starts[k]
      OBVIOUS
    <3>1. x >= starts[k] /\ starts[k] >= x /\ x \in Nat /\ starts[k] \in Nat
      BY <2>1, <2>2
    <3> QED
      BY <3>1
  <2>4. Max(T) = starts[k]
    BY <2>1, <2>3 DEF Max
  <2> QED
    BY <2>4 DEF T
<1> QED
  BY <1>3, <1>4

\* The binary search finds the line of the offset.
LEMMA FoundLine ==
    ASSUME offset_of_lines \in Seq(Nat), Increasing(offset_of_lines), NEW o \in Nat,
           NEW k, IsLineOf(offset_of_lines, o, k)
    PROVE  FindLineAtOffset(o) = k - 1
<1>1. /\ Len(offset_of_lines) \in Nat /\ k \in 1 .. Len(offset_of_lines)
      /\ \A i \in 1 .. Len(offset_of_lines) : offset_of_lines[i] <= o <=> i <= k
  BY LenProperties, LinesBefore DEF IsLineOf
<1> DEFINE T == {i \in 1 .. NumberOfLines - 1 : LineBegin(i) <= o}
<1>2. T = 1 .. k - 1
  <2> SUFFICES ASSUME NEW i \in Int
               PROVE  i \in 1 .. NumberOfLines - 1 /\ LineBegin(i) <= o <=> i \in 1 .. k - 1
    BY <1>1 DEF NumberOfLines
  <2>1. CASE i \in 1 .. NumberOfLines - 1
    <3>1. i + 1 \in 1 .. Len(offset_of_lines)
      BY <1>1, <2>1 DEF NumberOfLines
    <3>2. LineBegin(i) <= o <=> i + 1 <= k
      BY <1>1, <3>1 DEF LineBegin
    <3> QED
      BY <1>1, <2>1, <3>2
  <2>2. CASE i \notin 1 .. NumberOfLines - 1
    BY <1>1, <2>2 DEF NumberOfLines
  <2> QED
    BY <2>1, <2>2
<1>3. Cardinality(1 .. k - 1) = k - 1
  <2>1. 1 \in Int /\ k - 1 \in Int /\ (1 > k - 1 => k - 1 = 0)
    BY <1>1
  <2>2. Cardinality(1 .. k - 1) = IF 1 > k - 1 THEN 0 ELSE k - 1 - 1 + 1
    BY <2>1, FS_Interval
  <2> QED
    BY <2>1, <2>2
<1> QED
  BY <1>2, <1>3 DEF FindLineAtOffset, Quantify

-----------------------------------------------------------------------------
(* Characters and their UTF-16 units. *)

LEMMA InsideBytes ==
    ASSUME NEW t \in Seq(TextBytes), NEW o \in Nat, InsideCharacter(t, o)
    PROVE  o > 0 /\ o + 1 <= Len(t) /\ t[o] \in {"e1", "s1", "s2", "s3"}
           /\ t[o + 1] \in {"e2", "s2", "s3", "s4"}
<1>1. \/ o > 0 /\ Starts(t, o - 1, TwoBytes)
      \/ o > 0 /\ Starts(t, o - 1, FourBytes)
      \/ o > 1 /\ Starts(t, o - 2, FourBytes)
      \/ o > 2 /\ Starts(t, o - 3, FourBytes)
  BY PlaceFacts
<1>2. CASE o > 0 /\ Starts(t, o - 1, TwoBytes)
  <2>1. o - 1 \in Nat /\ (o - 1) + 1 = o /\ (o - 1) + 2 = o + 1
    BY <1>2
  <2>2. (o - 1) + 2 <= Len(t) /\ t[(o - 1) + 1] = "e1" /\ t[(o - 1) + 2] = "e2"
    BY <1>2, <2>1, StartsFacts
  <2> QED
    BY <1>2, <2>1, <2>2
<1>3. CASE o > 0 /\ Starts(t, o - 1, FourBytes)
  <2>1. o - 1 \in Nat /\ (o - 1) + 1 = o /\ (o - 1) + 2 = o + 1 /\ (o - 1) + 4 = o + 3
    BY <1>3
  <2>2. (o - 1) + 4 <= Len(t) /\ t[(o - 1) + 1] = "s1" /\ t[(o - 1) + 2] = "s2"
    BY <1>3, <2>1, StartsFacts
  <2>3. o + 1 <= Len(t)
    BY <2>1, <2>2, LenProperties
  <2> QED
    BY <1>3, <2>1, <2>2, <2>3
<1>4. CASE o > 1 /\ Starts(t, o - 2, FourBytes)
  <2>1. o - 2 \in Nat /\ (o - 2) + 2 = o /\ (o - 2) + 3 = o + 1 /\ (o - 2) + 4 = o + 2
    BY <1>4
  <2>2. (o - 2) + 4 <= Len(t) /\ t[(o - 2) + 2] = "s2" /\ t[(o - 2) + 3] = "s3"
    BY <1>4, <2>1, StartsFacts
  <2>3. o + 1 <= Len(t)
    BY <2>1, <2>2, LenProperties
  <2> QED
    BY <1>4, <2>1, <2>2, <2>3
<1>5. CASE o > 2 /\ Starts(t, o - 3, FourBytes)
  <2>1. o - 3 \in Nat /\ (o - 3) + 3 = o /\ (o - 3) + 4 = o + 1
    BY <1>5
  <2>2. (o - 3) + 4 <= Len(t) /\ t[(o - 3) + 3] = "s3" /\ t[(o - 3) + 4] = "s4"
    BY <1>5, <2>1, StartsFacts
  <2> QED
    BY <1>5, <2>1, <2>2
<1> QED
  BY <1>1, <1>2, <1>3, <1>4, <1>5

\* A character begins where the one before it ends.
LEMMA CharacterFacts ==
    ASSUME NEW t \in Seq(TextBytes), NEW c \in Nat, c < Len(t), ~InsideCharacter(t, c)
    PROVE  /\ Size(t, c) \in {1, 2, 4} /\ c + Size(t, c) <= Len(t)
           /\ Units(t, c) \in {1, 2} /\ Units(t, c) <= Size(t, c)
           /\ Units(t, c) = 2 <=> Starts(t, c, FourBytes)
           /\ ~InsideCharacter(t, c + Size(t, c))
           /\ \A x \in c + 1 .. c + Size(t, c) - 1 : InsideCharacter(t, x)
<1>1. /\ Starts(t, c, TwoBytes) <=> c + 2 <= Len(t) /\ t[c + 1] = "e1" /\ t[c + 2] = "e2"
      /\ Starts(t, c, FourBytes) <=>
           c + 4 <= Len(t) /\ t[c + 1] = "s1" /\ t[c + 2] = "s2" /\ t[c + 3] = "s3" /\ t[c + 4] = "s4"
      /\ Len(t) \in Nat
  BY StartsFacts, LenProperties
<1>2. CASE Starts(t, c, FourBytes)
  <2>1. Size(t, c) = 4 /\ Units(t, c) = 2
    BY <1>2 DEF Size, Units
  <2>2. c + 4 \in Nat /\ c + 4 <= Len(t) /\ t[c + 4] = "s4"
    BY <1>1, <1>2
  <2>3. ~InsideCharacter(t, c + 4)
    BY <2>2, InsideBytes
  <2>4. ASSUME NEW x \in c + 1 .. c + 4 - 1 PROVE InsideCharacter(t, x)
    <3>1. x \in Nat /\ (x = c + 1 \/ x = c + 2 \/ x = c + 3)
      BY <2>4
    <3>2. CASE x = c + 1
      <4>1. x > 0 /\ x - 1 = c
        BY <3>2
      <4> QED
        BY <1>2, <3>1, <4>1, PlaceFacts
    <3>3. CASE x = c + 2
      <4>1. x > 1 /\ x - 2 = c
        BY <3>3
      <4> QED
        BY <1>2, <3>1, <4>1, PlaceFacts
    <3>4. CASE x = c + 3
      <4>1. x > 2 /\ x - 3 = c
        BY <3>4
      <4> QED
        BY <1>2, <3>1, <4>1, PlaceFacts
    <3> QED
      BY <3>1, <3>2, <3>3, <3>4
  <2> QED
    BY <1>2, <2>1, <2>2, <2>3, <2>4
<1>3. CASE ~Starts(t, c, FourBytes) /\ Starts(t, c, TwoBytes)
  <2>1. Size(t, c) = 2 /\ Units(t, c) = 1
    BY <1>3 DEF Size, Units
  <2>2. c + 2 \in Nat /\ c + 2 <= Len(t) /\ t[c + 2] = "e2"
    BY <1>1, <1>3
  <2>3. ~InsideCharacter(t, c + 2)
    BY <2>2, InsideBytes
  <2>4. ASSUME NEW x \in c + 1 .. c + 2 - 1 PROVE InsideCharacter(t, x)
    <3>1. x \in Nat /\ x > 0 /\ x - 1 = c
      BY <2>4
    <3> QED
      BY <1>3, <3>1, PlaceFacts
  <2> QED
    BY <1>3, <2>1, <2>2, <2>3, <2>4
<1>4. CASE ~Starts(t, c, FourBytes) /\ ~Starts(t, c, TwoBytes)
  <2>1. Size(t, c) = 1 /\ Units(t, c) = 1
    BY <1>4 DEF Size, Units
  <2>2. c + 1 <= Len(t) /\ \A x \in c + 1 .. c + 1 - 1 : FALSE
    BY <1>1
  <2>3. ~InsideCharacter(t, c + 1)
    <3> SUFFICES ASSUME InsideCharacter(t, c + 1) PROVE FALSE
      OBVIOUS
    <3> DEFINE o == c + 1
    <3>1. o \in Nat /\ o - 1 = c /\ (o > 1 => c > 0) /\ (o > 2 => c > 1)
          /\ o - 2 = c - 1 /\ o - 3 = c - 2 /\ InsideCharacter(t, o)
      OBVIOUS
    <3> HIDE DEF o
    <3>2. \/ o > 0 /\ Starts(t, o - 1, TwoBytes)
          \/ o > 0 /\ Starts(t, o - 1, FourBytes)
          \/ o > 1 /\ Starts(t, o - 2, FourBytes)
          \/ o > 2 /\ Starts(t, o - 3, FourBytes)
      BY <3>1, PlaceFacts
    <3>3. (c > 0 /\ Starts(t, c - 1, FourBytes)) \/ (c > 1 /\ Starts(t, c - 2, FourBytes))
      BY <1>4, <3>1, <3>2
    <3> QED
      BY <3>3, PlaceFacts
  <2> QED
    BY <1>4, <2>1, <2>2, <2>3
<1> QED
  BY <1>2, <1>3, <1>4

CharactersIn(t, b, o) == {c \in b .. o - 1 : ~InsideCharacter(t, c)}
PairsIn(t, b, o) == {c \in CharactersIn(t, b, o) : Starts(t, c, FourBytes)}
UnitsIn(t, b, o) == Cardinality(CharactersIn(t, b, o)) + Cardinality(PairsIn(t, b, o))

LEMMA UnitsAreFinite ==
    ASSUME NEW t, NEW b \in Nat, NEW o \in Nat
    PROVE  /\ IsFiniteSet(CharactersIn(t, b, o)) /\ IsFiniteSet(PairsIn(t, b, o))
           /\ Cardinality(CharactersIn(t, b, o)) \in Nat /\ Cardinality(PairsIn(t, b, o)) \in Nat
           /\ UnitsIn(t, b, o) \in Nat
<1>1. IsFiniteSet(b .. o - 1)
  <2>1. b \in Int /\ o - 1 \in Int
    OBVIOUS
  <2> QED
    BY <2>1, FS_Interval
<1>2. CharactersIn(t, b, o) \subseteq b .. o - 1 /\ PairsIn(t, b, o) \subseteq b .. o - 1
  BY DEF CharactersIn, PairsIn
<1>3. IsFiniteSet(CharactersIn(t, b, o)) /\ IsFiniteSet(PairsIn(t, b, o))
  BY <1>1, <1>2, FS_Subset
<1>4. Cardinality(CharactersIn(t, b, o)) \in Nat /\ Cardinality(PairsIn(t, b, o)) \in Nat
  BY <1>3, FS_CardinalityType
<1> QED
  BY <1>3, <1>4 DEF UnitsIn

LEMMA UnitsAreAdded ==
    ASSUME NEW t, NEW b \in Nat, NEW c \in Nat, NEW o \in Nat, b <= c, c <= o
    PROVE  UnitsIn(t, b, o) = UnitsIn(t, b, c) + UnitsIn(t, c, o)
<1>1. b .. o - 1 = (b .. c - 1) \cup (c .. o - 1) /\ (b .. c - 1) \cap (c .. o - 1) = {}
  OBVIOUS
<1>2. /\ CharactersIn(t, b, o) = CharactersIn(t, b, c) \cup CharactersIn(t, c, o)
      /\ CharactersIn(t, b, c) \cap CharactersIn(t, c, o) = {}
  BY <1>1 DEF CharactersIn
<1>3. /\ PairsIn(t, b, o) = PairsIn(t, b, c) \cup PairsIn(t, c, o)
      /\ PairsIn(t, b, c) \cap PairsIn(t, c, o) = {}
  BY <1>2 DEF PairsIn
<1>4. Cardinality({}) = 0
  BY FS_EmptySet
<1>5. Cardinality(CharactersIn(t, b, o)) =
        Cardinality(CharactersIn(t, b, c)) + Cardinality(CharactersIn(t, c, o))
  <2>1. Cardinality(CharactersIn(t, b, c) \cup CharactersIn(t, c, o)) =
          Cardinality(CharactersIn(t, b, c)) + Cardinality(CharactersIn(t, c, o))
            - Cardinality(CharactersIn(t, b, c) \cap CharactersIn(t, c, o))
    BY UnitsAreFinite, FS_Union
  <2>2. Cardinality(CharactersIn(t, b, c) \cap CharactersIn(t, c, o)) = 0
    BY <1>2, <1>4, Zenon
  <2>3. Cardinality(CharactersIn(t, b, c)) \in Nat /\ Cardinality(CharactersIn(t, c, o)) \in Nat
    BY UnitsAreFinite
  <2>4. Cardinality(CharactersIn(t, b, o)) = Cardinality(CharactersIn(t, b, c) \cup CharactersIn(t, c, o))
    BY <1>2, Zenon
  <2> QED
    BY <2>1, <2>2, <2>3, <2>4
<1>6. Cardinality(PairsIn(t, b, o)) =
        Cardinality(PairsIn(t, b, c)) + Cardinality(PairsIn(t, c, o))
  <2>1. Cardinality(PairsIn(t, b, c) \cup PairsIn(t, c, o)) =
          Cardinality(PairsIn(t, b, c)) + Cardinality(PairsIn(t, c, o))
            - Cardinality(PairsIn(t, b, c) \cap PairsIn(t, c, o))
    BY UnitsAreFinite, FS_Union
  <2>2. Cardinality(PairsIn(t, b, c) \cap PairsIn(t, c, o)) = 0
    BY <1>3, <1>4, Zenon
  <2>3. Cardinality(PairsIn(t, b, c)) \in Nat /\ Cardinality(PairsIn(t, c, o)) \in Nat
    BY UnitsAreFinite
  <2>4. Cardinality(PairsIn(t, b, o)) = Cardinality(PairsIn(t, b, c) \cup PairsIn(t, c, o))
    BY <1>3, Zenon
  <2> QED
    BY <2>1, <2>2, <2>3, <2>4
<1> QED
  BY <1>5, <1>6, UnitsAreFinite DEF UnitsIn

LEMMA UnitsOfNothing ==
    ASSUME NEW t, NEW o \in Nat
    PROVE  UnitsIn(t, o, o) = 0
<1>1. CharactersIn(t, o, o) = {} /\ PairsIn(t, o, o) = {}
  BY DEF CharactersIn, PairsIn
<1> QED
  BY <1>1, FS_EmptySet DEF UnitsIn

LEMMA UnitsOfOne ==
    ASSUME NEW t \in Seq(TextBytes), NEW c \in Nat, c < Len(t), ~InsideCharacter(t, c)
    PROVE  UnitsIn(t, c, c + Size(t, c)) = Units(t, c)
<1>1. /\ Size(t, c) \in {1, 2, 4} /\ Units(t, c) \in {1, 2}
      /\ Units(t, c) = 2 <=> Starts(t, c, FourBytes)
      /\ \A x \in c + 1 .. c + Size(t, c) - 1 : InsideCharacter(t, x)
  BY CharacterFacts
<1>2. \A x : x \in c .. c + Size(t, c) - 1 <=> x = c \/ x \in c + 1 .. c + Size(t, c) - 1
  BY <1>1
<1>3. CharactersIn(t, c, c + Size(t, c)) = {c}
  BY <1>1, <1>2 DEF CharactersIn
<1>4. PairsIn(t, c, c + Size(t, c)) = IF Starts(t, c, FourBytes) THEN {c} ELSE {}
  BY <1>3 DEF PairsIn
<1>5. Cardinality({c}) = 1 /\ Cardinality({}) = 0
  BY FS_Singleton, FS_EmptySet
<1>6. Cardinality(CharactersIn(t, c, c + Size(t, c))) = 1
  BY <1>3, <1>5, Zenon
<1>7. CASE Starts(t, c, FourBytes)
  <2>1. Cardinality(PairsIn(t, c, c + Size(t, c))) = 1
    BY <1>4, <1>5, <1>7, Zenon
  <2> QED
    BY <1>1, <1>6, <1>7, <2>1 DEF UnitsIn
<1>8. CASE ~Starts(t, c, FourBytes)
  <2>1. Cardinality(PairsIn(t, c, c + Size(t, c))) = 0
    BY <1>4, <1>5, <1>8, Zenon
  <2> QED
    BY <1>1, <1>6, <1>8, <2>1 DEF UnitsIn
<1> QED
  BY <1>7, <1>8

\* The units from a character to a place are its own and those after it.
LEMMA UnitsOfFirst ==
    ASSUME NEW t \in Seq(TextBytes), NEW c \in Nat, NEW o \in Nat, c < o, o <= Len(t),
           ~InsideCharacter(t, c), ~InsideCharacter(t, o)
    PROVE  /\ Size(t, c) \in {1, 2, 4} /\ c + Size(t, c) \in c + 1 .. o
           /\ ~InsideCharacter(t, c + Size(t, c))
           /\ Units(t, c) \in {1, 2} /\ Units(t, c) <= Size(t, c)
           /\ UnitsIn(t, c, o) = Units(t, c) + UnitsIn(t, c + Size(t, c), o)
           /\ Units(t, c) = UnitsIn(t, c, c + Size(t, c))
<1>1. /\ Len(t) \in Nat /\ c < Len(t)
  BY LenProperties
<1>2. /\ Size(t, c) \in {1, 2, 4} /\ c + Size(t, c) <= Len(t)
      /\ Units(t, c) \in {1, 2} /\ Units(t, c) <= Size(t, c)
      /\ ~InsideCharacter(t, c + Size(t, c))
      /\ \A x \in c + 1 .. c + Size(t, c) - 1 : InsideCharacter(t, x)
  BY <1>1, CharacterFacts
<1>3. c + Size(t, c) <= o
  <2>1. o \notin c + 1 .. c + Size(t, c) - 1
    BY <1>2
  <2> QED
    BY <1>2, <2>1
<1>4. UnitsIn(t, c, c + Size(t, c)) = Units(t, c)
  BY <1>1, UnitsOfOne
<1>5. c + Size(t, c) \in Nat /\ c <= c + Size(t, c)
  BY <1>2
<1>6. UnitsIn(t, c, o) = UnitsIn(t, c, c + Size(t, c)) + UnitsIn(t, c + Size(t, c), o)
  BY <1>3, <1>5, UnitsAreAdded
<1> QED
  BY <1>2, <1>3, <1>4, <1>5, <1>6

LEMMA UnitsAreFewer ==
    ASSUME NEW t \in Seq(TextBytes), NEW b \in Nat, NEW o \in Nat, b <= o, o <= Len(t),
           ~InsideCharacter(t, b), ~InsideCharacter(t, o)
    PROVE  UnitsIn(t, b, o) <= o - b
<1> DEFINE P == {c \in b .. o : ~InsideCharacter(t, c) => UnitsIn(t, c, o) <= o - c}
<1>1. ASSUME NEW c \in b .. o, c + 1 .. o \subseteq P PROVE c \in P
  <2>1. CASE c = o
    BY <2>1, UnitsOfNothing
  <2>2. CASE c # o
    <3>1. SUFFICES ASSUME ~InsideCharacter(t, c) PROVE UnitsIn(t, c, o) <= o - c
      OBVIOUS
    <3>2. c \in Nat /\ c < o
      BY <2>2
    <3>3. /\ Size(t, c) \in {1, 2, 4} /\ c + Size(t, c) \in c + 1 .. o
          /\ ~InsideCharacter(t, c + Size(t, c))
          /\ Units(t, c) \in {1, 2} /\ Units(t, c) <= Size(t, c)
          /\ UnitsIn(t, c, o) = Units(t, c) + UnitsIn(t, c + Size(t, c), o)
      BY <3>1, <3>2, UnitsOfFirst
    <3>4. UnitsIn(t, c + Size(t, c), o) <= o - (c + Size(t, c))
      BY <1>1, <3>3
    <3>5. UnitsIn(t, c + Size(t, c), o) \in Nat
      <4>1. c + Size(t, c) \in Nat
        BY <3>2, <3>3
      <4> QED
        BY <4>1, UnitsAreFinite
    <3> QED
      BY <3>2, <3>3, <3>4, <3>5
  <2> QED
    BY <2>1, <2>2
<1>2. b .. o \subseteq P
  <2> HIDE DEF P
  <2>1. b \in Int /\ o \in Int
    OBVIOUS
  <2> QED
    BY <1>1, <2>1, DownTo
<1>3. b \in b .. o
  OBVIOUS
<1> QED
  BY <1>2, <1>3

\* The bytes of a part of a text.
LEMMA PartOfText ==
    ASSUME NEW t \in Seq(TextBytes), NEW b \in Nat, NEW e \in Nat, b <= e, e <= Len(t)
    PROVE  LET line == SubSeq(t, b + 1, e)
           IN  /\ line \in Seq(TextBytes) /\ Len(line) = e - b /\ \A i \in 1 .. e - b : line[i] = t[b + i]
               /\ \A c \in Nat :
                    /\ Starts(line, c, TwoBytes) <=> b + c + 2 <= e /\ Starts(t, b + c, TwoBytes)
                    /\ Starts(line, c, FourBytes) <=> b + c + 4 <= e /\ Starts(t, b + c, FourBytes)
<1> DEFINE line == SubSeq(t, b + 1, e)
<1>1. Len(t) \in Nat /\ \A i \in b + 1 .. e : t[i] \in TextBytes
  <2>1. Len(t) \in Nat /\ \A i \in 1 .. Len(t) : t[i] \in TextBytes
    BY LenProperties, ElementOfSeq
  <2> QED
    BY <2>1
<1>2. /\ line \in Seq(TextBytes)
      /\ Len(line) = IF b + 1 <= e THEN e - (b + 1) + 1 ELSE 0
      /\ \A i \in 1 .. e - (b + 1) + 1 : line[i] = t[(b + 1) + i - 1]
  <2>1. b + 1 \in Int /\ e \in Int
    OBVIOUS
  <2> QED
    BY <1>1, <2>1, SubSeqProperties
<1> HIDE DEF line
<1>3. Len(line) = e - b /\ \A i \in 1 .. e - b : line[i] = t[b + i]
  <2>1. e - (b + 1) + 1 = e - b /\ \A i \in 1 .. e - b : (b + 1) + i - 1 = b + i
    OBVIOUS
  <2>2. Len(line) = e - b
    BY <1>2, <2>1
  <2>3. ASSUME NEW i \in 1 .. e - b PROVE line[i] = t[b + i]
    BY <1>2, <2>1, <2>3
  <2> QED
    BY <2>2, <2>3
<1>4. ASSUME NEW c \in Nat
      PROVE  /\ Starts(line, c, TwoBytes) <=> b + c + 2 <= e /\ Starts(t, b + c, TwoBytes)
             /\ Starts(line, c, FourBytes) <=> b + c + 4 <= e /\ Starts(t, b + c, FourBytes)
  <2>1. /\ Starts(line, c, TwoBytes) <=> c + 2 <= e - b /\ line[c + 1] = "e1" /\ line[c + 2] = "e2"
        /\ Starts(line, c, FourBytes) <=>
             c + 4 <= e - b /\ line[c + 1] = "s1" /\ line[c + 2] = "s2" /\ line[c + 3] = "s3"
             /\ line[c + 4] = "s4"
    BY <1>2, <1>3, StartsFacts
  <2>2. /\ Starts(t, b + c, TwoBytes) <=>
             b + c + 2 <= Len(t) /\ t[b + c + 1] = "e1" /\ t[b + c + 2] = "e2"
        /\ Starts(t, b + c, FourBytes) <=>
             b + c + 4 <= Len(t) /\ t[b + c + 1] = "s1" /\ t[b + c + 2] = "s2"
             /\ t[b + c + 3] = "s3" /\ t[b + c + 4] = "s4"
    <3>1. b + c \in Nat
      OBVIOUS
    <3> QED
      BY <3>1, StartsFacts
  <2>3. ASSUME NEW k \in 1 .. 4, c + k <= e - b PROVE line[c + k] = t[b + c + k]
    <3>1. c + k \in 1 .. e - b /\ b + (c + k) = b + c + k
      BY <2>3
    <3> QED
      BY <1>3, <3>1
  <2>4. (c + 2 <= e - b <=> b + c + 2 <= e) /\ (c + 4 <= e - b <=> b + c + 4 <= e)
    OBVIOUS
  <2>5. CASE c + 2 <= e - b
    <3>1. line[c + 1] = t[b + c + 1] /\ line[c + 2] = t[b + c + 2] /\ b + c + 2 <= Len(t)
      BY <1>1, <2>3, <2>5
    <3>2. CASE c + 4 <= e - b
      <4>1. line[c + 3] = t[b + c + 3] /\ line[c + 4] = t[b + c + 4] /\ b + c + 4 <= Len(t)
        BY <1>1, <2>3, <3>2
      <4> QED
        BY <2>1, <2>2, <2>4, <3>1, <3>2, <4>1
    <3>3. CASE ~(c + 4 <= e - b)
      BY <2>1, <2>2, <2>4, <2>5, <3>1, <3>3
    <3> QED
      BY <3>2, <3>3
  <2>6. CASE ~(c + 2 <= e - b)
    <3>1. ~(c + 4 <= e - b)
      BY <2>6
    <3> QED
      BY <2>1, <2>4, <2>6, <3>1
  <2> QED
    BY <2>5, <2>6
<1> QED
  BY <1>2, <1>3, <1>4 DEF line

\* count_lsp_characters_in_utf_8 counts the units up to a place.
LEMMA CountIsRight ==
    ASSUME NEW t \in Seq(TextBytes), NEW b \in Nat, NEW o \in Nat, b <= o, o <= Len(t),
           ~InsideCharacter(t, b), ~InsideCharacter(t, o)
    PROVE  CountLspCharacters(SubSeq(t, b + 1, Len(t)), o - b) = UnitsIn(t, b, o)
<1> DEFINE line == SubSeq(t, b + 1, Len(t))
           stop == o - b
           Value(c, f) == IF c = stop \/ c + Size(line, c) > stop THEN 0
                          ELSE Units(line, c) + f[c + Size(line, c)]
           Body(f) == [c \in 0 .. stop |-> Value(c, f)]
           count == CHOOSE f : f = Body(f)
           F == [0 .. stop -> Nat]
           Good == {c \in 0 .. stop : ~InsideCharacter(t, b + c) => count[c] = UnitsIn(t, b + c, o)}
<1>1. CountLspCharacters(line, stop) = count[0]
  BY DEF CountLspCharacters
<1>2. Len(t) \in Nat /\ stop \in Nat /\ 0 \in Int /\ stop \in Int /\ b + stop = o /\ o \in Nat
  BY LenProperties
<1>3. \A c \in Nat : /\ Starts(line, c, TwoBytes) <=> b + c + 2 <= Len(t) /\ Starts(t, b + c, TwoBytes)
                     /\ Starts(line, c, FourBytes) <=> b + c + 4 <= Len(t) /\ Starts(t, b + c, FourBytes)
  <2>1. b <= Len(t)
    BY <1>2
  <2> QED
    BY <1>2, <2>1, PartOfText
<1> HIDE DEF line, stop
<1>4. \A c \in Nat : Size(line, c) = Size(t, b + c) /\ Units(line, c) = Units(t, b + c)
  <2> SUFFICES ASSUME NEW c \in Nat PROVE Size(line, c) = Size(t, b + c) /\ Units(line, c) = Units(t, b + c)
    OBVIOUS
  <2>1. /\ Starts(t, b + c, TwoBytes) => b + c + 2 <= Len(t)
        /\ Starts(t, b + c, FourBytes) => b + c + 4 <= Len(t)
    <3>1. b + c \in Nat
      OBVIOUS
    <3> QED
      BY <3>1, StartsFacts
  <2>2. /\ Starts(line, c, TwoBytes) <=> Starts(t, b + c, TwoBytes)
        /\ Starts(line, c, FourBytes) <=> Starts(t, b + c, FourBytes)
    BY <1>3, <2>1
  <2> QED
    BY <2>2 DEF Size, Units
<1>5. \A c \in Nat : Size(line, c) \in {1, 2, 4} /\ Units(line, c) \in {1, 2}
  BY DEF Size, Units
<1>6. \A c \in 0 .. stop, f \in [0 .. stop -> Nat] : Value(c, f) \in Nat
  <2> TAKE c \in 0 .. stop, f \in [0 .. stop -> Nat]
  <2>1. CASE c = stop \/ c + Size(line, c) > stop
    BY <2>1
  <2>2. CASE ~(c = stop \/ c + Size(line, c) > stop)
    <3>1. c + Size(line, c) \in 0 .. stop /\ Units(line, c) \in Nat
      <4>1. c \in Nat /\ Size(line, c) \in {1, 2, 4} /\ Units(line, c) \in {1, 2}
        BY <1>2, <1>5
      <4>2. ~(c + Size(line, c) > stop)
        BY <2>2
      <4> DEFINE z == Size(line, c)
      <4>3. z \in Nat /\ ~(c + z > stop) /\ stop \in Nat
        BY <1>2, <4>1, <4>2
      <4> HIDE DEF z
      <4>4. c + z \in 0 .. stop
        BY <4>1, <4>3
      <4> QED
        BY <4>1, <4>4 DEF z
    <3>2. f[c + Size(line, c)] \in Nat
      BY <3>1
    <3>3. Value(c, f) = Units(line, c) + f[c + Size(line, c)]
      BY <2>2
    <3> HIDE DEF Value
    <3> QED
      BY <3>1, <3>2, <3>3
  <2> QED
    BY <2>1, <2>2
<1>7. ASSUME NEW c \in 0 .. stop, NEW f \in F, NEW g \in F,
             \A j \in c + 1 .. stop : f[j] = g[j]
      PROVE  Value(c, f) = Value(c, g)
  <2>1. CASE c = stop \/ c + Size(line, c) > stop
    BY <2>1
  <2>2. CASE ~(c = stop \/ c + Size(line, c) > stop)
    <3>1. c + Size(line, c) \in c + 1 .. stop
      <4>1. c \in Nat /\ Size(line, c) \in {1, 2, 4}
        BY <1>2, <1>5
      <4>2. ~(c + Size(line, c) > stop)
        BY <2>2
      <4> DEFINE s == Size(line, c)
      <4>3. s \in {1, 2, 4} /\ ~(c + s > stop)
        BY <4>1, <4>2
      <4> HIDE DEF s
      <4>4. c + s \in c + 1 .. stop
        BY <1>2, <4>1, <4>3
      <4> QED
        BY <4>4 DEF s
    <3>2. f[c + Size(line, c)] = g[c + Size(line, c)]
      BY <1>7, <3>1
    <3> QED
      BY <3>2
  <2> QED
    BY <2>1, <2>2
<1>8. count = Body(count)
  <2> DEFINE step == [kf \in (0 .. stop) \X F |-> Value(kf[1], kf[2])]
  <2>1. \A k \in 0 .. stop, f \in F : step[<<k, f>>] = Value(k, f)
    <3> HIDE DEF Value
    <3> QED
      OBVIOUS
  <2>2. step \in [(0 .. stop) \X F -> Nat]
    <3> HIDE DEF Value
    <3> QED
      BY <1>6
  <2>3. LooksAhead(0, stop, Nat, step)
    <3> SUFFICES ASSUME NEW k \in 0 .. stop, NEW f \in F, NEW g \in F,
                        \A j \in k + 1 .. stop : f[j] = g[j]
                 PROVE  step[<<k, f>>] = step[<<k, g>>]
      BY DEF LooksAhead
    <3> HIDE DEF Value, step, F
    <3> QED
      BY <1>7, <2>1
  <2>4. DownChains(0, stop, Nat, step) # {}
    <3> HIDE DEF step
    <3> QED
      BY <1>2, <2>2, <2>3, DownRecursion
  <2>5. PICK f \in F : \A k \in 0 .. stop : f[k] = step[<<k, f>>]
    BY <2>4, ZenonT(40) DEF DownChains
  <2> HIDE DEF Value, step
  <2>6. f = Body(f)
    BY <2>1, <2>5
  <2> HIDE DEF Body
  <2> QED
    BY <2>6
<1>9. \A c \in 0 .. stop : count[c] = Value(c, count)
  <2> HIDE DEF count, Value
  <2>1. \A c \in 0 .. stop : Body(count)[c] = Value(c, count)
    OBVIOUS
  <2> HIDE DEF Body
  <2> QED
    BY <1>8, <2>1
<1> HIDE DEF count
<1>10. ASSUME NEW c \in 0 .. stop, c + 1 .. stop \subseteq Good PROVE c \in Good
  <2> SUFFICES ASSUME ~InsideCharacter(t, b + c) PROVE count[c] = UnitsIn(t, b + c, o)
    OBVIOUS
  <2>1. CASE c = stop
    <3>1. count[c] = 0 /\ b + c = o
      BY <1>2, <1>9, <2>1
    <3> QED
      BY <3>1, UnitsOfNothing
  <2>2. CASE c # stop
    <3> DEFINE p == b + c
    <3>1. p \in Nat /\ p < o /\ ~InsideCharacter(t, p) /\ c \in Nat
      BY <1>2, <2>2
    <3> HIDE DEF p
    <3>2. /\ Size(t, p) \in {1, 2, 4} /\ p + Size(t, p) \in p + 1 .. o
          /\ ~InsideCharacter(t, p + Size(t, p))
          /\ UnitsIn(t, p, o) = Units(t, p) + UnitsIn(t, p + Size(t, p), o)
      BY <3>1, UnitsOfFirst
    <3> DEFINE d == c + Size(line, c)
    <3>3. Size(line, c) = Size(t, p) /\ Units(line, c) = Units(t, p)
      BY <1>4, <3>1 DEF p
    <3>4. d \in c + 1 .. stop /\ b + d = p + Size(t, p) /\ d \in Int /\ ~(d > stop)
      BY <1>2, <3>1, <3>2, <3>3, SMTT(30) DEF p
    <3>5. count[c] = Units(t, p) + count[d]
      BY <1>9, <2>2, <3>3, <3>4
    <3> HIDE DEF d
    <3>6. count[d] = UnitsIn(t, p + Size(t, p), o)
      BY <1>10, <3>2, <3>4
    <3> QED
      BY <3>2, <3>5, <3>6 DEF p
  <2> QED
    BY <2>1, <2>2
<1>11. 0 .. stop \subseteq Good
  <2> HIDE DEF Good
  <2> QED
    BY <1>2, <1>10, DownTo
<1>12. count[0] = UnitsIn(t, b + 0, o)
  <2>1. 0 \in 0 .. stop /\ b + 0 = b
    BY <1>2
  <2> QED
    BY <1>11, <2>1
<1> QED
  BY <1>1, <1>12 DEF line, stop

\* advance_lsp_characters_in_utf_8 leads to the place that many units after the
\* beginning of a line, and to the end of the line if there are fewer.
LEMMA AdvanceIsRight ==
    ASSUME NEW t \in Seq(TextBytes), NEW b \in Nat, NEW o \in Nat, NEW e \in Nat,
           b <= o, o <= e, e <= Len(t), ~InsideCharacter(t, b), ~InsideCharacter(t, o), NEW ch \in Nat,
           ch = UnitsIn(t, b, o) \/ (o = e /\ ch >= UnitsIn(t, b, o))
    PROVE  AdvanceLspCharacters(SubSeq(t, b + 1, e), ch) = o - b
<1> DEFINE line == SubSeq(t, b + 1, e)
           n == Len(line)
           Value(at, f) == IF at[2] = ch \/ at[1] = n THEN at[1]
                           ELSE IF at[2] + Units(line, at[1]) > ch THEN at[1]
                           ELSE f[<<at[1] + Size(line, at[1]), at[2] + Units(line, at[1])>>]
           Body(f) == [at \in (0 .. n) \X (0 .. ch) |-> Value(at, f)]
           advance == CHOOSE f : f = Body(f)
           before(c) == UnitsIn(t, b, b + c)
           Good == {c \in 0 .. o - b : ~InsideCharacter(t, b + c) => advance[<<c, before(c)>>] = o - b}
<1>1. AdvanceLspCharacters(line, ch) = IF ch >= n THEN n ELSE advance[<<0, 0>>]
  BY DEF AdvanceLspCharacters
<1>2. /\ Len(t) \in Nat /\ n = e - b /\ n \in Nat /\ o <= Len(t)
      /\ \A c \in Nat : /\ Starts(line, c, TwoBytes) <=> b + c + 2 <= e /\ Starts(t, b + c, TwoBytes)
                        /\ Starts(line, c, FourBytes) <=> b + c + 4 <= e /\ Starts(t, b + c, FourBytes)
  <2>1. b <= e /\ Len(t) \in Nat /\ o <= Len(t)
    BY LenProperties
  <2>2. n = e - b
    BY <2>1, PartOfText
  <2>3. \A c \in Nat : /\ Starts(line, c, TwoBytes) <=> b + c + 2 <= e /\ Starts(t, b + c, TwoBytes)
                       /\ Starts(line, c, FourBytes) <=> b + c + 4 <= e /\ Starts(t, b + c, FourBytes)
    BY <2>1, PartOfText
  <2>4. n \in Nat
    BY <2>1, <2>2
  <2> QED
    BY <2>1, <2>2, <2>3, <2>4
<1>3. UnitsIn(t, b, o) \in Nat /\ UnitsIn(t, b, o) <= o - b
  BY <1>2, UnitsAreFinite, UnitsAreFewer
<1>4. CASE ch >= n
  <2>1. o = e
    BY <1>2, <1>3, <1>4
  <2> HIDE DEF n, advance, line
  <2>2. AdvanceLspCharacters(line, ch) = n
    BY <1>1, <1>4
  <2> QED
    BY <1>2, <2>1, <2>2 DEF line
<1>5. CASE ch < n
  <2> HIDE DEF line, n
  <2>1. \A c \in 0 .. n - 1 : Units(line, c) \in {1, 2} /\ Size(line, c) \in Nat
                              /\ c + Size(line, c) \in c + 1 .. n
    <3> TAKE c \in 0 .. n - 1
    <3>1. c \in Nat /\ c + 1 <= n
      BY <1>2
    <3>2. (Starts(line, c, TwoBytes) => c + 2 <= n) /\ (Starts(line, c, FourBytes) => c + 4 <= n)
      BY <1>2, <3>1
    <3> QED
      BY <1>2, <3>1, <3>2 DEF Size, Units
  <2> DEFINE S == [0 .. ch -> 0 .. n]
             F == [0 .. n -> S]
             Row(c, f) == [x \in 0 .. ch |->
                             IF x = ch \/ c = n THEN c
                             ELSE IF x + Units(line, c) > ch THEN c
                             ELSE f[c + Size(line, c)][x + Units(line, c)]]
  <2>2. ASSUME NEW c \in 0 .. n, NEW x \in 0 .. ch, ~(x = ch \/ c = n), ~(x + Units(line, c) > ch)
        PROVE  c + Size(line, c) \in c + 1 .. n /\ c + Size(line, c) \in 0 .. n
               /\ x + Units(line, c) \in 0 .. ch
    <3>1. c \in 0 .. n - 1 /\ c \in Nat
      BY <1>2, <2>2
    <3>2. Units(line, c) \in {1, 2} /\ c + Size(line, c) \in c + 1 .. n
      BY <2>1, <3>1
    <3> DEFINE u == Units(line, c)
               d == c + Size(line, c)
    <3>3. u \in {1, 2} /\ ~(x + u > ch) /\ d \in c + 1 .. n
      BY <2>2, <3>2
    <3> HIDE DEF u, d
    <3>4. x + u \in 0 .. ch /\ d \in 0 .. n
      BY <3>1, <3>3
    <3> QED
      BY <3>3, <3>4 DEF u, d
  <2>3. \A c \in 0 .. n, f \in F : Row(c, f) \in S
    <3> SUFFICES ASSUME NEW c \in 0 .. n, NEW f \in F, NEW x \in 0 .. ch
                 PROVE  (IF x = ch \/ c = n THEN c
                         ELSE IF x + Units(line, c) > ch THEN c
                         ELSE f[c + Size(line, c)][x + Units(line, c)]) \in 0 .. n
      OBVIOUS
    <3>1. CASE (x = ch \/ c = n) \/ x + Units(line, c) > ch
      BY <3>1
    <3>2. CASE ~(x = ch \/ c = n) /\ ~(x + Units(line, c) > ch)
      <4>1. c + Size(line, c) \in 0 .. n /\ x + Units(line, c) \in 0 .. ch
        BY <2>2, <3>2
      <4>2. f[c + Size(line, c)] \in S
        BY <4>1
      <4>3. f[c + Size(line, c)][x + Units(line, c)] \in 0 .. n
        BY <4>1, <4>2
      <4> QED
        BY <3>2, <4>3
    <3> QED
      BY <3>1, <3>2
  <2>4. ASSUME NEW c \in 0 .. n, NEW f \in F, NEW g \in F, \A j \in c + 1 .. n : f[j] = g[j]
        PROVE  Row(c, f) = Row(c, g)
    <3> SUFFICES ASSUME NEW x \in 0 .. ch, ~(x = ch \/ c = n), ~(x + Units(line, c) > ch)
                 PROVE  f[c + Size(line, c)] = g[c + Size(line, c)]
      OBVIOUS
    <3>1. c + Size(line, c) \in c + 1 .. n
      BY <2>2
    <3> QED
      BY <2>4, <3>1
  <2>5. advance = Body(advance)
    <3> DEFINE step == [kf \in (0 .. n) \X F |-> Row(kf[1], kf[2])]
    <3>1. \A k \in 0 .. n, f \in F : step[<<k, f>>] = Row(k, f)
      <4> HIDE DEF Row
      <4> QED
        OBVIOUS
    <3>2. step \in [(0 .. n) \X F -> S]
      <4> HIDE DEF Row
      <4> QED
        BY <2>3
    <3>3. LooksAhead(0, n, S, step)
      <4> SUFFICES ASSUME NEW k \in 0 .. n, NEW f \in F, NEW g \in F,
                          \A j \in k + 1 .. n : f[j] = g[j]
                   PROVE  step[<<k, f>>] = step[<<k, g>>]
        BY DEF LooksAhead
      <4> HIDE DEF Row, step, F
      <4> QED
        BY <2>4, <3>1
    <3>4. DownChains(0, n, S, step) # {}
      <4>1. [x \in 0 .. ch |-> 0] \in S /\ 0 \in Int /\ n \in Int
        BY <1>2
      <4> HIDE DEF step, S
      <4> QED
        BY <3>2, <3>3, <4>1, DownRecursion
    <3>5. PICK f \in F : \A k \in 0 .. n : f[k] = step[<<k, f>>]
      BY <3>4 DEF DownChains
    <3> HIDE DEF Row, step
    <3>6. \A k \in 0 .. n : f[k] = Row(k, f)
      BY <3>1, <3>5
    <3> DEFINE g == [at \in (0 .. n) \X (0 .. ch) |-> f[at[1]][at[2]]]
    <3>7. \A at \in (0 .. n) \X (0 .. ch) : g[at] = Value(at, g)
      <4> SUFFICES ASSUME NEW c \in 0 .. n, NEW x \in 0 .. ch PROVE g[<<c, x>>] = Value(<<c, x>>, g)
        <5> HIDE DEF g, Value
        <5> QED
          OBVIOUS
      <4>1. \A c1 \in 0 .. n, x1 \in 0 .. ch : g[<<c1, x1>>] = f[c1][x1]
        OBVIOUS
      <4> HIDE DEF g, F
      <4>2. g[<<c, x>>] = IF x = ch \/ c = n THEN c
                          ELSE IF x + Units(line, c) > ch THEN c
                          ELSE f[c + Size(line, c)][x + Units(line, c)]
        <5>1. Row(c, f)[x] = IF x = ch \/ c = n THEN c
                             ELSE IF x + Units(line, c) > ch THEN c
                             ELSE f[c + Size(line, c)][x + Units(line, c)]
          BY DEF Row
        <5> QED
          BY <3>6, <4>1, <5>1
      <4>3. CASE (x = ch \/ c = n) \/ x + Units(line, c) > ch
        BY <4>2, <4>3
      <4>4. CASE ~(x = ch \/ c = n) /\ ~(x + Units(line, c) > ch)
        <5>1. c + Size(line, c) \in 0 .. n /\ x + Units(line, c) \in 0 .. ch
          BY <2>2, <4>4
        <5>2. g[<<c + Size(line, c), x + Units(line, c)>>] = f[c + Size(line, c)][x + Units(line, c)]
          BY <4>1, <5>1
        <5> QED
          BY <4>2, <4>4, <5>2
      <4> QED
        BY <4>3, <4>4
    <3>8. g = Body(g)
      <4> HIDE DEF Value
      <4>1. g = [at \in (0 .. n) \X (0 .. ch) |-> g[at]]
        OBVIOUS
      <4> HIDE DEF g
      <4> QED
        BY <3>7, <4>1
    <3> HIDE DEF Body, g
    <3> QED
      BY <3>8
  <2>6. \A c \in 0 .. n, x \in 0 .. ch : advance[<<c, x>>] = Value(<<c, x>>, advance)
    <3> HIDE DEF advance, Value
    <3>1. \A at \in (0 .. n) \X (0 .. ch) : Body(advance)[at] = Value(at, advance)
      OBVIOUS
    <3> HIDE DEF Body
    <3> QED
      BY <2>5, <3>1
  <2> HIDE DEF advance
  <2>7. ASSUME NEW c \in 0 .. o - b, c + 1 .. o - b \subseteq Good PROVE c \in Good
    <3> SUFFICES ASSUME ~InsideCharacter(t, b + c) PROVE advance[<<c, before(c)>>] = o - b
      OBVIOUS
    <3> DEFINE p == b + c
               x == UnitsIn(t, b, p)
               rest == UnitsIn(t, p, o)
    <3>1. p \in Nat /\ b <= p /\ p <= o /\ ~InsideCharacter(t, p) /\ c \in 0 .. n /\ c \in Nat
      BY <1>2
    <3>2. x \in Nat /\ rest \in Nat /\ UnitsIn(t, b, o) = x + rest
      BY <3>1, UnitsAreFinite, UnitsAreAdded
    <3>3. x \in 0 .. ch /\ UnitsIn(t, b, o) <= ch
      BY <1>3, <3>2
    <3>4. advance[<<c, x>>] = Value(<<c, x>>, advance)
      BY <2>6, <3>1, <3>3
    <3>5. Value(<<c, x>>, advance) =
            IF x = ch \/ c = n THEN c
            ELSE IF x + Units(line, c) > ch THEN c
            ELSE advance[<<c + Size(line, c), x + Units(line, c)>>]
      OBVIOUS
    <3> HIDE DEF Value
    <3>6. CASE c = o - b
      <4>1. p = o
        BY <3>6
      <4>2. rest = 0
        BY <4>1, UnitsOfNothing
      <4>3. x = ch \/ c = n
        BY <1>2, <1>3, <3>2, <3>6, <4>2
      <4> QED
        BY <3>4, <3>5, <3>6, <4>3
    <3>7. CASE c # o - b
      <4>1. p < o
        BY <3>1, <3>7
      <4> HIDE DEF p
      <4>2. /\ Size(t, p) \in {1, 2, 4} /\ p + Size(t, p) \in p + 1 .. o
            /\ ~InsideCharacter(t, p + Size(t, p))
            /\ Units(t, p) \in {1, 2}
            /\ UnitsIn(t, p, o) = Units(t, p) + UnitsIn(t, p + Size(t, p), o)
            /\ Units(t, p) = UnitsIn(t, p, p + Size(t, p))
        BY <1>2, <3>1, <4>1, UnitsOfFirst
      <4> DEFINE d == c + Size(line, c)
                 q == p + Size(t, p)
      <4>3. Size(line, c) = Size(t, p) /\ Units(line, c) = Units(t, p)
        <5>1. /\ Starts(line, c, TwoBytes) <=> p + 2 <= e /\ Starts(t, p, TwoBytes)
              /\ Starts(line, c, FourBytes) <=> p + 4 <= e /\ Starts(t, p, FourBytes)
          BY <1>2, <3>1 DEF p
        <5>2. (Starts(t, p, FourBytes) => Size(t, p) = 4)
              /\ (~Starts(t, p, FourBytes) /\ Starts(t, p, TwoBytes) => Size(t, p) = 2)
          BY DEF Size
        <5>3. (Starts(t, p, FourBytes) => p + 4 <= e)
              /\ (~Starts(t, p, FourBytes) /\ Starts(t, p, TwoBytes) => p + 2 <= e)
          BY <3>1, <4>2, <5>2
        <5>4. /\ Starts(line, c, FourBytes) <=> Starts(t, p, FourBytes)
              /\ ~Starts(t, p, FourBytes) => (Starts(line, c, TwoBytes) <=> Starts(t, p, TwoBytes))
          BY <5>1, <5>3
        <5> QED
          BY <5>4 DEF Size, Units
      <4>4. q \in Nat /\ b <= p /\ p <= q /\ q <= o
        BY <3>1, <4>2
      <4>5. /\ UnitsIn(t, b, q) = x + Units(t, p) /\ UnitsIn(t, q, o) \in Nat
            /\ UnitsIn(t, b, o) = UnitsIn(t, b, q) + UnitsIn(t, q, o)
        <5>1. UnitsIn(t, b, q) = x + UnitsIn(t, p, q)
          BY <3>1, <4>4, UnitsAreAdded
        <5>2. b <= q
          BY <3>1, <4>4
        <5>3. UnitsIn(t, b, o) = UnitsIn(t, b, q) + UnitsIn(t, q, o) /\ UnitsIn(t, q, o) \in Nat
          BY <4>4, <5>2, UnitsAreAdded, UnitsAreFinite
        <5> QED
          BY <4>2, <5>1, <5>3
      <4>6. d \in c + 1 .. o - b /\ b + d = q
        BY <3>1, <4>2, <4>3 DEF p
      <4>7. ~(x = ch) /\ ~(x + Units(line, c) > ch)
        BY <3>2, <3>3, <4>2, <4>3, <4>5, SMTT(30)
      <4>8. c # n
        BY <1>2, <3>1, <4>1 DEF p
      <4> HIDE DEF d, q, x
      <4>9. advance[<<c, x>>] = advance[<<d, UnitsIn(t, b, q)>>]
        BY <3>4, <3>5, <4>3, <4>5, <4>7, <4>8 DEF d
      <4>10. advance[<<d, UnitsIn(t, b, q)>>] = o - b
        <5>1. d \in Good /\ ~InsideCharacter(t, q)
          BY <2>7, <4>2, <4>6 DEF q
        <5> QED
          BY <4>6, <5>1
      <4> QED
        BY <4>9, <4>10 DEF x, p
    <3> QED
      BY <3>6, <3>7
  <2>8. 0 .. o - b \subseteq Good
    <3> HIDE DEF Good
    <3>1. 0 \in Int /\ o - b \in Int
      OBVIOUS
    <3> QED
      BY <2>7, <3>1, DownTo
  <2>9. advance[<<0, UnitsIn(t, b, b + 0)>>] = o - b
    <3>1. 0 \in 0 .. o - b /\ b + 0 = b
      OBVIOUS
    <3> QED
      BY <2>8, <3>1
  <2>10. UnitsIn(t, b, b + 0) = 0
    <3>1. b + 0 = b
      OBVIOUS
    <3> QED
      BY <3>1, UnitsOfNothing
  <2>11. AdvanceLspCharacters(line, ch) = advance[<<0, 0>>]
    <3>1. ~(ch >= n)
      BY <1>2, <1>5
    <3> QED
      BY <1>1, <3>1 DEF advance
  <2> QED
    BY <2>9, <2>10, <2>11 DEF line
<1> QED
  BY <1>2, <1>4, <1>5

LEMMA AsciiUnits ==
    ASSUME NEW t \in Seq(TextBytes), NEW b \in Nat, NEW o \in Nat, b <= o, o <= Len(t), AsciiIn(t, b, o)
    PROVE  UnitsIn(t, b, o) = o - b
<1>1. \A c \in b .. o - 1 : c \in Nat /\ t[c + 1] \in {"a", "CR", "LF"}
  <2>1. \A c \in b .. o - 1 : c \in Nat /\ c + 1 \in b + 1 .. o
    OBVIOUS
  <2> QED
    BY <2>1 DEF AsciiIn, Ascii
<1>2. \A c \in b .. o - 1 : ~InsideCharacter(t, c)
  BY <1>1, InsideBytes
<1>3. \A c \in b .. o - 1 : ~Starts(t, c, FourBytes)
  BY <1>1, StartsFacts
<1>4. CharactersIn(t, b, o) = b .. o - 1 /\ PairsIn(t, b, o) = {}
  BY <1>2, <1>3 DEF CharactersIn, PairsIn
<1>5. Cardinality({}) = 0
  BY FS_EmptySet
<1>6. Cardinality(b .. o - 1) = o - b
  <2>1. b \in Int /\ o - 1 \in Int /\ (b > o - 1 => o - b = 0) /\ o - 1 - b + 1 = o - b
    OBVIOUS
  <2>2. Cardinality(b .. o - 1) = IF b > o - 1 THEN 0 ELSE o - 1 - b + 1
    BY <2>1, FS_Interval
  <2> QED
    BY <2>1, <2>2
<1>7. Cardinality(CharactersIn(t, b, o)) = o - b /\ Cardinality(PairsIn(t, b, o)) = 0
  BY <1>4, <1>5, <1>6, Zenon
<1> QED
  BY <1>7 DEF UnitsIn

-----------------------------------------------------------------------------
(* Offsets and positions, where the table is right. *)

AreHonest(t, e, starts, flags) ==
    \A i \in 1 .. Len(starts) : flags[i] => AsciiIn(t, starts[i], EndOf(starts, i, e))

\* The table tells the lines of the text, and no line is thought ASCII that is not.
TableIsRight ==
    /\ text \in Seq(TextBytes)
    /\ IsLines(text, 0, Len(text), offset_of_lines)
    /\ AreFlags(offset_of_lines, line_is_ascii)
    /\ AreHonest(text, Len(text), offset_of_lines, line_is_ascii)

LEMMA LineFacts ==
    ASSUME TableIsRight, NEW o \in 0 .. Len(text)
    PROVE  /\ text \in Seq(TextBytes) /\ Len(text) \in Nat /\ NumberOfLines \in Nat /\ NumberOfLines >= 1
           /\ \E k \in 1 .. NumberOfLines : IsLineOf(offset_of_lines, o, k)
           /\ Cardinality(LineStarts(text)) = NumberOfLines
           /\ \A k : IsLineOf(offset_of_lines, o, k) =>
                /\ k \in 1 .. NumberOfLines
                /\ FindLineAtOffset(o) = k - 1
                /\ LineBegin(k - 1) = offset_of_lines[k] /\ LineBegin(k - 1) \in Nat
                /\ LineBegin(k - 1) <= o
                /\ EditorPosition(text, o) =
                     [line |-> k - 1, character |-> UnitsIn(text, LineBegin(k - 1), o)]
                /\ ~InsideCharacter(text, LineBegin(k - 1))
<1> DEFINE L == offset_of_lines
<1>1. /\ text \in Seq(TextBytes) /\ Len(text) \in Nat /\ o \in Nat /\ o <= Len(text)
      /\ L \in Seq(Nat) /\ NumberOfLines = Len(L) /\ Len(L) \in Nat /\ Len(L) >= 1 /\ L[1] = 0
      /\ Increasing(L) /\ IsLines(text, 0, Len(text), L)
      /\ \A i \in 1 .. Len(L) : L[i] \in Nat /\ (L[i] > 0 => AfterTerminator(text, L[i]))
      /\ Cardinality(LineStarts(text)) = Len(L)
  BY StartsOfText DEF TableIsRight, NumberOfLines
<1>2. \E k \in 1 .. Len(L) : IsLineOf(L, o, k)
  BY <1>1, LineOfExists
<1>3. ASSUME NEW k, IsLineOf(L, o, k)
      PROVE  /\ k \in 1 .. NumberOfLines
             /\ FindLineAtOffset(o) = k - 1
             /\ LineBegin(k - 1) = L[k] /\ LineBegin(k - 1) \in Nat
             /\ LineBegin(k - 1) <= o
             /\ EditorPosition(text, o) =
                  [line |-> k - 1, character |-> UnitsIn(text, LineBegin(k - 1), o)]
             /\ ~InsideCharacter(text, LineBegin(k - 1))
  <2>1. k \in 1 .. Len(L) /\ L[k] <= o /\ (k - 1) + 1 = k
    BY <1>3 DEF IsLineOf
  <2>2. LineBegin(k - 1) = L[k]
    BY <2>1 DEF LineBegin
  <2>3. FindLineAtOffset(o) = k - 1
    BY <1>1, <1>3, FoundLine
  <2>4. /\ Quantify(LineStarts(text), LAMBDA s : 0 < s /\ s <= o) = k - 1
        /\ Max({s \in LineStarts(text) : s <= o}) = L[k]
    BY <1>1, <1>3, EditorLine, Zenon
  <2>5. ~InsideCharacter(text, L[k])
    <3>1. L[k] \in Nat /\ (L[k] > 0 => AfterTerminator(text, L[k]))
      BY <1>1, <2>1
    <3>2. L[k] > 0 => text[L[k]] \in {"CR", "LF"}
      BY <1>1, <3>1, PlaceFacts
    <3> QED
      BY <1>1, <3>1, <3>2, InsideBytes
  <2>6. EditorPosition(text, o) = [line |-> k - 1, character |-> UnitsIn(text, L[k], o)]
    <3> DEFINE begin == Max({s \in LineStarts(text) : s <= o})
               characters(b) == {c \in b .. o - 1 : ~InsideCharacter(text, c)}
               units(b) == Cardinality(characters(b))
                             + Quantify(characters(b), LAMBDA c : Starts(text, c, FourBytes))
    <3>1. EditorPosition(text, o) =
            [line |-> Quantify(LineStarts(text), LAMBDA s : 0 < s /\ s <= o),
             character |-> units(begin)]
      BY DEF EditorPosition
    <3>2. \A b : units(b) = UnitsIn(text, b, o)
      BY DEF UnitsIn, CharactersIn, PairsIn, Quantify
    <3> HIDE DEF units, begin
    <3>3. units(begin) = UnitsIn(text, L[k], o)
      BY <2>4, <3>2, Zenon DEF begin
    <3> QED
      BY <2>4, <3>1, <3>3, Zenon
  <2> QED
    BY <1>1, <2>1, <2>2, <2>3, <2>5, <2>6
<1> QED
  BY <1>1, <1>2, <1>3

LEMMA LineLengthFacts ==
    ASSUME TableIsRight, NEW o \in Places(text), NEW k, IsLineOf(offset_of_lines, o, k)
    PROVE  LET b == LineBegin(k - 1)
               e == b + LineLength(k - 1)
           IN  /\ LineLength(k - 1) \in Nat /\ e \in Nat /\ o <= e /\ e <= Len(text)
               /\ AtLineEnd(text, o) => o = e
               /\ e <= EndOf(offset_of_lines, k, Len(text))
<1> DEFINE L == offset_of_lines
           n == Len(L)
           b == L[k]
           z == EndOf(L, k, Len(text))
           w == TerminatorLength(k - 1)
<1>1. /\ text \in Seq(TextBytes) /\ Len(text) \in Nat /\ o \in Nat /\ o <= Len(text)
      /\ NumberOfLines = n /\ n \in Nat /\ n >= 1
      /\ \A i \in 1 .. n : L[i] \in Nat /\ L[i] <= Len(text) /\ (L[i] > 0 => AfterTerminator(text, L[i]))
      /\ \A i, j \in 1 .. n : i < j => L[i] < L[j]
      /\ \A x : x \in LineStarts(text) <=> \E i \in 1 .. n : L[i] = x
      /\ Increasing(L) /\ L \in Seq(Nat)
      /\ ~InsideTerminator(text, o) /\ ~InsideCharacter(text, o)
  BY StartsOfText DEF TableIsRight, NumberOfLines, Increasing, Places
<1>2. k \in 1 .. n /\ b \in Nat /\ b <= o /\ (k < n => L[k + 1] > o)
  BY <1>1 DEF IsLineOf
<1>3. \A i \in 1 .. n : L[i] <= o <=> i <= k
  BY <1>1, LinesBefore
<1>4. /\ LineBegin(k - 1) = b
      /\ LineLength(k - 1) = z - w - b
      /\ w = IF k = n THEN 0 ELSE IF z - b >= 2 /\ Starts(text, z - 2, CR \o LF) THEN 2 ELSE 1
  <2>1. (k - 1) + 1 = k /\ (k - 1 = n - 1 <=> k = n)
    BY <1>1, <1>2
  <2>2. LineBegin(k - 1) = b /\ LineEnd(k - 1) = z
    BY <1>1, <2>1 DEF LineBegin, LineEnd, EndOf
  <2> QED
    BY <1>1, <2>1, <2>2 DEF LineLength, TerminatorLength
<1>5. CASE k = n
  <2>1. z = Len(text) /\ w = 0
    BY <1>4, <1>5 DEF EndOf
  <2>2. LineLength(k - 1) = Len(text) - b
    BY <1>1, <1>2, <1>4, <2>1
  <2>3. AtLineEnd(text, o) => o = Len(text)
    <3> SUFFICES ASSUME o < Len(text), text[o + 1] \in {"CR", "LF"} PROVE FALSE
      BY <1>1 DEF AtLineEnd, At
    <3> DEFINE x == IF text[o + 1] = "CR" /\ o + 2 <= Len(text) /\ text[o + 2] = "LF"
                    THEN o + 2 ELSE o + 1
    <3>1. x \in 1 .. Len(text) /\ x > o /\ AfterTerminator(text, x)
      <4>1. o + 1 \in Nat /\ o + 2 \in Nat /\ (o + 1) + 1 = o + 2
        BY <1>1
      <4> QED
        BY <1>1, <4>1, PlaceFacts
    <3> HIDE DEF x
    <3>2. PICK i \in 1 .. n : L[i] = x
      BY <1>1, <3>1 DEF LineStarts
    <3>3. ~(i <= k)
      BY <1>1, <1>3, <3>1, <3>2
    <3> QED
      BY <1>2, <1>5, <3>3
  <2> QED
    BY <1>1, <1>2, <1>4, <2>1, <2>2, <2>3
<1>6. CASE k # n
  <2>1. k < n /\ k + 1 \in 1 .. n
    BY <1>1, <1>2, <1>6
  <2>2. z = L[k + 1] /\ z \in Nat /\ z > o /\ z <= Len(text) /\ AfterTerminator(text, z) /\ b < z
    <3>1. L[k + 1] \in Nat /\ L[k + 1] > o /\ L[k + 1] <= Len(text)
      BY <1>1, <1>2, <2>1
    <3> QED
      BY <1>1, <1>2, <1>6, <2>1, <3>1 DEF EndOf
  <2> HIDE DEF z, w, b, n
  <2>3. /\ text[z] \in {"CR", "LF"}
        /\ text[z] = "CR" => ~(z + 1 <= Len(text) /\ text[z + 1] = "LF")
    BY <1>1, <2>2, PlaceFacts
  <2>4. w = 2 => o + 2 <= z /\ z >= 2 /\ text[z - 1] = "CR" /\ text[z] = "LF"
    <3> SUFFICES ASSUME w = 2 PROVE o + 2 <= z /\ z >= 2 /\ text[z - 1] = "CR" /\ text[z] = "LF"
      OBVIOUS
    <3>1. z - b >= 2 /\ Starts(text, z - 2, CR \o LF)
      BY <1>4, <1>6
    <3>2. z - 2 \in Nat /\ (z - 2) + 1 = z - 1 /\ (z - 2) + 2 = z /\ z >= 2
      BY <1>2, <2>2, <3>1
    <3>3. text[z - 1] = "CR" /\ text[z] = "LF"
      BY <1>1, <3>1, <3>2, StartsFacts
    <3>4. o # z - 1
      <4> SUFFICES ASSUME o = z - 1 PROVE FALSE
        OBVIOUS
      <4>1. o > 0 /\ o + 1 = z
        BY <3>2
      <4> QED
        BY <1>1, <2>2, <3>3, <4>1, PlaceFacts
    <3>5. o \in Nat /\ z \in Nat /\ o < z
      BY <1>1, <2>2
    <3>6. o + 2 <= z
      BY <3>4, <3>5
    <3> QED
      BY <3>2, <3>3, <3>6
  <2>5. w \in {1, 2}
    BY <1>4, <1>6
  <2>6. o <= z - w /\ z - w <= Len(text) /\ z - w >= b /\ z - w \in Nat /\ z - w <= z
    <3>1. /\ o \in Nat /\ z \in Nat /\ b \in Nat /\ Len(text) \in Nat
          /\ b <= o /\ o < z /\ z <= Len(text) /\ (w = 2 => o + 2 <= z)
      BY <1>1, <1>2, <2>2, <2>4
    <3>2. CASE w = 1
      BY <3>1, <3>2
    <3>3. CASE w = 2
      BY <3>1, <3>3
    <3> QED
      BY <2>5, <3>2, <3>3
  <2>7. AtLineEnd(text, o) => o = z - w
    <3> SUFFICES ASSUME text[o + 1] \in {"CR", "LF"} PROVE o = z - w
      BY <1>1, <2>2 DEF AtLineEnd, At
    <3> DEFINE x == IF text[o + 1] = "CR" /\ o + 2 <= Len(text) /\ text[o + 2] = "LF"
                    THEN o + 2 ELSE o + 1
    <3>0. o < Len(text) /\ o + 1 \in Nat /\ o + 2 \in Nat /\ (o + 1) + 1 = o + 2
      BY <1>1, <2>2
    <3>1. x \in 1 .. Len(text) /\ x > o /\ AfterTerminator(text, x)
      BY <1>1, <3>0, PlaceFacts
    <3>2. PICK i \in 1 .. n : L[i] = x
      BY <1>1, <3>1 DEF LineStarts
    <3>3. ~(i <= k)
      <4>1. ~(x <= o)
        BY <1>1, <3>1
      <4> HIDE DEF x
      <4> QED
        BY <1>3, <3>2, <4>1
    <3>4. z <= x
      <4>1. i = k + 1 \/ k + 1 < i
        BY <1>1, <1>2, <3>3
      <4>2. L[k + 1] <= L[i]
        BY <1>1, <2>1, <4>1
      <4> QED
        BY <2>2, <3>2, <4>2
    <3>5. CASE text[o + 1] = "CR" /\ o + 2 <= Len(text) /\ text[o + 2] = "LF"
      <4>1. x = o + 2
        BY <3>5
      <4>2. z # o + 1
        BY <2>3, <3>0, <3>5
      <4>3. z = o + 2
        BY <1>1, <2>2, <3>4, <4>1, <4>2
      <4>4. w = 2
        <5>1. z - 2 = o /\ z - b >= 2
          BY <1>1, <1>2, <4>3
        <5>2. Starts(text, o, CR \o LF)
          BY <1>1, <3>5, StartsFacts
        <5> QED
          BY <1>4, <1>6, <5>1, <5>2
      <4> QED
        BY <1>1, <4>3, <4>4
    <3>6. CASE ~(text[o + 1] = "CR" /\ o + 2 <= Len(text) /\ text[o + 2] = "LF")
      <4>1. x = o + 1
        BY <3>6
      <4>2. z = o + 1
        BY <1>1, <2>2, <3>4, <4>1
      <4>3. w # 2
        BY <1>1, <2>4, <4>2
      <4> QED
        BY <1>1, <2>5, <4>2, <4>3
    <3> QED
      BY <3>5, <3>6
  <2>8. LineLength(k - 1) = z - w - b /\ LineLength(k - 1) \in Nat /\ b + LineLength(k - 1) = z - w
    BY <1>2, <1>4, <2>2, <2>5, <2>6
  <2> QED
    BY <1>4, <2>6, <2>7, <2>8 DEF z
<1> QED
  BY <1>5, <1>6

LEMMA PlaceIsOffset ==
    ASSUME NEW t, NEW o \in Places(t)
    PROVE  o \in 0 .. Len(t) /\ ~InsideTerminator(t, o) /\ ~InsideCharacter(t, o)
BY DEF Places

\* The position of a place is the one the editor gives it.
LEMMA PositionIsRight ==
    ASSUME TableIsRight, NEW o \in Places(text)
    PROVE  Position(o) = EditorPosition(text, o)
<1>1. o \in 0 .. Len(text) /\ ~InsideCharacter(text, o)
  BY PlaceIsOffset
<1>2. PICK k \in 1 .. NumberOfLines : IsLineOf(offset_of_lines, o, k)
  BY <1>1, LineFacts
<1> DEFINE b == LineBegin(k - 1)
<1>3. /\ text \in Seq(TextBytes) /\ Len(text) \in Nat /\ NumberOfLines = Len(offset_of_lines)
      /\ FindLineAtOffset(o) = k - 1
      /\ b = offset_of_lines[k] /\ b \in Nat /\ b <= o
      /\ EditorPosition(text, o) = [line |-> k - 1, character |-> UnitsIn(text, b, o)]
      /\ ~InsideCharacter(text, b)
  BY <1>1, <1>2, LineFacts DEF NumberOfLines
<1>4. Position(o) =
        [line |-> k - 1,
         character |-> IF LineIsAscii(k - 1) THEN o - b
                       ELSE CountLspCharacters(SubSeq(text, b + 1, Len(text)), o - b)]
  BY <1>3 DEF Position
<1> HIDE DEF b
<1>5. CASE LineIsAscii(k - 1)
  <2>1. o <= EndOf(offset_of_lines, k, Len(text))
    <3>1. CASE k = NumberOfLines
      BY <1>1, <1>3, <3>1 DEF EndOf
    <3>2. CASE k # NumberOfLines
      <4>1. k < NumberOfLines /\ k + 1 \in 1 .. Len(offset_of_lines)
        BY <1>1, <1>2, <1>3, <3>2, LineFacts
      <4>2. offset_of_lines[k + 1] > o /\ offset_of_lines[k + 1] \in Nat
        BY <1>2, <1>3, <4>1, StartsOfText DEF IsLineOf, TableIsRight
      <4> QED
        BY <1>1, <1>3, <3>2, <4>2 DEF EndOf
    <3> QED
      BY <3>1, <3>2
  <2>2. AsciiIn(text, b, o)
    <3>1. line_is_ascii[k]
      <4>1. (k - 1) + 1 = k
        BY <1>2, <1>3
      <4> QED
        BY <1>5, <4>1 DEF LineIsAscii
    <3> DEFINE z == EndOf(offset_of_lines, k, Len(text))
    <3>2. AsciiIn(text, b, z)
      BY <1>2, <1>3, <3>1 DEF TableIsRight, AreHonest
    <3>3. z \in Nat
      <4>1. \A i \in 1 .. Len(offset_of_lines) : offset_of_lines[i] \in Nat
        BY StartsOfText DEF TableIsRight
      <4>2. k # Len(offset_of_lines) => k + 1 \in 1 .. Len(offset_of_lines)
        BY <1>2, <1>3, StartsOfText DEF TableIsRight
      <4> QED
        BY <1>3, <4>1, <4>2 DEF EndOf
    <3>4. o <= z
      BY <2>1
    <3> HIDE DEF z
    <3>5. \A i \in b + 1 .. o : i \in b + 1 .. z
      BY <1>1, <1>3, <3>3, <3>4
    <3> QED
      BY <3>2, <3>5 DEF AsciiIn
  <2>3. UnitsIn(text, b, o) = o - b
    BY <1>1, <1>3, <2>2, AsciiUnits
  <2> QED
    BY <1>3, <1>4, <1>5, <2>3
<1>6. CASE ~LineIsAscii(k - 1)
  <2>1. CountLspCharacters(SubSeq(text, b + 1, Len(text)), o - b) = UnitsIn(text, b, o)
    BY <1>1, <1>3, CountIsRight
  <2> QED
    BY <1>3, <1>4, <1>6, <2>1
<1> QED
  BY <1>5, <1>6

\* Every position that means a place leads to it.
LEMMA FromPositionIsRight ==
    ASSUME TableIsRight, NEW o \in Places(text), NEW k, IsLineOf(offset_of_lines, o, k),
           NEW p \in EndPositionsOf(text, o)
    PROVE  /\ FromPosition(p) = o
           /\ p \in PositionsOf(text, o) => p.line = k - 1
           /\ (IF p.line < NumberOfLines THEN p.line ELSE NumberOfLines - 1) = k - 1
<1> DEFINE b == LineBegin(k - 1)
           m == LineLength(k - 1)
           e == b + m
<1>1. o \in 0 .. Len(text) /\ ~InsideCharacter(text, o)
  BY PlaceIsOffset
<1>2. /\ text \in Seq(TextBytes) /\ Len(text) \in Nat /\ NumberOfLines = Len(offset_of_lines)
      /\ NumberOfLines \in Nat /\ NumberOfLines >= 1
      /\ k \in 1 .. NumberOfLines
      /\ b = offset_of_lines[k] /\ b \in Nat /\ b <= o
      /\ EditorPosition(text, o) = [line |-> k - 1, character |-> UnitsIn(text, b, o)]
      /\ ~InsideCharacter(text, b)
      /\ Cardinality(LineStarts(text)) = NumberOfLines
  BY <1>1, LineFacts DEF NumberOfLines
<1>3. m \in Nat /\ e \in Nat /\ o <= e /\ e <= Len(text) /\ (AtLineEnd(text, o) => o = e)
      /\ e <= EndOf(offset_of_lines, k, Len(text))
  BY LineLengthFacts
<1>4. UnitsIn(text, b, o) \in Nat /\ UnitsIn(text, b, o) <= o - b
  BY <1>1, <1>2, UnitsAreFinite, UnitsAreFewer
<1>5. CASE p \in PositionsOf(text, o)
  <2>1. /\ p.line = k - 1 /\ p.character \in Nat
        /\ p.character = UnitsIn(text, b, o) \/ (o = e /\ p.character >= UnitsIn(text, b, o))
    <3> DEFINE q == EditorPosition(text, o)
    <3>1. CASE p = q
      BY <1>2, <1>4, <3>1
    <3>2. CASE AtLineEnd(text, o) /\ \E x \in 1 .. Beyond : p = [q EXCEPT !.character = @ + x]
      <4>1. PICK x \in 1 .. Beyond : p = [q EXCEPT !.character = @ + x]
        BY <3>2
      <4>2. p = [line |-> k - 1, character |-> UnitsIn(text, b, o) + x]
        BY <1>2, <4>1
      <4>3. x \in Nat
        BY TextsAssumption DEF TextsAssumption
      <4> HIDE DEF e, b, m
      <4> QED
        BY <1>3, <1>4, <3>2, <4>2, <4>3
    <3>3. p = q \/ (AtLineEnd(text, o) /\ \E x \in 1 .. Beyond : p = [q EXCEPT !.character = @ + x])
      BY <1>5 DEF PositionsOf
    <3> QED
      BY <3>1, <3>2, <3>3
  <2>2. p.line < NumberOfLines /\ ~(p.line >= NumberOfLines)
    BY <1>2, <2>1
  <2>3. FromPosition(p) =
          b + IF LineIsAscii(k - 1) THEN IF p.character > m THEN m ELSE p.character
              ELSE AdvanceLspCharacters(SubSeq(text, b + 1, b + m), p.character)
    BY <2>1, <2>2 DEF FromPosition
  <2> HIDE DEF b, m
  <2>4. CASE LineIsAscii(k - 1)
    <3>1. AsciiIn(text, b, o)
      <4>1. line_is_ascii[k]
        <5>1. (k - 1) + 1 = k
          BY <1>2
        <5> QED
          BY <2>4, <5>1 DEF LineIsAscii
      <4> DEFINE z == EndOf(offset_of_lines, k, Len(text))
      <4>2. AsciiIn(text, b, z)
        BY <1>2, <4>1 DEF TableIsRight, AreHonest
      <4>3. z \in Nat
        <5>1. \A i \in 1 .. Len(offset_of_lines) : offset_of_lines[i] \in Nat
          BY StartsOfText DEF TableIsRight
        <5>2. k # Len(offset_of_lines) => k + 1 \in 1 .. Len(offset_of_lines)
          BY <1>2
        <5> QED
          BY <1>2, <5>1, <5>2 DEF EndOf
      <4>4. e <= z
        BY <1>3
      <4> HIDE DEF z, e
      <4>5. \A i \in b + 1 .. o : i \in b + 1 .. z
        BY <1>1, <1>2, <1>3, <4>3, <4>4
      <4> QED
        BY <4>2, <4>5 DEF AsciiIn
    <3>2. UnitsIn(text, b, o) = o - b
      BY <1>1, <1>2, <3>1, AsciiUnits
    <3>3. FromPosition(p) = b + IF p.character > m THEN m ELSE p.character
      BY <2>3, <2>4
    <3>4. /\ b \in Nat /\ m \in Nat /\ o \in Nat /\ p.character \in Nat /\ b <= o /\ o <= b + m
          /\ p.character = o - b \/ (o = b + m /\ p.character >= o - b)
      BY <1>1, <1>2, <1>3, <2>1, <3>2
    <3>5. (IF p.character > m THEN m ELSE p.character) = o - b
      <4> DEFINE ch == p.character
      <4>1. ch \in Nat /\ (ch = o - b \/ (o = b + m /\ ch >= o - b))
        BY <3>4
      <4> HIDE DEF ch
      <4>2. (IF ch > m THEN m ELSE ch) = o - b
        BY <3>4, <4>1
      <4> QED
        BY <4>2 DEF ch
    <3>6. FromPosition(p) = b + (o - b)
      BY <3>3, <3>5
    <3>7. FromPosition(p) = o
      BY <3>4, <3>6
    <3> QED
      BY <2>1, <2>2, <3>7
  <2>5. CASE ~LineIsAscii(k - 1)
    <3>1. AdvanceLspCharacters(SubSeq(text, b + 1, e), p.character) = o - b
      <4> DEFINE ch == p.character
      <4>1. ch \in Nat /\ (ch = UnitsIn(text, b, o) \/ (o = e /\ ch >= UnitsIn(text, b, o)))
        BY <2>1
      <4> HIDE DEF ch, e
      <4>2. o \in Nat /\ e \in Nat /\ b <= o /\ o <= e /\ e <= Len(text)
        BY <1>1, <1>2, <1>3
      <4>3. AdvanceLspCharacters(SubSeq(text, b + 1, e), ch) = o - b
        BY <1>1, <1>2, <4>1, <4>2, AdvanceIsRight
      <4> QED
        BY <4>3 DEF ch
    <3>2. FromPosition(p) = b + (o - b)
      BY <2>3, <2>5, <3>1
    <3>3. FromPosition(p) = o
      BY <1>1, <1>2, <3>2
    <3> QED
      BY <2>1, <2>2, <3>3
  <2> QED
    BY <2>4, <2>5
<1>6. CASE p \notin PositionsOf(text, o)
  <2>1. o = Len(text) /\ p = [line |-> NumberOfLines, character |-> 0]
    BY <1>2, <1>6 DEF EndPositionsOf
  <2>2. FromPosition(p) = o
    BY <1>2, <2>1 DEF FromPosition
  <2>3. k = NumberOfLines
    <3>1. k < NumberOfLines => offset_of_lines[k + 1] > Len(text)
      BY <1>2, <2>1 DEF IsLineOf
    <3>2. k < NumberOfLines => offset_of_lines[k + 1] \in Nat /\ offset_of_lines[k + 1] <= Len(text)
      <4>1. k < NumberOfLines => k + 1 \in 1 .. Len(offset_of_lines)
        BY <1>2
      <4> QED
        BY <4>1, StartsOfText DEF TableIsRight
    <3> QED
      BY <1>2, <3>1, <3>2
  <2>4. ~(p.line < NumberOfLines)
    BY <1>2, <2>1
  <2> QED
    BY <1>6, <2>2, <2>3, <2>4
<1> QED
  BY <1>5, <1>6

-----------------------------------------------------------------------------
(* Tables of parts of a text. *)

HasLines(t, b, e, starts, flags) ==
    IsLines(t, b, e, starts) /\ AreFlags(starts, flags) /\ AreHonest(t, e, starts, flags)

LEMMA LinesFacts ==
    ASSUME NEW t, NEW b \in Nat, NEW e \in Nat, b <= e, NEW starts, IsLines(t, b, e, starts)
    PROVE  /\ starts \in Seq(Nat) /\ Len(starts) \in Nat /\ Len(starts) >= 1 /\ starts[1] = b
           /\ \A i \in 1 .. Len(starts) : starts[i] \in Nat /\ b <= starts[i] /\ starts[i] <= e
           /\ \A i, j \in 1 .. Len(starts) : i < j => starts[i] < starts[j]
           /\ \A o \in Nat : (\E i \in 1 .. Len(starts) : starts[i] = o) <=>
                                o = b \/ (o \in b + 1 .. e /\ AfterTerminator(t, o))
           /\ \A i \in 1 .. Len(starts) :
                EndOf(starts, i, e) \in Nat /\ starts[i] <= EndOf(starts, i, e) /\ EndOf(starts, i, e) <= e
<1> DEFINE n == Len(starts)
<1>1. /\ starts \in Seq(Nat) /\ n \in Nat /\ n >= 1 /\ starts[1] = b
      /\ \A i \in 1 .. n : starts[i] \in Nat
      /\ \A i, j \in 1 .. n : i < j => starts[i] < starts[j]
      /\ \A o \in Nat : (\E i \in 1 .. n : starts[i] = o) <=>
                           o = b \/ (o \in b + 1 .. e /\ AfterTerminator(t, o))
  <2>1. starts \in Seq(Nat)
    BY DEF IsLines
  <2> QED
    BY <2>1, LenProperties, ElementOfSeq DEF IsLines, Increasing
<1>2. \A i \in 1 .. n : b <= starts[i] /\ starts[i] <= e
  <2> HIDE DEF n
  <2> TAKE i \in 1 .. n
  <2>1. starts[i] \in Nat /\ (starts[i] = b \/ starts[i] \in b + 1 .. e)
    BY <1>1
  <2> QED
    BY <2>1
<1>3. \A i \in 1 .. n :
        EndOf(starts, i, e) \in Nat /\ starts[i] <= EndOf(starts, i, e) /\ EndOf(starts, i, e) <= e
  <2> SUFFICES ASSUME NEW i \in 1 .. n
               PROVE  EndOf(starts, i, e) \in Nat /\ starts[i] <= EndOf(starts, i, e)
                      /\ EndOf(starts, i, e) <= e
    OBVIOUS
  <2>1. CASE i = n
    BY <1>1, <1>2, <2>1 DEF EndOf
  <2>2. CASE i # n
    <3>1. i + 1 \in 1 .. n /\ i < i + 1 /\ EndOf(starts, i, e) = starts[i + 1]
      BY <1>1, <2>2 DEF EndOf
    <3> HIDE DEF n
    <3>2. starts[i] < starts[i + 1] /\ starts[i] \in Nat /\ starts[i + 1] \in Nat /\ starts[i + 1] <= e
      BY <1>1, <1>2, <3>1
    <3> QED
      BY <3>1, <3>2
  <2> QED
    BY <2>1, <2>2
<1> QED
  BY <1>1, <1>2, <1>3

LEMMA Joined ==
    ASSUME NEW S, NEW p \in Seq(S), NEW q \in Seq(S)
    PROVE  /\ p \o q \in Seq(S) /\ Len(p \o q) = Len(p) + Len(q) /\ Len(p) \in Nat /\ Len(q) \in Nat
           /\ \A i \in 1 .. Len(p) : (p \o q)[i] = p[i]
           /\ \A i \in Len(p) + 1 .. Len(p) + Len(q) : (p \o q)[i] = q[i - Len(p)]
<1>1. /\ p \o q \in Seq(S) /\ Len(p \o q) = Len(p) + Len(q)
      /\ \A i \in 1 .. Len(p) + Len(q) : (p \o q)[i] = IF i <= Len(p) THEN p[i] ELSE q[i - Len(p)]
      /\ Len(p) \in Nat /\ Len(q) \in Nat
  BY ConcatProperties, LenProperties
<1>2. ASSUME NEW i \in 1 .. Len(p) PROVE (p \o q)[i] = p[i]
  <2>1. i \in 1 .. Len(p) + Len(q) /\ i <= Len(p)
    BY <1>1
  <2> QED
    BY <1>1, <2>1
<1>3. ASSUME NEW i \in Len(p) + 1 .. Len(p) + Len(q) PROVE (p \o q)[i] = q[i - Len(p)]
  <2>1. i \in 1 .. Len(p) + Len(q) /\ ~(i <= Len(p))
    BY <1>1
  <2> QED
    BY <1>1, <2>1
<1> QED
  BY <1>1, <1>2, <1>3

JoinedFlags(fp, fq) ==
    [i \in 1 .. Len(fp) + Len(fq) - 1 |->
        IF i < Len(fp) THEN fp[i] ELSE IF i = Len(fp) THEN fp[i] /\ fq[1] ELSE fq[i - Len(fp) + 1]]

\* The lines up to m and those from m on, of which the first goes on with the last before m.
LEMMA LinesAreJoined ==
    ASSUME NEW t, NEW b \in Nat, NEW m \in Nat, NEW e \in Nat, b <= m, m <= e,
           NEW p, NEW fp, HasLines(t, b, m, p, fp),
           NEW q \in Seq(Nat), NEW fq, HasLines(t, m, e, <<m>> \o q, fq)
    PROVE  HasLines(t, b, e, p \o q, JoinedFlags(fp, fq))
<1> DEFINE r == <<m>> \o q
           s == p \o q
           fl == JoinedFlags(fp, fq)
           k == Len(p)
           n == Len(q)
<1>1. /\ p \in Seq(Nat) /\ k \in Nat /\ k >= 1 /\ p[1] = b
      /\ \A i \in 1 .. k : p[i] \in Nat /\ b <= p[i] /\ p[i] <= m
      /\ \A i, j \in 1 .. k : i < j => p[i] < p[j]
      /\ \A o \in Nat : (\E i \in 1 .. k : p[i] = o) <=>
                           o = b \/ (o \in b + 1 .. m /\ AfterTerminator(t, o))
      /\ \A i \in 1 .. k : EndOf(p, i, m) \in Nat /\ p[i] <= EndOf(p, i, m) /\ EndOf(p, i, m) <= m
  BY LinesFacts DEF HasLines
<1>2. /\ Len(r) = n + 1 /\ n \in Nat /\ r[1] = m /\ \A i \in 1 .. n : r[i + 1] = q[i]
  BY Prepended
<1>3. /\ \A i \in 1 .. n + 1 : r[i] \in Nat /\ m <= r[i] /\ r[i] <= e
      /\ \A i, j \in 1 .. n + 1 : i < j => r[i] < r[j]
      /\ \A o \in Nat : (\E i \in 1 .. n + 1 : r[i] = o) <=>
                           o = m \/ (o \in m + 1 .. e /\ AfterTerminator(t, o))
      /\ \A i \in 1 .. n + 1 : EndOf(r, i, e) \in Nat /\ r[i] <= EndOf(r, i, e) /\ EndOf(r, i, e) <= e
  <2>1. IsLines(t, m, e, r)
    BY DEF HasLines
  <2> HIDE DEF r, n
  <2>2. \A i \in 1 .. Len(r) : r[i] \in Nat /\ m <= r[i] /\ r[i] <= e
    BY <2>1, LinesFacts
  <2>4. \A i, j \in 1 .. Len(r) : i < j => r[i] < r[j]
    BY <2>1 DEF IsLines, Increasing
  <2>5. \A o \in Nat : (\E i \in 1 .. Len(r) : r[i] = o) <=>
                          o = m \/ (o \in m + 1 .. e /\ AfterTerminator(t, o))
    BY <2>1 DEF IsLines
  <2>6. \A i \in 1 .. Len(r) :
          EndOf(r, i, e) \in Nat /\ r[i] <= EndOf(r, i, e) /\ EndOf(r, i, e) <= e
    BY <2>1, LinesFacts
  <2>3. Len(r) = n + 1
    BY <1>2
  <2> QED
    BY <2>2, <2>3, <2>4, <2>5, <2>6
<1>4. /\ s \in Seq(Nat) /\ Len(s) = k + n /\ \A i \in 1 .. k : s[i] = p[i]
      /\ \A i \in k + 1 .. k + n : s[i] = q[i - k]
  BY <1>1, Joined
<1>5. /\ fp \in Seq(BOOLEAN) /\ Len(fp) = k /\ fq \in Seq(BOOLEAN) /\ Len(fq) = n + 1
      /\ \A i \in 1 .. k : fp[i] => AsciiIn(t, p[i], EndOf(p, i, m))
      /\ \A i \in 1 .. n + 1 : fq[i] => AsciiIn(t, r[i], EndOf(r, i, e))
  BY <1>2 DEF HasLines, AreFlags, AreHonest
<1>6. /\ fl \in Seq(BOOLEAN) /\ Len(fl) = k + n
      /\ \A i \in 1 .. k + n :
           fl[i] = IF i < k THEN fp[i] ELSE IF i = k THEN fp[i] /\ fq[1] ELSE fq[i - k + 1]
  <2> HIDE DEF k, n
  <2>1. \A i \in 1 .. k : fp[i] \in BOOLEAN
    BY <1>5, ElementOfSeq
  <2>2. \A i \in 1 .. n + 1 : fq[i] \in BOOLEAN
    BY <1>5, ElementOfSeq
  <2>3. k + (n + 1) - 1 = k + n
    BY <1>1, <1>2
  <2> DEFINE flag(i) == IF i < k THEN fp[i] ELSE IF i = k THEN fp[i] /\ fq[1] ELSE fq[i - k + 1]
  <2>4. fl = [i \in 1 .. k + n |-> flag(i)]
    BY <1>5, <2>3 DEF JoinedFlags
  <2>5. \A i \in 1 .. k + n : flag(i) \in BOOLEAN
    <3> TAKE i \in 1 .. k + n
    <3>1. CASE i < k
      <4>1. i \in 1 .. k
        BY <1>1, <1>2, <3>1
      <4> QED
        BY <2>1, <3>1, <4>1
    <3>2. CASE i = k
      <4>1. ~(i < k)
        BY <1>1, <3>2
      <4>2. flag(i) = (fp[i] /\ fq[1])
        BY <3>2, <4>1
      <4> HIDE DEF flag
      <4> QED
        BY <4>2
    <3>3. CASE i > k
      <4>1. k \in Nat /\ n \in Nat /\ i \in Nat /\ i <= k + n
        BY <1>1, <1>2
      <4>2. i - k + 1 \in 1 .. n + 1 /\ ~(i < k) /\ i # k
        BY <3>3, <4>1
      <4>3. fq[i - k + 1] \in BOOLEAN
        BY <2>2, <4>2
      <4> QED
        BY <4>2, <4>3
    <3> QED
      BY <1>1, <1>2, <3>1, <3>2, <3>3
  <2> HIDE DEF flag, fl
  <2>6. k + n \in Nat
    BY <1>1, <1>2
  <2>7. fl \in [1 .. k + n -> BOOLEAN]
    BY <2>4, <2>5
  <2>8. fl \in Seq(BOOLEAN) /\ Len(fl) = k + n
    BY <2>6, <2>7
  <2>9. \A i \in 1 .. k + n : fl[i] = flag(i)
    BY <2>4
  <2> QED
    BY <2>8, <2>9 DEF flag
<1> HIDE DEF r, s, fl, k, n
<1>7. \A i \in k + 1 .. k + n : s[i] = r[i - k + 1] /\ s[i] > m /\ i - k + 1 \in 2 .. n + 1
  <2> TAKE i \in k + 1 .. k + n
  <2>1. i - k \in 1 .. n /\ (i - k) + 1 = i - k + 1 /\ i - k + 1 \in 2 .. n + 1
        /\ 1 \in 1 .. n + 1 /\ i - k + 1 \in 1 .. n + 1 /\ 1 < i - k + 1
    BY <1>1, <1>2
  <2>2. s[i] = r[i - k + 1]
    BY <1>2, <1>4, <2>1
  <2>3. r[1] < r[i - k + 1]
    BY <1>3, <2>1
  <2> QED
    BY <1>2, <1>3, <2>1, <2>2, <2>3
<1>8. \A i \in 1 .. k + n : i \in 1 .. k \/ i \in k + 1 .. k + n
  BY <1>1, <1>2
<1>9. Increasing(s)
  <2> SUFFICES ASSUME NEW i \in 1 .. k + n, NEW j \in 1 .. k + n, i < j PROVE s[i] < s[j]
    BY <1>4 DEF Increasing
  <2>1. CASE j \in 1 .. k
    <3>1. i \in 1 .. k
      BY <1>1, <2>1
    <3> QED
      BY <1>1, <1>4, <2>1, <3>1
  <2>2. CASE i \in 1 .. k /\ j \in k + 1 .. k + n
    <3>1. s[i] \in Nat /\ s[i] <= m
      BY <1>1, <1>4, <2>2
    <3>2. s[j] > m /\ s[j] \in Nat
      <4>1. j - k + 1 \in 1 .. n + 1
        BY <1>2, <1>7, <2>2
      <4> QED
        BY <1>3, <1>7, <2>2, <4>1
    <3> QED
      BY <3>1, <3>2
  <2>3. CASE i \in k + 1 .. k + n
    <3>1. j \in k + 1 .. k + n
      BY <1>1, <1>2, <2>3
    <3>2. i - k + 1 \in 1 .. n + 1 /\ j - k + 1 \in 1 .. n + 1 /\ i - k + 1 < j - k + 1
      BY <1>1, <1>2, <2>3, <3>1
    <3> QED
      BY <1>3, <1>7, <2>3, <3>1, <3>2
  <2> QED
    BY <1>8, <2>1, <2>2, <2>3
<1>10. ASSUME NEW o \in Nat
       PROVE  (\E i \in 1 .. k + n : s[i] = o) <=> o = b \/ (o \in b + 1 .. e /\ AfterTerminator(t, o))
  <2>1. (\E i \in 1 .. k + n : s[i] = o) <=>
          (\E i \in 1 .. k : p[i] = o) \/ (o # m /\ \E i \in 1 .. n + 1 : r[i] = o)
    <3>1. ASSUME NEW i \in 1 .. k, p[i] = o PROVE \E j \in 1 .. k + n : s[j] = o
      <4>1. i \in 1 .. k + n
        BY <1>1, <1>2
      <4> QED
        BY <1>4, <3>1, <4>1
    <3>2. ASSUME NEW i \in 1 .. n + 1, r[i] = o, o # m PROVE \E j \in 1 .. k + n : s[j] = o
      <4>1. i # 1
        BY <1>2, <3>2
      <4>2. i + k - 1 \in k + 1 .. k + n /\ i + k - 1 \in 1 .. k + n /\ (i + k - 1) - k + 1 = i
        BY <1>1, <1>2, <4>1
      <4>3. s[i + k - 1] = r[i]
        BY <1>7, <4>2
      <4> QED
        BY <3>2, <4>2, <4>3
    <3>3. ASSUME NEW i \in 1 .. k + n, s[i] = o
          PROVE  (\E j \in 1 .. k : p[j] = o) \/ (o # m /\ \E j \in 1 .. n + 1 : r[j] = o)
      <4>1. CASE i \in 1 .. k
        BY <1>4, <3>3, <4>1
      <4>2. CASE i \in k + 1 .. k + n
        <5>1. i - k + 1 \in 1 .. n + 1 /\ r[i - k + 1] = o /\ o > m
          BY <1>2, <1>7, <3>3, <4>2
        <5> QED
          BY <5>1
      <4> QED
        BY <1>8, <4>1, <4>2
    <3> QED
      BY <3>1, <3>2, <3>3
  <2>2. (\E i \in 1 .. k : p[i] = o) <=> o = b \/ (o \in b + 1 .. m /\ AfterTerminator(t, o))
    BY <1>1
  <2>3. (\E i \in 1 .. n + 1 : r[i] = o) <=> o = m \/ (o \in m + 1 .. e /\ AfterTerminator(t, o))
    BY <1>3
  <2>4. o \in b + 1 .. e <=> o \in b + 1 .. m \/ o \in m + 1 .. e
    OBVIOUS
  <2>5. o \in m + 1 .. e => o # m
    OBVIOUS
  <2> QED
    BY <2>1, <2>2, <2>3, <2>4, <2>5
<1>11. ASSUME NEW i \in 1 .. k + n, fl[i] PROVE AsciiIn(t, s[i], EndOf(s, i, e))
  <2>1. CASE i \in 1 .. k - 1
    <3>1. i \in 1 .. k /\ i < k /\ i + 1 \in 1 .. k /\ i # k + n /\ i # k
      BY <1>1, <1>2, <2>1
    <3>2. EndOf(s, i, e) = p[i + 1] /\ EndOf(p, i, m) = p[i + 1] /\ s[i] = p[i]
      BY <1>4, <3>1 DEF EndOf, k
    <3>3. fp[i]
      BY <1>6, <1>11, <3>1
    <3> QED
      BY <1>5, <3>1, <3>2, <3>3
  <2>2. CASE i = k
    <3>1. fp[k] /\ fq[1] /\ k \in 1 .. k /\ 1 \in 1 .. n + 1
      <4>1. ~(i < k)
        BY <1>1, <2>2
      <4>2. fl[i] = (fp[k] /\ fq[1])
        BY <1>6, <2>2, <4>1
      <4>3. fp[k] /\ fq[1]
        BY <1>11, <4>2, Zenon
      <4>4. k \in 1 .. k /\ 1 \in 1 .. n + 1
        BY <1>1, <1>2
      <4> QED
        BY <4>3, <4>4
    <3>2. AsciiIn(t, p[k], m)
      BY <1>5, <3>1 DEF EndOf, k
    <3>3. AsciiIn(t, m, EndOf(r, 1, e))
      BY <1>2, <1>5, <3>1
    <3>4. EndOf(s, k, e) = EndOf(r, 1, e)
      <4>1. CASE n = 0
        BY <1>1, <1>2, <1>4, <4>1 DEF EndOf
      <4>2. CASE n # 0
        <5>1. k + 1 \in k + 1 .. k + n /\ k # k + n /\ 1 # n + 1 /\ (k + 1) - k + 1 = 1 + 1
          BY <1>1, <1>2, <4>2
        <5>2. s[k + 1] = r[1 + 1]
          BY <1>7, <5>1
        <5> QED
          BY <1>2, <1>4, <5>1, <5>2 DEF EndOf
      <4> QED
        BY <4>1, <4>2
    <3>5. s[k] = p[k]
      BY <1>4, <3>1
    <3> DEFINE z == EndOf(r, 1, e)
    <3>6. z \in Nat /\ p[k] \in Nat /\ p[k] <= m /\ m <= z
      BY <1>1, <1>2, <1>3, <3>1
    <3> HIDE DEF z
    <3>7. \A x \in p[k] + 1 .. z : x \in p[k] + 1 .. m \/ x \in m + 1 .. z
      BY <3>6
    <3>8. AsciiIn(t, p[k], z)
      BY <3>2, <3>3, <3>7 DEF AsciiIn, z
    <3> QED
      BY <2>2, <3>4, <3>5, <3>8 DEF z
  <2>3. CASE i \in k + 1 .. k + n
    <3> DEFINE j == i - k + 1
    <3>1. j \in 1 .. n + 1 /\ s[i] = r[j] /\ ~(i < k) /\ i # k /\ (i = k + n <=> j = n + 1)
      BY <1>1, <1>2, <1>7, <2>3
    <3>2. fq[j]
      BY <1>6, <1>11, <3>1
    <3>3. EndOf(s, i, e) = EndOf(r, j, e)
      <4>1. CASE i = k + n
        BY <1>2, <1>4, <3>1, <4>1 DEF EndOf
      <4>2. CASE i # k + n
        <5>1. i + 1 \in k + 1 .. k + n /\ (i + 1) - k + 1 = j + 1
          BY <1>1, <1>2, <2>3, <4>2
        <5>2. s[i + 1] = r[j + 1]
          BY <1>7, <5>1
        <5> HIDE DEF j
        <5> QED
          BY <1>2, <1>4, <3>1, <4>2, <5>2 DEF EndOf
      <4> QED
        BY <4>1, <4>2
    <3> HIDE DEF j
    <3> QED
      BY <1>5, <3>1, <3>2, <3>3
  <2>4. i \in 1 .. k - 1 \/ i = k \/ i \in k + 1 .. k + n
    BY <1>1, <1>2
  <2> QED
    BY <2>1, <2>2, <2>3, <2>4
<1>12. IsLines(t, b, e, s)
  <2>1. Len(s) >= 1 /\ s[1] = b
    <3>1. 1 \in 1 .. k
      BY <1>1
    <3> QED
      BY <1>1, <1>2, <1>4, <3>1
  <2> QED
    BY <1>4, <1>9, <1>10, <2>1 DEF IsLines
<1>13. AreFlags(s, fl) /\ AreHonest(t, e, s, fl)
  BY <1>4, <1>6, <1>11 DEF AreFlags, AreHonest
<1> QED
  BY <1>12, <1>13 DEF HasLines, s, fl

LEMMA PartOfSeq ==
    ASSUME NEW S, NEW s \in Seq(S), NEW a \in Nat, NEW b \in Nat, 1 <= a, a <= b + 1, b <= Len(s)
    PROVE  /\ SubSeq(s, a, b) \in Seq(S) /\ Len(SubSeq(s, a, b)) = b - a + 1
           /\ \A i \in 1 .. b - a + 1 : SubSeq(s, a, b)[i] = s[a + i - 1]
<1>1. Len(s) \in Nat /\ \A i \in a .. b : s[i] \in S
  <2>1. Len(s) \in Nat /\ \A i \in 1 .. Len(s) : s[i] \in S
    BY LenProperties, ElementOfSeq
  <2>2. \A i \in a .. b : i \in 1 .. Len(s)
    BY <2>1
  <2> QED
    BY <2>1, <2>2
<1> DEFINE p == SubSeq(s, a, b)
<1>2. /\ p \in Seq(S)
      /\ Len(p) = IF a <= b THEN b - a + 1 ELSE 0
      /\ \A i \in 1 .. b - a + 1 : p[i] = s[a + i - 1]
  <2>1. a \in Int /\ b \in Int
    OBVIOUS
  <2> QED
    BY <1>1, <2>1, SubSeqProperties
<1> HIDE DEF p
<1>3. Len(p) = b - a + 1
  BY <1>2
<1> QED
  BY <1>2, <1>3 DEF p

\* The lines before an offset, the last of them up to it.
LEMMA LinesUpTo ==
    ASSUME NEW t \in Seq(TextBytes), NEW L, NEW F, HasLines(t, 0, Len(t), L, F), NEW o \in 0 .. Len(t),
           NEW k, IsLineOf(L, o, k)
    PROVE  HasLines(t, 0, o, SubSeq(L, 1, k), SubSeq(F, 1, k))
<1> DEFINE n == Len(L)
           s == SubSeq(L, 1, k)
           fl == SubSeq(F, 1, k)
<1>1. /\ L \in Seq(Nat) /\ n \in Nat /\ n >= 1 /\ L[1] = 0
      /\ \A i \in 1 .. n : L[i] \in Nat
      /\ \A i, j \in 1 .. n : i < j => L[i] < L[j]
      /\ \A x \in Nat : (\E i \in 1 .. n : L[i] = x) <=>
                           x = 0 \/ (x \in 0 + 1 .. Len(t) /\ AfterTerminator(t, x))
      /\ Len(t) \in Nat /\ o \in Nat /\ o <= Len(t) /\ Increasing(L)
  <2>1. 0 <= Len(t) /\ Len(t) \in Nat /\ IsLines(t, 0, Len(t), L)
    BY LenProperties DEF HasLines
  <2>2. L \in Seq(Nat) /\ n \in Nat /\ n >= 1 /\ L[1] = 0 /\ \A i \in 1 .. n : L[i] \in Nat
    BY <2>1, StartsOfText
  <2>3. /\ Increasing(L)
        /\ \A x \in Nat : (\E i \in 1 .. n : L[i] = x) <=>
                             x = 0 \/ (x \in 0 + 1 .. Len(t) /\ AfterTerminator(t, x))
    BY <2>1 DEF IsLines
  <2>4. \A i, j \in 1 .. n : i < j => L[i] < L[j]
    BY <2>3 DEF Increasing
  <2> QED
    BY <2>1, <2>2, <2>3, <2>4
<1>2. k \in 1 .. n /\ (k < n => L[k + 1] > o) /\ \A i \in 1 .. n : L[i] <= o <=> i <= k
  BY <1>1, LinesBefore DEF IsLineOf
<1>3. /\ F \in Seq(BOOLEAN) /\ Len(F) = n
      /\ \A i \in 1 .. n : F[i] => AsciiIn(t, L[i], EndOf(L, i, Len(t)))
  BY DEF HasLines, AreFlags, AreHonest
<1>4. /\ s \in Seq(Nat) /\ Len(s) = k /\ \A i \in 1 .. k : s[i] = L[i]
      /\ fl \in Seq(BOOLEAN) /\ Len(fl) = k /\ \A i \in 1 .. k : fl[i] = F[i]
  <2>1. k \in Nat /\ 1 \in Nat /\ 1 <= 1 /\ 1 <= k + 1 /\ k <= n /\ k - 1 + 1 = k
        /\ \A i \in 1 .. k : 1 + i - 1 = i
    BY <1>1, <1>2
  <2>2. /\ s \in Seq(Nat) /\ Len(s) = k - 1 + 1 /\ \A i \in 1 .. k - 1 + 1 : s[i] = L[1 + i - 1]
    BY <1>1, <2>1, PartOfSeq
  <2>3. /\ fl \in Seq(BOOLEAN) /\ Len(fl) = k - 1 + 1
        /\ \A i \in 1 .. k - 1 + 1 : fl[i] = F[1 + i - 1]
    <3> HIDE DEF n
    <3> QED
      BY <1>3, <2>1, PartOfSeq
  <2> HIDE DEF s, fl
  <2> QED
    BY <2>1, <2>2, <2>3
<1> HIDE DEF s, fl, n
<1>5. \A i \in 1 .. k : i \in 1 .. n
  BY <1>1, <1>2
<1>6. IsLines(t, 0, o, s)
  <2>1. Increasing(s) /\ Len(s) >= 1 /\ s[1] = 0
    <3>1. Len(s) >= 1 /\ s[1] = 0
      BY <1>1, <1>2, <1>4
    <3>2. \A i, j \in 1 .. k : i < j => s[i] < s[j]
      <4> SUFFICES ASSUME NEW i \in 1 .. k, NEW j \in 1 .. k, i < j PROVE s[i] < s[j]
        OBVIOUS
      <4>1. s[i] = L[i] /\ s[j] = L[j] /\ i \in 1 .. n /\ j \in 1 .. n
        BY <1>4, <1>5
      <4> QED
        BY <1>1, <4>1
    <3> QED
      BY <1>4, <3>1, <3>2 DEF Increasing
  <2>2. ASSUME NEW x \in Nat
        PROVE  (\E i \in 1 .. k : s[i] = x) <=> x = 0 \/ (x \in 0 + 1 .. o /\ AfterTerminator(t, x))
    <3>1. (\E i \in 1 .. k : s[i] = x) <=> x <= o /\ \E i \in 1 .. n : L[i] = x
      <4>1. ASSUME NEW i \in 1 .. k, s[i] = x PROVE x <= o /\ \E j \in 1 .. n : L[j] = x
        BY <1>2, <1>4, <1>5, <4>1
      <4>2. ASSUME NEW i \in 1 .. n, L[i] = x, x <= o PROVE \E j \in 1 .. k : s[j] = x
        <5>1. i \in 1 .. k
          BY <1>2, <4>2
        <5> QED
          BY <1>4, <4>2, <5>1
      <4> QED
        BY <4>1, <4>2
    <3>2. x <= o => (x \in 0 + 1 .. Len(t) <=> x \in 0 + 1 .. o)
      BY <1>1
    <3>3. x \in 0 + 1 .. o => x <= o
      OBVIOUS
    <3>4. x = 0 => x <= o
      BY <1>1
    <3> QED
      BY <1>1, <3>1, <3>2, <3>3, <3>4
  <2> QED
    BY <1>4, <2>1, <2>2 DEF IsLines
<1>7. AreHonest(t, o, s, fl)
  <2> SUFFICES ASSUME NEW i \in 1 .. k, fl[i] PROVE AsciiIn(t, s[i], EndOf(s, i, o))
    BY <1>4 DEF AreHonest
  <2>1. AsciiIn(t, L[i], EndOf(L, i, Len(t))) /\ s[i] = L[i]
    BY <1>3, <1>4, <1>5
  <2>2. CASE i # k
    <3>1. i # n /\ i + 1 \in 1 .. k
      BY <1>1, <1>2, <2>2
    <3> QED
      BY <1>4, <2>1, <2>2, <3>1 DEF EndOf, n
  <2>3. CASE i = k
    <3> DEFINE z == EndOf(L, k, Len(t))
    <3>1. EndOf(s, k, o) = o
      BY <1>4 DEF EndOf
    <3>2. z \in Nat /\ o <= z
      <4>1. CASE k = n
        BY <1>1, <4>1 DEF EndOf, n
      <4>2. CASE k # n
        <5>1. k + 1 \in 1 .. n /\ k < n
          BY <1>1, <1>2, <4>2
        <5>2. L[k + 1] \in Nat /\ L[k + 1] > o
          BY <1>1, <1>2, <5>1
        <5> QED
          BY <1>1, <4>2, <5>2 DEF EndOf, n
      <4> QED
        BY <4>1, <4>2
    <3> HIDE DEF z
    <3>3. L[k] \in Nat
      BY <1>1, <1>2
    <3>4. \A x \in L[k] + 1 .. o : x \in L[k] + 1 .. z
      BY <1>1, <3>2, <3>3
    <3>5. AsciiIn(t, L[k], z)
      BY <2>1, <2>3 DEF z
    <3>6. AsciiIn(t, L[k], o)
      BY <3>4, <3>5 DEF AsciiIn
    <3> QED
      BY <2>1, <2>3, <3>1, <3>6
  <2> QED
    BY <2>2, <2>3
<1> QED
  BY <1>4, <1>6, <1>7 DEF HasLines, AreFlags, s, fl

\* The lines from an offset on, the first of them from it.
LEMMA LinesFrom ==
    ASSUME NEW t \in Seq(TextBytes), NEW L, NEW F, HasLines(t, 0, Len(t), L, F), NEW o \in 0 .. Len(t),
           NEW k, IsLineOf(L, o, k)
    PROVE  HasLines(t, o, Len(t), <<o>> \o SubSeq(L, k + 1, Len(L)), SubSeq(F, k, Len(L)))
<1> DEFINE n == Len(L)
           e == Len(t)
           q == SubSeq(L, k + 1, n)
           s == <<o>> \o q
           fl == SubSeq(F, k, n)
           m == n - k
<1>1. /\ L \in Seq(Nat) /\ n \in Nat /\ n >= 1 /\ L[1] = 0
      /\ \A i \in 1 .. n : L[i] \in Nat
      /\ \A i, j \in 1 .. n : i < j => L[i] < L[j]
      /\ \A x \in Nat : (\E i \in 1 .. n : L[i] = x) <=>
                           x = 0 \/ (x \in 0 + 1 .. e /\ AfterTerminator(t, x))
      /\ e \in Nat /\ o \in Nat /\ o <= e /\ Increasing(L)
  <2>1. 0 <= Len(t) /\ Len(t) \in Nat /\ IsLines(t, 0, Len(t), L)
    BY LenProperties DEF HasLines
  <2>2. L \in Seq(Nat) /\ n \in Nat /\ n >= 1 /\ L[1] = 0 /\ \A i \in 1 .. n : L[i] \in Nat
    BY <2>1, StartsOfText
  <2>3. /\ Increasing(L)
        /\ \A x \in Nat : (\E i \in 1 .. n : L[i] = x) <=>
                             x = 0 \/ (x \in 0 + 1 .. Len(t) /\ AfterTerminator(t, x))
    BY <2>1 DEF IsLines
  <2>4. \A i, j \in 1 .. n : i < j => L[i] < L[j]
    BY <2>3 DEF Increasing
  <2> QED
    BY <2>1, <2>2, <2>3, <2>4
<1>2. k \in 1 .. n /\ L[k] <= o /\ \A i \in 1 .. n : L[i] <= o <=> i <= k
  BY <1>1, LinesBefore DEF IsLineOf
<1>3. /\ F \in Seq(BOOLEAN) /\ Len(F) = n
      /\ \A i \in 1 .. n : F[i] => AsciiIn(t, L[i], EndOf(L, i, e))
  BY DEF HasLines, AreFlags, AreHonest
<1>4. m \in Nat /\ k + m = n
  BY <1>1, <1>2
<1>5. /\ q \in Seq(Nat) /\ Len(q) = m /\ \A i \in 1 .. m : q[i] = L[k + i]
      /\ fl \in Seq(BOOLEAN) /\ Len(fl) = m + 1 /\ \A i \in 1 .. m + 1 : fl[i] = F[k + i - 1]
  <2> DEFINE a == k + 1
  <2>1. /\ k \in Nat /\ a \in Nat /\ 1 <= k /\ 1 <= a /\ k <= n + 1 /\ a <= n + 1 /\ n <= n
        /\ n \in Nat /\ n - a + 1 = m /\ n - k + 1 = m + 1 /\ \A i \in 1 .. m : a + i - 1 = k + i
    BY <1>1, <1>2
  <2> HIDE DEF a, m
  <2>2. /\ SubSeq(L, a, n) \in Seq(Nat) /\ Len(SubSeq(L, a, n)) = n - a + 1
        /\ \A i \in 1 .. n - a + 1 : SubSeq(L, a, n)[i] = L[a + i - 1]
    <3>1. L \in Seq(Nat) /\ n <= Len(L)
      BY <1>1, <2>1
    <3> HIDE DEF n
    <3> QED
      BY <2>1, <3>1, PartOfSeq, SMTT(30)
  <2>3. /\ fl \in Seq(BOOLEAN) /\ Len(fl) = n - k + 1 /\ \A i \in 1 .. n - k + 1 : fl[i] = F[k + i - 1]
    <3> HIDE DEF n
    <3>1. n <= Len(F)
      BY <1>3, <2>1
    <3>2. F \in Seq(BOOLEAN)
      BY <1>3
    <3> QED
      BY <2>1, <3>1, <3>2, PartOfSeq
  <2>4. q = SubSeq(L, a, n)
    BY DEF a
  <2> HIDE DEF q, fl
  <2> QED
    BY <2>1, <2>2, <2>3, <2>4
<1> HIDE DEF q, fl, m, n, e
<1>6. s \in Seq(Nat) /\ Len(s) = m + 1 /\ s[1] = o /\ \A i \in 1 .. m : s[i + 1] = q[i]
  BY <1>1, <1>5, Prepended
<1> HIDE DEF s
<1>7. \A i \in 2 .. m + 1 : /\ s[i] = L[k + i - 1] /\ s[i] > o /\ k + i - 1 \in k + 1 .. n
                            /\ k + i - 1 \in 1 .. n
  <2> TAKE i \in 2 .. m + 1
  <2>1. i - 1 \in 1 .. m /\ (i - 1) + 1 = i /\ k + (i - 1) = k + i - 1
        /\ k + i - 1 \in k + 1 .. n /\ k + i - 1 \in 1 .. n
    BY <1>1, <1>2, <1>4
  <2>2. s[i] = L[k + i - 1]
    BY <1>5, <1>6, <2>1
  <2>3. ~(k + i - 1 <= k)
    BY <1>2, <2>1
  <2>4. ~(L[k + i - 1] <= o) /\ L[k + i - 1] \in Nat
    BY <1>1, <1>2, <2>1, <2>3
  <2> QED
    BY <1>1, <2>1, <2>2, <2>4
<1>8. IsLines(t, o, e, s)
  <2>1. Increasing(s)
    <3> SUFFICES ASSUME NEW i \in 1 .. m + 1, NEW j \in 1 .. m + 1, i < j PROVE s[i] < s[j]
      BY <1>6 DEF Increasing
    <3>1. j \in 2 .. m + 1
      BY <1>4
    <3>2. CASE i = 1
      <4>1. s[j] \in Nat
        BY <1>1, <1>7, <3>1
      <4> QED
        BY <1>1, <1>6, <1>7, <3>1, <3>2, <4>1
    <3>3. CASE i # 1
      <4>1. i \in 2 .. m + 1 /\ k + i - 1 < k + j - 1
        BY <1>1, <1>2, <1>4, <3>3
      <4> QED
        BY <1>1, <1>7, <3>1, <4>1
    <3> QED
      BY <3>2, <3>3
  <2>2. ASSUME NEW x \in Nat
        PROVE  (\E i \in 1 .. m + 1 : s[i] = x) <=> x = o \/ (x \in o + 1 .. e /\ AfterTerminator(t, x))
    <3>1. (\E i \in 1 .. m + 1 : s[i] = x) <=> x = o \/ (x > o /\ \E i \in 1 .. n : L[i] = x)
      <4>1. ASSUME NEW i \in 1 .. m + 1, s[i] = x
            PROVE  x = o \/ (x > o /\ \E j \in 1 .. n : L[j] = x)
        <5>1. CASE i = 1
          BY <1>6, <4>1, <5>1
        <5>2. CASE i # 1
          <6>1. i \in 2 .. m + 1
            BY <1>4, <5>2
          <6> QED
            BY <1>7, <4>1, <6>1
        <5> QED
          BY <5>1, <5>2
      <4>2. ASSUME NEW i \in 1 .. n, L[i] = x, x > o PROVE \E j \in 1 .. m + 1 : s[j] = x
        <5>1. ~(i <= k)
          BY <1>1, <1>2, <4>2
        <5>2. i - k + 1 \in 2 .. m + 1 /\ k + (i - k + 1) - 1 = i /\ i - k + 1 \in 1 .. m + 1
          BY <1>1, <1>2, <1>4, <5>1
        <5>3. s[i - k + 1] = L[i]
          BY <1>7, <5>2
        <5> QED
          BY <4>2, <5>2, <5>3
      <4>3. 1 \in 1 .. m + 1
        BY <1>4
      <4> QED
        BY <1>6, <4>1, <4>2, <4>3
    <3>2. x > o => (x \in 0 + 1 .. e <=> x \in o + 1 .. e) /\ x # 0
      BY <1>1
    <3>3. x \in o + 1 .. e => x > o
      BY <1>1
    <3> QED
      BY <1>1, <3>1, <3>2, <3>3
  <2> QED
    BY <1>4, <1>6, <2>1, <2>2 DEF IsLines
<1>9. AreHonest(t, e, s, fl)
  <2> SUFFICES ASSUME NEW i \in 1 .. m + 1, fl[i] PROVE AsciiIn(t, s[i], EndOf(s, i, e))
    BY <1>6 DEF AreHonest
  <2> DEFINE j == k + i - 1
             z == EndOf(L, j, e)
  <2>1. j \in 1 .. n /\ fl[i] = F[j] /\ (i = m + 1 <=> j = n)
    <3>1. k \in Nat /\ k >= 1 /\ m \in Nat /\ n = k + m /\ i \in Nat /\ i >= 1 /\ i <= m + 1
      BY <1>1, <1>2, <1>4
    <3>2. j \in 1 .. n /\ (i = m + 1 <=> j = n)
      BY <3>1
    <3> QED
      BY <1>5, <3>2
  <2>2. AsciiIn(t, L[j], z)
    BY <1>3, <2>1
  <2>3. EndOf(s, i, e) = z
    <3>1. CASE i = m + 1
      BY <1>6, <2>1, <3>1 DEF EndOf, n
    <3>2. CASE i # m + 1
      <4>1. i + 1 \in 2 .. m + 1 /\ k + (i + 1) - 1 = j + 1
        BY <1>1, <1>2, <1>4, <3>2
      <4>2. s[i + 1] = L[j + 1]
        BY <1>7, <4>1
      <4> HIDE DEF j
      <4> QED
        BY <1>6, <2>1, <3>2, <4>2 DEF EndOf, n
    <3> QED
      BY <3>1, <3>2
  <2>4. L[j] <= s[i] /\ L[j] \in Nat /\ s[i] \in Nat
    <3>1. CASE i = 1
      <4>1. j = k
        BY <1>1, <1>2, <3>1
      <4> QED
        BY <1>1, <1>2, <1>6, <3>1, <4>1
    <3>2. CASE i # 1
      <4>1. i \in 2 .. m + 1
        BY <1>4, <3>2
      <4>2. s[i] = L[j]
        BY <1>7, <4>1
      <4> HIDE DEF j
      <4> QED
        BY <1>1, <2>1, <4>2
    <3> QED
      BY <3>1, <3>2
  <2>5. \A x \in s[i] + 1 .. z : x \in L[j] + 1 .. z
    <3> HIDE DEF j, z
    <3>1. \A x \in s[i] + 1 .. z : x \in Int /\ x >= s[i] + 1 /\ x <= z
      BY <2>4
    <3> QED
      BY <2>4, <3>1
  <2> HIDE DEF j, z
  <2>6. AsciiIn(t, s[i], z)
    BY <2>2, <2>5 DEF AsciiIn
  <2> QED
    BY <2>3, <2>6
<1>10. HasLines(t, o, e, s, fl)
  BY <1>5, <1>6, <1>8, <1>9 DEF HasLines, AreFlags
<1> QED
  BY <1>10 DEF s, q, fl, n, e

\* The same bytes at another place have the same lines there.
LEMMA LinesMoved ==
    ASSUME NEW t, NEW u, NEW b \in Nat, NEW e \in Nat, NEW b2 \in Nat, NEW e2 \in Nat,
           b <= e, e + b2 = e2 + b,
           \A x \in b + 1 .. e, y \in Nat :
              y + b = x + b2 => u[y] = t[x] /\ (AfterTerminator(u, y) <=> AfterTerminator(t, x)),
           NEW s, NEW F, HasLines(t, b, e, s, F),
           NEW s2 \in Seq(Nat), Len(s2) = Len(s), \A i \in 1 .. Len(s) : s2[i] + b = s[i] + b2
    PROVE  HasLines(u, b2, e2, s2, F)
<1> DEFINE n == Len(s)
<1>1. IsLines(t, b, e, s)
  BY DEF HasLines
<1>2. s \in Seq(Nat) /\ n \in Nat /\ n >= 1 /\ s[1] = b
      /\ \A i \in 1 .. n : s[i] \in Nat /\ b <= s[i] /\ s[i] <= e
  <2>1. s \in Seq(Nat) /\ n >= 1 /\ s[1] = b
    BY <1>1 DEF IsLines
  <2>2. \A i \in 1 .. n : s[i] \in Nat /\ b <= s[i] /\ s[i] <= e
    BY <1>1, LinesFacts
  <2> QED
    BY <2>1, <2>2, LenProperties
<1>3. /\ \A i, j \in 1 .. n : i < j => s[i] < s[j]
      /\ \A o \in Nat : (\E i \in 1 .. n : s[i] = o) <=>
                           o = b \/ (o \in b + 1 .. e /\ AfterTerminator(t, o))
  BY <1>1 DEF IsLines, Increasing
<1>4. \A i \in 1 .. n : EndOf(s, i, e) \in Nat /\ s[i] <= EndOf(s, i, e) /\ EndOf(s, i, e) <= e
  BY <1>1, LinesFacts
<1> HIDE DEF n
<1>5. Len(s2) = n /\ \A i \in 1 .. n : s2[i] \in Nat /\ s2[i] + b = s[i] + b2
  <2>1. Len(s2) = n
    BY DEF n
  <2>2. \A i \in 1 .. n : s2[i] \in Nat
    BY <2>1, ElementOfSeq
  <2> QED
    BY <2>1, <2>2 DEF n
<1>6. Increasing(s2)
  <2> SUFFICES ASSUME NEW i \in 1 .. n, NEW j \in 1 .. n, i < j PROVE s2[i] < s2[j]
    BY <1>5 DEF Increasing
  <2> DEFINE x == s[i]
             y == s[j]
             x2 == s2[i]
             y2 == s2[j]
  <2>1. x2 \in Nat /\ y2 \in Nat /\ x \in Nat /\ y \in Nat
        /\ x2 + b = x + b2 /\ y2 + b = y + b2 /\ x < y
    BY <1>2, <1>3, <1>5
  <2> HIDE DEF x, y, x2, y2
  <2>2. x2 < y2
    BY <2>1
  <2> QED
    BY <2>2 DEF x2, y2
<1>7. ASSUME NEW y \in Nat
      PROVE  (\E i \in 1 .. n : s2[i] = y) <=> y = b2 \/ (y \in b2 + 1 .. e2 /\ AfterTerminator(u, y))
  <2>1. ASSUME NEW i \in 1 .. n, s2[i] = y
        PROVE  y = b2 \/ (y \in b2 + 1 .. e2 /\ AfterTerminator(u, y))
    <3> DEFINE x == s[i]
    <3>1. x \in Nat /\ y + b = x + b2 /\ (x = b \/ (x \in b + 1 .. e /\ AfterTerminator(t, x)))
      BY <1>2, <1>3, <1>5, <2>1
    <3> HIDE DEF x
    <3>2. CASE x = b
      BY <3>1, <3>2
    <3>3. CASE x # b
      <4>1. y \in b2 + 1 .. e2
        BY <3>1, <3>3
      <4> QED
        BY <3>1, <3>3, <4>1
    <3> QED
      BY <3>2, <3>3
  <2>2. ASSUME y = b2 \/ (y \in b2 + 1 .. e2 /\ AfterTerminator(u, y))
        PROVE  \E i \in 1 .. n : s2[i] = y
    <3> DEFINE x == y + b - b2
    <3>1. x \in Nat /\ y + b = x + b2 /\ (y = b2 => x = b) /\ (y \in b2 + 1 .. e2 => x \in b + 1 .. e)
      BY <2>2
    <3> HIDE DEF x
    <3>2. x = b \/ (x \in b + 1 .. e /\ AfterTerminator(t, x))
      BY <2>2, <3>1
    <3>3. PICK i \in 1 .. n : s[i] = x
      BY <1>3, <3>1, <3>2
    <3>4. s2[i] = y
      <4>1. s2[i] \in Nat /\ s2[i] + b = x + b2
        BY <1>5, <3>3
      <4> QED
        BY <3>1, <4>1
    <3> QED
      BY <3>4
  <2> QED
    BY <2>1, <2>2
<1>8. F \in Seq(BOOLEAN) /\ Len(F) = n /\ \A i \in 1 .. n : F[i] => AsciiIn(t, s[i], EndOf(s, i, e))
  BY DEF HasLines, AreFlags, AreHonest, n
<1>9. ASSUME NEW i \in 1 .. n, F[i] PROVE AsciiIn(u, s2[i], EndOf(s2, i, e2))
  <2> DEFINE z == EndOf(s, i, e)
             z2 == EndOf(s2, i, e2)
             a == s[i]
             a2 == s2[i]
  <2>1. AsciiIn(t, a, z) /\ z \in Nat /\ z <= e /\ a \in Nat /\ b <= a /\ a2 \in Nat /\ a2 + b = a + b2
    BY <1>2, <1>4, <1>5, <1>8, <1>9
  <2>2. z2 \in Nat /\ z2 + b = z + b2
    <3>1. CASE i = n
      BY <1>5, <3>1 DEF EndOf, n
    <3>2. CASE i # n
      <4>1. i + 1 \in 1 .. n
        BY <1>2, <3>2
      <4>2. z2 = s2[i + 1] /\ z = s[i + 1]
        BY <1>5, <3>2 DEF EndOf, n
      <4> HIDE DEF z, z2
      <4> QED
        BY <1>5, <4>1, <4>2
    <3> QED
      BY <3>1, <3>2
  <2> HIDE DEF z, z2, a, a2
  <2>3. ASSUME NEW y \in a2 + 1 .. z2 PROVE u[y] \in Ascii
    <3> DEFINE x == y + b - b2
    <3>1. x \in a + 1 .. z /\ x \in b + 1 .. e /\ y \in Nat /\ y + b = x + b2
      BY <2>1, <2>2
    <3> HIDE DEF x
    <3>2. t[x] \in Ascii
      BY <2>1, <3>1 DEF AsciiIn
    <3> QED
      BY <3>1, <3>2
  <2>4. AsciiIn(u, a2, z2)
    BY <2>3 DEF AsciiIn
  <2> QED
    BY <2>4 DEF a2, z2
<1>10. IsLines(u, b2, e2, s2)
  <2>1. s2[1] = b2
    <3>1. 1 \in 1 .. n
      BY <1>2
    <3>2. s2[1] \in Nat /\ s2[1] + b = b + b2
      BY <1>2, <1>5, <3>1
    <3> QED
      BY <3>2
  <2> QED
    BY <1>2, <1>5, <1>6, <1>7, <2>1 DEF IsLines
<1> QED
  BY <1>5, <1>8, <1>9, <1>10 DEF HasLines, AreFlags, AreHonest

-----------------------------------------------------------------------------
(* An edit. *)

\* u is t with r in place of its bytes from begin to end.
IsSplice(u, t, begin, end, r) ==
    LET m == begin + Len(r)
    IN  /\ u \in Seq(TextBytes) /\ Len(u) = m + (Len(t) - end) /\ m \in Nat
        /\ \A x \in 1 .. begin : u[x] = t[x]
        /\ \A x \in end + 1 .. Len(t), y \in Nat : y + end = x + m => u[y] = t[x]

LEMMA SpliceFacts ==
    ASSUME NEW t \in Seq(TextBytes), NEW begin \in 0 .. Len(t), NEW end \in 0 .. Len(t), begin <= end,
           NEW r \in Seq(TextBytes)
    PROVE  IsSplice(Splice(t, begin, end, r), t, begin, end, r)
<1> DEFINE p == SubSeq(t, 1, begin)
           q == SubSeq(t, end + 1, Len(t))
           m == begin + Len(r)
           u == (p \o r) \o q
<1>1. Len(t) \in Nat /\ begin \in Nat /\ end \in Nat /\ end <= Len(t) /\ begin <= Len(t) /\ Len(r) \in Nat
      /\ m \in Nat
  BY LenProperties
<1>2. /\ p \in Seq(TextBytes) /\ Len(p) = begin /\ \A x \in 1 .. begin : p[x] = t[x]
  <2>1. 1 \in Nat /\ 1 <= 1 /\ 1 <= begin + 1 /\ begin - 1 + 1 = begin
        /\ \A x \in 1 .. begin : 1 + x - 1 = x
    BY <1>1
  <2>2. p \in Seq(TextBytes) /\ Len(p) = begin - 1 + 1 /\ \A x \in 1 .. begin - 1 + 1 : p[x] = t[1 + x - 1]
    BY <1>1, <2>1, PartOfSeq
  <2> HIDE DEF p
  <2> QED
    BY <2>1, <2>2
<1>3. /\ q \in Seq(TextBytes) /\ Len(q) = Len(t) - end /\ \A x \in 1 .. Len(t) - end : q[x] = t[end + x]
  <2> DEFINE a == end + 1
  <2>1. /\ a \in Nat /\ 1 <= a /\ a <= Len(t) + 1 /\ Len(t) <= Len(t) /\ Len(t) - a + 1 = Len(t) - end
        /\ \A x \in 1 .. Len(t) - end : a + x - 1 = end + x
    BY <1>1
  <2>2. q = SubSeq(t, a, Len(t))
    OBVIOUS
  <2> HIDE DEF a, q
  <2>3. /\ q \in Seq(TextBytes) /\ Len(q) = Len(t) - a + 1
        /\ \A x \in 1 .. Len(t) - a + 1 : q[x] = t[a + x - 1]
    BY <1>1, <2>1, <2>2, PartOfSeq
  <2> QED
    BY <2>1, <2>3
<1> HIDE DEF p, q
<1>4. /\ p \o r \in Seq(TextBytes) /\ Len(p \o r) = m /\ \A x \in 1 .. begin : (p \o r)[x] = p[x]
  BY <1>2, Joined
<1>5. /\ u \in Seq(TextBytes) /\ Len(u) = m + (Len(t) - end)
      /\ \A x \in 1 .. m : u[x] = (p \o r)[x]
      /\ \A x \in m + 1 .. m + (Len(t) - end) : u[x] = q[x - m]
  <2> DEFINE v == p \o r
  <2>1. v \in Seq(TextBytes) /\ Len(v) = m
    BY <1>4
  <2> HIDE DEF v, m
  <2>2. /\ v \o q \in Seq(TextBytes) /\ Len(v \o q) = m + (Len(t) - end)
        /\ \A x \in 1 .. m : (v \o q)[x] = v[x]
        /\ \A x \in m + 1 .. m + (Len(t) - end) : (v \o q)[x] = q[x - m]
    <3>1. /\ v \o q \in Seq(TextBytes) /\ Len(v \o q) = Len(v) + Len(q)
          /\ \A x \in 1 .. Len(v) : (v \o q)[x] = v[x]
          /\ \A x \in Len(v) + 1 .. Len(v) + Len(q) : (v \o q)[x] = q[x - Len(v)]
      BY <1>3, <2>1, Joined, Zenon
    <3>2. Len(q) = Len(t) - end
      BY <1>3
    <3> QED
      BY <2>1, <3>1, <3>2, Zenon
  <2> QED
    BY <2>2 DEF v
<1> HIDE DEF u
<1>6. \A x \in 1 .. begin : u[x] = t[x]
  <2>1. \A x \in 1 .. begin : x \in 1 .. m
    BY <1>1
  <2> QED
    BY <1>2, <1>4, <1>5, <2>1
<1>7. ASSUME NEW x \in end + 1 .. Len(t), NEW y \in Nat, y + end = x + m PROVE u[y] = t[x]
  <2> HIDE DEF m
  <2>1. y \in m + 1 .. m + (Len(t) - end) /\ y - m \in 1 .. Len(t) - end /\ end + (y - m) = x
    BY <1>1, <1>7
  <2> QED
    BY <1>3, <1>5, <2>1
<1>8. u = Splice(t, begin, end, r)
  BY DEF u, p, q, Splice
<1> QED
  BY <1>1, <1>5, <1>6, <1>7, <1>8 DEF IsSplice

\* An edit that joins no terminator leaves those before and after it as they were.
LEMMA SpliceTerminators ==
    ASSUME NEW t \in Seq(TextBytes), NEW begin \in Places(t), NEW end \in Places(t), begin <= end,
           NEW r \in Seq(TextBytes), ~JoinsTerminator(t, begin, end, r)
    PROVE  LET u == Splice(t, begin, end, r)
               m == begin + Len(r)
           IN  /\ \A x \in 1 .. begin : AfterTerminator(u, x) <=> AfterTerminator(t, x)
               /\ \A x \in end + 1 .. Len(t), y \in Nat :
                    y + end = x + m => (AfterTerminator(u, y) <=> AfterTerminator(t, x))
               /\ ~InsideTerminator(u, m)
<1> DEFINE u == Splice(t, begin, end, r)
           m == begin + Len(r)
<1>1. begin \in 0 .. Len(t) /\ end \in 0 .. Len(t) /\ ~InsideTerminator(t, begin)
      /\ ~InsideTerminator(t, end)
  BY PlaceIsOffset
<1>2. ~InsideTerminator(u, begin) /\ ~InsideTerminator(u, m)
  BY DEF JoinsTerminator
<1>3. /\ u \in Seq(TextBytes) /\ Len(u) = m + (Len(t) - end) /\ m \in Nat
      /\ \A x \in 1 .. begin : u[x] = t[x]
      /\ \A x \in end + 1 .. Len(t), y \in Nat : y + end = x + m => u[y] = t[x]
  <2>1. IsSplice(u, t, begin, end, r)
    BY <1>1, SpliceFacts
  <2> HIDE DEF u
  <2> QED
    BY <2>1 DEF IsSplice
<1>4. Len(t) \in Nat /\ begin \in Nat /\ end \in Nat /\ Len(r) \in Nat
      /\ begin <= m /\ end <= Len(t) /\ begin <= Len(t)
  BY <1>1, LenProperties
<1> HIDE DEF u, m
<1>5. Len(u) \in Nat /\ begin <= Len(u)
  BY <1>3, <1>4
<1>6. ASSUME NEW x \in 1 .. begin PROVE AfterTerminator(u, x) <=> AfterTerminator(t, x)
  <2>1. u[x] = t[x] /\ x \in Nat /\ x > 0
    BY <1>3, <1>4
  <2>2. AfterTerminator(t, x) <=> t[x] = "LF" \/ (t[x] = "CR" /\ ~(x + 1 <= Len(t) /\ t[x + 1] = "LF"))
    BY <2>1, PlaceFacts
  <2>3. AfterTerminator(u, x) <=> u[x] = "LF" \/ (u[x] = "CR" /\ ~(x + 1 <= Len(u) /\ u[x + 1] = "LF"))
    BY <1>3, <2>1, PlaceFacts
  <2>4. CASE x = begin
    <3>1. ~(x + 1 <= Len(t) /\ t[x] = "CR" /\ t[x + 1] = "LF")
      BY <1>1, <2>1, <2>4, PlaceFacts
    <3>2. ~(x + 1 <= Len(u) /\ u[x] = "CR" /\ u[x + 1] = "LF")
      BY <1>2, <1>3, <2>1, <2>4, PlaceFacts
    <3> QED
      BY <2>1, <2>2, <2>3, <3>1, <3>2
  <2>5. CASE x # begin
    <3>1. x + 1 \in 1 .. begin /\ x + 1 <= Len(t) /\ x + 1 <= Len(u)
      BY <1>4, <1>5, <2>5
    <3>2. u[x + 1] = t[x + 1]
      BY <1>3, <3>1
    <3> QED
      BY <2>1, <2>2, <2>3, <3>1, <3>2
  <2> QED
    BY <2>4, <2>5
<1>7. ASSUME NEW x \in end + 1 .. Len(t), NEW y \in Nat, y + end = x + m
      PROVE  AfterTerminator(u, y) <=> AfterTerminator(t, x)
  <2>1. u[y] = t[x] /\ x \in Nat /\ x > 0 /\ y > 0
    <3>1. u[y] = t[x]
      BY <1>3, <1>7
    <3>2. end \in Nat /\ m \in Nat /\ end <= Len(t) /\ Len(t) \in Nat /\ y + end = x + m
      BY <1>3, <1>4, <1>7
    <3>3. x \in Nat /\ x > end /\ x > 0
      BY <3>2
    <3>4. y > 0
      BY <3>2, <3>3
    <3> QED
      BY <3>1, <3>3, <3>4
  <2>2. AfterTerminator(t, x) <=> t[x] = "LF" \/ (t[x] = "CR" /\ ~(x + 1 <= Len(t) /\ t[x + 1] = "LF"))
    BY <2>1, PlaceFacts
  <2>3. AfterTerminator(u, y) <=> u[y] = "LF" \/ (u[y] = "CR" /\ ~(y + 1 <= Len(u) /\ u[y + 1] = "LF"))
    BY <1>3, <2>1, PlaceFacts
  <2>4. y + 1 <= Len(u) <=> x + 1 <= Len(t)
    <3> DEFINE n == Len(t)
               n2 == Len(u)
    <3>1. /\ n \in Nat /\ n2 = m + (n - end) /\ m \in Nat /\ end \in Nat
          /\ x \in Nat /\ y + end = x + m
      BY <1>3, <1>4, <1>7, <2>1
    <3> HIDE DEF n, n2
    <3>2. y + 1 <= n2 <=> x + 1 <= n
      BY <3>1
    <3> QED
      BY <3>2 DEF n, n2
  <2>5. x + 1 <= Len(t) => u[y + 1] = t[x + 1]
    <3> SUFFICES ASSUME x + 1 <= Len(t) PROVE u[y + 1] = t[x + 1]
      OBVIOUS
    <3>1. x + 1 \in end + 1 .. Len(t) /\ y + 1 \in Nat /\ (y + 1) + end = (x + 1) + m
      BY <1>3, <1>4, <1>7, <2>1
    <3> QED
      BY <1>3, <3>1
  <2> QED
    BY <2>1, <2>2, <2>3, <2>4, <2>5
<1> QED
  BY <1>2, <1>6, <1>7 DEF u, m

-----------------------------------------------------------------------------
(* The table of an edited text. *)

\* What a new locator computes.
LEMMA CacheIsRight ==
    ASSUME NEW t \in Seq(TextBytes)
    PROVE  LET c == CacheOffsetsOfLines(t)
           IN  /\ IsLines(t, 0, Len(t), c.offsets)
               /\ AreFlags(c.offsets, c.ascii) /\ AreExact(t, Len(t), c.offsets, c.ascii)
<1> DEFINE scan == ComputeOffsetsOfLines(t, 0, Len(t))
           c == CacheOffsetsOfLines(t)
<1>1. Len(t) \in Nat /\ 0 \in Nat /\ 0 <= Len(t) /\ Len(t) <= Len(t)
  BY LenProperties
<1>2. ~InsideTerminator(t, Len(t))
  <2>1. CASE Len(t) = 0
    BY <2>1 DEF InsideTerminator
  <2>2. CASE Len(t) > 0
    BY <1>1, <2>2, PlaceFacts
  <2> QED
    BY <1>1, <2>1, <2>2
<1>3. IsScan(t, 0, Len(t), scan)
  BY <1>1, <1>2, ScanIsRight
<1> HIDE DEF scan
<1>4. LET starts == <<0>> \o scan.offsets
          flags == Append(scan.ascii, scan.last)
      IN  IsLines(t, 0, Len(t), starts) /\ AreFlags(starts, flags) /\ AreExact(t, Len(t), starts, flags)
  BY <1>3 DEF IsScan
<1>5. c.offsets = <<0>> \o scan.offsets /\ c.ascii = Append(scan.ascii, scan.last)
  BY DEF CacheOffsetsOfLines, scan
<1> QED
  BY <1>4, <1>5

\* The lines before the edit, those of the replacement, and those after it moved.
LEMMA LinesOfEdit ==
    ASSUME NEW t \in Seq(TextBytes), NEW L, NEW F, HasLines(t, 0, Len(t), L, F),
           NEW begin \in Places(t), NEW end \in Places(t), begin <= end,
           NEW r \in Seq(TextBytes), ~JoinsTerminator(t, begin, end, r),
           NEW A, IsLineOf(L, begin, A), NEW B, IsLineOf(L, end, B),
           NEW after \in Seq(Nat), Len(after) = Len(L) - B,
           \A i \in 1 .. Len(L) - B : after[i] + end = L[B + i] + (begin + Len(r))
    PROVE  LET u == Splice(t, begin, end, r)
               within == ComputeOffsetsOfLines(u, begin, begin + Len(r))
           IN  /\ u \in Seq(TextBytes) /\ within \in Scans
               /\ HasLines(u, 0, Len(u), SubSeq(L, 1, A) \o within.offsets \o after,
                           JoinedFlags(JoinedFlags(SubSeq(F, 1, A), Append(within.ascii, within.last)),
                                       SubSeq(F, B, Len(L))))
<1> DEFINE u == Splice(t, begin, end, r)
           m == begin + Len(r)
           within == ComputeOffsetsOfLines(u, begin, m)
           P == SubSeq(L, 1, A)
           FP == SubSeq(F, 1, A)
           W == Append(within.ascii, within.last)
           Q == SubSeq(L, B + 1, Len(L))
           FQ == SubSeq(F, B, Len(L))
<1>1. begin \in 0 .. Len(t) /\ end \in 0 .. Len(t) /\ begin \in Nat /\ end \in Nat /\ Len(t) \in Nat
      /\ Len(r) \in Nat /\ begin <= Len(t) /\ end <= Len(t)
  BY PlaceIsOffset, LenProperties
<1>2. /\ u \in Seq(TextBytes) /\ Len(u) = m + (Len(t) - end) /\ m \in Nat
      /\ \A x \in 1 .. begin : u[x] = t[x]
      /\ \A x \in end + 1 .. Len(t), y \in Nat : y + end = x + m => u[y] = t[x]
  <2>1. IsSplice(u, t, begin, end, r)
    BY <1>1, SpliceFacts
  <2> HIDE DEF u, within, P, FP, W, Q, FQ
  <2> QED
    BY <2>1 DEF IsSplice
<1>3. /\ \A x \in 1 .. begin : AfterTerminator(u, x) <=> AfterTerminator(t, x)
      /\ \A x \in end + 1 .. Len(t), y \in Nat :
           y + end = x + m => (AfterTerminator(u, y) <=> AfterTerminator(t, x))
      /\ ~InsideTerminator(u, m)
  BY SpliceTerminators
<1>4. begin <= m /\ m <= Len(u) /\ Len(u) \in Nat /\ Len(t) + m = Len(u) + end
  <2> HIDE DEF u
  <2> QED
    BY <1>1, <1>2
<1>5. HasLines(t, 0, begin, P, FP)
  BY <1>1, LinesUpTo
<1>6. HasLines(t, end, Len(t), <<end>> \o Q, FQ)
  BY <1>1, LinesFrom
<1>7. IsScan(u, begin, m, within)
  <2> HIDE DEF u, m, within
  <2>1. IsScan(u, begin, m, ComputeOffsetsOfLines(u, begin, m))
    BY <1>1, <1>2, <1>3, <1>4, ScanIsRight
  <2> QED
    BY <2>1 DEF within
<1>8. Len(L) \in Nat /\ B \in 1 .. Len(L) /\ L \in Seq(Nat)
  BY LenProperties DEF HasLines, IsLines, IsLineOf
<1> HIDE DEF u, m, within, P, FP, FQ
<1>9. within \in Scans /\ within.offsets \in Seq(Nat)
      /\ HasLines(u, begin, m, <<begin>> \o within.offsets, W)
  <2>1. /\ within \in Scans /\ IsLines(u, begin, m, <<begin>> \o within.offsets)
        /\ AreFlags(<<begin>> \o within.offsets, W) /\ AreExact(u, m, <<begin>> \o within.offsets, W)
    BY <1>7 DEF IsScan
  <2>2. within.offsets \in Seq(Nat)
    BY <2>1 DEF Scans
  <2> HIDE DEF W
  <2> QED
    BY <2>1, <2>2 DEF HasLines, AreExact, AreHonest
<1> HIDE DEF W
<1>10. HasLines(u, 0, begin, P, FP)
  <2>1. P \in Seq(Nat)
    BY <1>5 DEF HasLines, IsLines
  <2>2. \A x \in 0 + 1 .. begin, y \in Nat :
          y + 0 = x + 0 => u[y] = t[x] /\ (AfterTerminator(u, y) <=> AfterTerminator(t, x))
    <3> SUFFICES ASSUME NEW x \in 0 + 1 .. begin, NEW y \in Nat, y + 0 = x + 0
                 PROVE  u[y] = t[x] /\ (AfterTerminator(u, y) <=> AfterTerminator(t, x))
      OBVIOUS
    <3>1. y = x /\ x \in 1 .. begin
      BY <1>1
    <3> QED
      BY <1>2, <1>3, <3>1
  <2>3. \A i \in 1 .. Len(P) : P[i] + 0 = P[i] + 0
    OBVIOUS
  <2>4. 0 \in Nat /\ 0 <= begin /\ begin + 0 = begin + 0
    BY <1>1
  <2> QED
    BY <1>1, <1>5, <2>1, <2>2, <2>3, <2>4, LinesMoved
<1>11. HasLines(u, 0, m, P \o within.offsets, JoinedFlags(FP, W))
  BY <1>1, <1>2, <1>4, <1>9, <1>10, LinesAreJoined
<1>12. HasLines(u, m, Len(u), <<m>> \o after, FQ)
  <2> DEFINE k == Len(L) - B
             s == <<end>> \o Q
             s2 == <<m>> \o after
  <2>1. k \in Nat /\ Q \in Seq(Nat) /\ Len(Q) = k /\ \A i \in 1 .. k : Q[i] = L[B + i]
    <3> DEFINE a == B + 1
               n == Len(L)
    <3>1. /\ a \in Nat /\ n \in Nat /\ 1 <= a /\ a <= n + 1 /\ n <= n
          /\ n - a + 1 = k /\ k \in Nat /\ \A i \in 1 .. k : a + i - 1 = B + i
      BY <1>8
    <3>2. Q = SubSeq(L, a, n) /\ n <= Len(L)
      BY <3>1
    <3> HIDE DEF a, n, Q, k
    <3>3. /\ SubSeq(L, a, n) \in Seq(Nat) /\ Len(SubSeq(L, a, n)) = n - a + 1
          /\ \A i \in 1 .. n - a + 1 : SubSeq(L, a, n)[i] = L[a + i - 1]
      <4>1. L \in Seq(Nat) /\ a \in Nat /\ n \in Nat /\ 1 <= a /\ a <= n + 1 /\ n <= Len(L)
        BY <1>8, <3>1, <3>2
      <4> QED
        BY <4>1, PartOfSeq, SMTT(60)
    <3> QED
      BY <3>1, <3>2, <3>3
  <2> HIDE DEF Q
  <2>2. s \in Seq(Nat) /\ Len(s) = k + 1 /\ s[1] = end /\ \A i \in 1 .. k : s[i + 1] = Q[i]
    BY <1>1, <2>1, Prepended
  <2>3. s2 \in Seq(Nat) /\ Len(s2) = k + 1 /\ s2[1] = m /\ \A i \in 1 .. k : s2[i + 1] = after[i]
    <3>1. Len(after) = k
      OBVIOUS
    <3> HIDE DEF k
    <3> QED
      BY <1>2, <3>1, Prepended
  <2>4. \A i \in 1 .. k : after[i] + end = L[B + i] + m
    BY DEF m
  <2> HIDE DEF s, s2, k
  <2>5. ASSUME NEW i \in 1 .. k + 1 PROVE s2[i] + end = s[i] + m
    <3>1. CASE i = 1
      BY <1>1, <1>2, <2>2, <2>3, <3>1
    <3>2. CASE i # 1
      <4>1. i - 1 \in 1 .. k /\ (i - 1) + 1 = i
        BY <2>1, <3>2
      <4>2. s2[i] = after[i - 1] /\ s[i] = L[B + (i - 1)]
        BY <2>1, <2>2, <2>3, <4>1
      <4> QED
        BY <2>4, <4>1, <4>2
    <3> QED
      BY <3>1, <3>2
  <2>6. HasLines(t, end, Len(t), s, FQ)
    BY <1>6 DEF s
  <2>7. \A x \in end + 1 .. Len(t), y \in Nat :
          y + end = x + m => u[y] = t[x] /\ (AfterTerminator(u, y) <=> AfterTerminator(t, x))
    BY <1>2, <1>3
  <2>8. \A i \in 1 .. Len(s) : s2[i] + end = s[i] + m
    BY <2>2, <2>5
  <2>9. Len(s2) = Len(s)
    BY <2>2, <2>3
  <2>10. HasLines(u, m, Len(u), s2, FQ)
    <3>1. end \in Nat /\ Len(t) \in Nat /\ m \in Nat /\ Len(u) \in Nat /\ end <= Len(t)
          /\ Len(t) + m = Len(u) + end
      BY <1>1, <1>2, <1>4
    <3>2. s2 \in Seq(Nat)
      BY <2>3
    <3> QED
      BY <3>1, <3>2, <2>6, <2>7, <2>8, <2>9, LinesMoved, ZenonT(40)
  <2> QED
    BY <2>10 DEF s2
<1>13. HasLines(u, 0, Len(u), (P \o within.offsets) \o after, JoinedFlags(JoinedFlags(FP, W), FQ))
  <2> DEFINE p == P \o within.offsets
             fp == JoinedFlags(FP, W)
  <2>1. HasLines(u, 0, m, p, fp)
    BY <1>11
  <2> HIDE DEF p, fp
  <2>2. 0 \in Nat /\ 0 <= m
    BY <1>2
  <2>3. HasLines(u, 0, Len(u), p \o after, JoinedFlags(fp, FQ))
    BY <1>2, <1>4, <1>12, <2>1, <2>2, LinesAreJoined
  <2> QED
    BY <2>3 DEF p, fp
<1> QED
  BY <1>2, <1>9, <1>13 DEF u, m, within, P, FP, FQ, W

\* A table that calls fewer lines ASCII is as honest.
LEMMA HonestWeaker ==
    ASSUME NEW t, NEW e, NEW starts, NEW flags, NEW fewer, AreHonest(t, e, starts, flags),
           \A i \in 1 .. Len(starts) : fewer[i] => flags[i]
    PROVE  AreHonest(t, e, starts, fewer)
BY DEF AreHonest

\* The flags that replace_text keeps are those of the joined lines, or say less.
EditedFlags(F, A, B, ascii, last) ==
    SubSeq(F, 1, A - 1) \o
    (IF ascii = << >> THEN << >> ELSE <<ascii[1] /\ F[A]>> \o Tail(ascii)) \o
    <<last /\ F[A] /\ F[B]>> \o SubSeq(F, B + 1, Len(F))

LEMMA FlagsOfEdit ==
    ASSUME NEW F \in Seq(BOOLEAN), NEW A \in 1 .. Len(F), NEW B \in 1 .. Len(F),
           NEW ascii \in Seq(BOOLEAN), NEW last \in BOOLEAN
    PROVE  LET edited_flags == EditedFlags(F, A, B, ascii, last)
               united == JoinedFlags(JoinedFlags(SubSeq(F, 1, A), Append(ascii, last)),
                                     SubSeq(F, B, Len(F)))
           IN  /\ edited_flags \in Seq(BOOLEAN)
               /\ Len(edited_flags) = A + Len(ascii) + (Len(F) - B)
               /\ \A i \in 1 .. A + Len(ascii) + (Len(F) - B) : edited_flags[i] => united[i]
<1> DEFINE n == Len(F)
           w == Len(ascii)
           k == n - B
           f1 == SubSeq(F, 1, A - 1)
           f2 == IF ascii = << >> THEN << >> ELSE <<ascii[1] /\ F[A]>> \o Tail(ascii)
           f3 == <<last /\ F[A] /\ F[B]>>
           f4 == SubSeq(F, B + 1, n)
           FP == SubSeq(F, 1, A)
           W == Append(ascii, last)
           FQ == SubSeq(F, B, n)
           JP == JoinedFlags(FP, W)
           J == JoinedFlags(JP, FQ)
<1>1. n \in Nat /\ w \in Nat /\ k \in Nat /\ A \in Nat /\ B \in Nat /\ 1 <= A /\ A <= n /\ 1 <= B /\ B <= n
      /\ B + k = n
  BY LenProperties
<1>2. /\ f1 \in Seq(BOOLEAN) /\ Len(f1) = A - 1 /\ \A i \in 1 .. A - 1 : f1[i] = F[i]
  <2> DEFINE b == A - 1
  <2>1. b \in Nat /\ 1 \in Nat /\ 1 <= 1 /\ 1 <= b + 1 /\ b <= Len(F) /\ b - 1 + 1 = b
        /\ \A i \in 1 .. b : 1 + i - 1 = i
    BY <1>1
  <2> HIDE DEF b, n
  <2>2. /\ SubSeq(F, 1, b) \in Seq(BOOLEAN) /\ Len(SubSeq(F, 1, b)) = b - 1 + 1
        /\ \A i \in 1 .. b - 1 + 1 : SubSeq(F, 1, b)[i] = F[1 + i - 1]
    BY <2>1, PartOfSeq
  <2>3. f1 = SubSeq(F, 1, b)
    BY DEF b
  <2> HIDE DEF f1
  <2>4. f1 \in Seq(BOOLEAN) /\ Len(f1) = b /\ \A i \in 1 .. b : f1[i] = F[i]
    BY <2>1, <2>2, <2>3
  <2> QED
    BY <2>4 DEF b
<1>3. /\ FP \in Seq(BOOLEAN) /\ Len(FP) = A /\ \A i \in 1 .. A : FP[i] = F[i]
  <2>1. A \in Nat /\ 1 \in Nat /\ 1 <= 1 /\ 1 <= A + 1 /\ A <= Len(F) /\ A - 1 + 1 = A
        /\ \A i \in 1 .. A : 1 + i - 1 = i
    BY <1>1
  <2> HIDE DEF n
  <2>2. /\ FP \in Seq(BOOLEAN) /\ Len(FP) = A - 1 + 1
        /\ \A i \in 1 .. A - 1 + 1 : FP[i] = F[1 + i - 1]
    BY <2>1, PartOfSeq
  <2> HIDE DEF FP
  <2> QED
    BY <2>1, <2>2
<1>4. /\ FQ \in Seq(BOOLEAN) /\ Len(FQ) = k + 1 /\ \A i \in 1 .. k + 1 : FQ[i] = F[B + i - 1]
  <2>1. B \in Nat /\ n \in Nat /\ 1 <= B /\ B <= n + 1 /\ n <= Len(F) /\ n - B + 1 = k + 1
    BY <1>1
  <2> HIDE DEF n, k
  <2>2. /\ FQ \in Seq(BOOLEAN) /\ Len(FQ) = n - B + 1
        /\ \A i \in 1 .. n - B + 1 : FQ[i] = F[B + i - 1]
    BY <2>1, PartOfSeq
  <2> HIDE DEF FQ
  <2> QED
    BY <2>1, <2>2
<1>5. /\ f4 \in Seq(BOOLEAN) /\ Len(f4) = k /\ \A i \in 1 .. k : f4[i] = F[B + i]
  <2> DEFINE a == B + 1
  <2>1. a \in Nat /\ n \in Nat /\ 1 <= a /\ a <= n + 1 /\ n <= Len(F) /\ n - a + 1 = k
        /\ \A i \in 1 .. k : a + i - 1 = B + i
    BY <1>1
  <2>2. f4 = SubSeq(F, a, n)
    OBVIOUS
  <2> HIDE DEF n, k, a, f4
  <2>3. /\ SubSeq(F, a, n) \in Seq(BOOLEAN) /\ Len(SubSeq(F, a, n)) = n - a + 1
        /\ \A i \in 1 .. n - a + 1 : SubSeq(F, a, n)[i] = F[a + i - 1]
    BY <2>1, PartOfSeq
  <2> QED
    BY <2>1, <2>2, <2>3
<1>6. /\ W \in Seq(BOOLEAN) /\ Len(W) = w + 1
      /\ \A i \in 1 .. w + 1 : W[i] = IF i = w + 1 THEN last ELSE ascii[i]
  BY Appended
<1>7. /\ f2 \in Seq(BOOLEAN) /\ Len(f2) = w
      /\ \A i \in 1 .. w : f2[i] => ascii[i] /\ (i = 1 => F[A])
  <2>1. CASE ascii = << >>
    <3>1. f2 = << >> /\ w = 0
      BY <2>1
    <3>2. << >> \in Seq(BOOLEAN) /\ Len(<< >>) = 0
      OBVIOUS
    <3> HIDE DEF f2, w
    <3> QED
      BY <3>1, <3>2
  <2>2. CASE ascii # << >>
    <3> DEFINE x == ascii[1] /\ F[A]
               q == Tail(ascii)
    <3>1. q \in Seq(BOOLEAN) /\ w >= 1 /\ Len(q) = w - 1 /\ \A i \in 1 .. w - 1 : q[i] = ascii[i + 1]
      BY <2>2, HeadTailProperties, EmptySeq
    <3>2. x \in BOOLEAN
      OBVIOUS
    <3>3. f2 = <<x>> \o q
      BY <2>2
    <3>4. x => ascii[1] /\ F[A]
      OBVIOUS
    <3> HIDE DEF f2, q, x, w
    <3>5. /\ f2 \in Seq(BOOLEAN) /\ Len(f2) = Len(q) + 1 /\ f2[1] = x
          /\ \A i \in 1 .. Len(q) : f2[i + 1] = q[i]
      BY <3>1, <3>2, <3>3, Prepended
    <3>6. Len(f2) = w
      BY <1>1, <3>1, <3>5
    <3>7. ASSUME NEW i \in 1 .. w, f2[i] PROVE ascii[i] /\ (i = 1 => F[A])
      <4>1. CASE i = 1
        BY <3>4, <3>5, <3>7, <4>1
      <4>2. CASE i # 1
        <5>1. i - 1 \in 1 .. w - 1 /\ (i - 1) + 1 = i /\ i - 1 \in 1 .. Len(q)
          BY <1>1, <3>1, <4>2
        <5>2. f2[i] = q[i - 1] /\ q[i - 1] = ascii[i]
          BY <3>1, <3>5, <5>1
        <5> QED
          BY <3>7, <4>2, <5>2
      <4> QED
        BY <4>1, <4>2
    <3> QED
      BY <3>5, <3>6, <3>7
  <2> QED
    BY <2>1, <2>2
<1>8. /\ f3 \in Seq(BOOLEAN) /\ Len(f3) = 1 /\ (f3[1] => last /\ F[A] /\ F[B])
  <2> DEFINE x == last /\ F[A] /\ F[B]
  <2>1. x \in BOOLEAN
    OBVIOUS
  <2>2. f3 = <<x>> /\ (x => last /\ F[A] /\ F[B])
    OBVIOUS
  <2> HIDE DEF x, f3
  <2>3. <<x>> \in Seq(BOOLEAN) /\ Len(<<x>>) = 1 /\ <<x>>[1] = x
    BY <2>1
  <2> QED
    BY <2>2, <2>3
<1> HIDE DEF n, w, k, f1, f2, f3, f4, FP, W, FQ
<1> DEFINE g1 == f1 \o f2
           g2 == g1 \o f3
           g3 == g2 \o f4
<1>9. /\ g1 \in Seq(BOOLEAN) /\ Len(g1) = (A - 1) + w
      /\ \A i \in 1 .. A - 1 : g1[i] = f1[i]
      /\ \A i \in (A - 1) + 1 .. (A - 1) + w : g1[i] = f2[i - (A - 1)]
  <2>1. /\ g1 \in Seq(BOOLEAN) /\ Len(g1) = Len(f1) + Len(f2)
        /\ \A i \in 1 .. Len(f1) : g1[i] = f1[i]
        /\ \A i \in Len(f1) + 1 .. Len(f1) + Len(f2) : g1[i] = f2[i - Len(f1)]
    <3>1. f1 \in Seq(BOOLEAN) /\ f2 \in Seq(BOOLEAN)
      BY <1>2, <1>7
    <3> HIDE DEF g1
    <3>2. g1 = f1 \o f2
      BY DEF g1
    <3> QED
      BY <3>1, <3>2, Joined
  <2> HIDE DEF g1
  <2>2. Len(f1) = A - 1 /\ Len(f2) = w
    BY <1>2, <1>7
  <2> QED
    BY <2>1, <2>2, Zenon
<1> HIDE DEF g1
<1>10. /\ g2 \in Seq(BOOLEAN) /\ Len(g2) = A + w
       /\ \A i \in 1 .. (A - 1) + w : g2[i] = g1[i]
       /\ g2[A + w] = f3[1]
  <2>1. /\ g2 \in Seq(BOOLEAN) /\ Len(g2) = Len(g1) + Len(f3)
        /\ \A i \in 1 .. Len(g1) : g2[i] = g1[i]
        /\ \A i \in Len(g1) + 1 .. Len(g1) + Len(f3) : g2[i] = f3[i - Len(g1)]
    <3>1. g1 \in Seq(BOOLEAN) /\ f3 \in Seq(BOOLEAN)
      BY <1>8, <1>9
    <3> HIDE DEF g2
    <3>2. g2 = g1 \o f3
      BY DEF g2
    <3> QED
      BY <3>1, <3>2, Joined
  <2> HIDE DEF g2
  <2> DEFINE c == (A - 1) + w
  <2>2. Len(g1) = c /\ Len(f3) = 1 /\ c \in Nat /\ c + 1 = A + w
    BY <1>1, <1>8, <1>9
  <2> HIDE DEF c
  <2>3. /\ g2 \in Seq(BOOLEAN) /\ Len(g2) = c + 1
        /\ \A i \in 1 .. c : g2[i] = g1[i]
        /\ \A i \in c + 1 .. c + 1 : g2[i] = f3[i - c]
    BY <2>1, <2>2, Zenon
  <2>5. g2[c + 1] = f3[1]
    <3> DEFINE d == c + 1
    <3>1. d \in d .. d /\ d - c = 1
      BY <2>2
    <3>2. \A i \in d .. d : g2[i] = f3[i - c]
      BY <2>3, Zenon
    <3> HIDE DEF d
    <3>3. g2[d] = f3[d - c]
      BY <3>1, <3>2, Zenon
    <3>4. g2[d] = f3[1]
      BY <3>1, <3>3, Zenon
    <3> QED
      BY <3>4 DEF d
  <2>6. /\ g2 \in Seq(BOOLEAN) /\ Len(g2) = A + w /\ g2[A + w] = f3[1]
        /\ \A i \in 1 .. c : g2[i] = g1[i]
    BY <2>2, <2>3, <2>5, Zenon
  <2> QED
    BY <2>6 DEF c
<1> HIDE DEF g2
<1>11. /\ g3 \in Seq(BOOLEAN) /\ Len(g3) = (A + w) + k
       /\ \A i \in 1 .. A + w : g3[i] = g2[i]
       /\ \A i \in (A + w) + 1 .. (A + w) + k : g3[i] = f4[i - (A + w)]
  <2>1. /\ g3 \in Seq(BOOLEAN) /\ Len(g3) = Len(g2) + Len(f4)
        /\ \A i \in 1 .. Len(g2) : g3[i] = g2[i]
        /\ \A i \in Len(g2) + 1 .. Len(g2) + Len(f4) : g3[i] = f4[i - Len(g2)]
    <3>1. g2 \in Seq(BOOLEAN) /\ f4 \in Seq(BOOLEAN)
      BY <1>5, <1>10
    <3> HIDE DEF g3
    <3>2. g3 = g2 \o f4
      BY DEF g3
    <3> QED
      BY <3>1, <3>2, Joined
  <2> HIDE DEF g3
  <2>2. Len(g2) = A + w /\ Len(f4) = k
    BY <1>5, <1>10
  <2> QED
    BY <2>1, <2>2, Zenon
<1> HIDE DEF g3
<1>12. /\ Len(JP) = A + w
       /\ \A i \in 1 .. A + w :
            JP[i] = IF i < A THEN FP[i] ELSE IF i = A THEN FP[i] /\ W[1] ELSE W[i - A + 1]
  <2> DEFINE z == A + (w + 1) - 1
  <2>1. JP = [i \in 1 .. z |->
                IF i < A THEN FP[i] ELSE IF i = A THEN FP[i] /\ W[1] ELSE W[i - A + 1]]
    BY <1>3, <1>6 DEF JoinedFlags
  <2>2. z = A + w /\ z \in Nat
    BY <1>1
  <2> HIDE DEF z, JP
  <2>3. Len(JP) = z
    BY <2>1, <2>2
  <2> QED
    BY <2>1, <2>2, <2>3
<1> HIDE DEF JP
<1>13. \A i \in 1 .. (A + w) + k :
         J[i] = IF i < A + w THEN JP[i] ELSE IF i = A + w THEN JP[i] /\ FQ[1] ELSE FQ[i - (A + w) + 1]
  <2> DEFINE z == (A + w) + (k + 1) - 1
  <2>1. J = [i \in 1 .. z |->
               IF i < A + w THEN JP[i] ELSE IF i = A + w THEN JP[i] /\ FQ[1] ELSE FQ[i - (A + w) + 1]]
    BY <1>4, <1>12 DEF JoinedFlags
  <2>2. z = (A + w) + k
    BY <1>1
  <2> HIDE DEF z, J
  <2> QED
    BY <2>1, <2>2
<1> HIDE DEF J
<1>14. ASSUME NEW i \in 1 .. (A + w) + k, g3[i] PROVE J[i]
  <2>1. CASE i < A
    <3>1. i \in 1 .. A - 1 /\ i \in 1 .. (A - 1) + w /\ i \in 1 .. A + w /\ i \in 1 .. A /\ i < A + w
      BY <1>1, <2>1
    <3>2. g3[i] = g2[i] /\ g2[i] = g1[i] /\ g1[i] = f1[i] /\ f1[i] = F[i]
      BY <1>2, <1>9, <1>10, <1>11, <3>1
    <3>3. J[i] = JP[i] /\ JP[i] = FP[i] /\ FP[i] = F[i]
      BY <1>3, <1>12, <1>13, <2>1, <3>1
    <3> QED
      BY <1>14, <3>2, <3>3, Zenon
  <2>2. CASE A <= i /\ i < A + w
    <3> DEFINE j == i - (A - 1)
    <3>1. /\ i \in (A - 1) + 1 .. (A - 1) + w /\ i \in 1 .. (A - 1) + w /\ i \in 1 .. A + w
          /\ ~(i < A) /\ j \in 1 .. w /\ j \in 1 .. w + 1 /\ j # w + 1 /\ i - A + 1 = j
          /\ (i = A <=> j = 1) /\ 1 \in 1 .. w + 1 /\ 1 # w + 1 /\ A \in 1 .. A
      BY <1>1, <2>2
    <3>2. g3[i] = g2[i] /\ g2[i] = g1[i] /\ g1[i] = f2[j]
      BY <1>9, <1>10, <1>11, <3>1
    <3> HIDE DEF j
    <3>3. f2[j]
      BY <1>14, <3>2, Zenon
    <3>4. ascii[j] /\ (j = 1 => F[A])
      BY <1>7, <3>1, <3>3
    <3>5. J[i] = JP[i] /\ JP[i] = IF i = A THEN FP[i] /\ W[1] ELSE W[j]
      BY <1>12, <1>13, <2>2, <3>1
    <3>6. W[j] = ascii[j] /\ FP[A] = F[A]
      BY <1>3, <1>6, <3>1
    <3>7. CASE i = A
      <4>1. j = 1
        BY <3>1, <3>7
      <4>2. FP[i] /\ W[1]
        BY <3>4, <3>6, <3>7, <4>1, Zenon
      <4> QED
        BY <3>5, <3>7, <4>2, Zenon
    <3>8. CASE i # A
      BY <3>4, <3>5, <3>6, <3>8, Zenon
    <3> QED
      BY <3>7, <3>8
  <2>3. CASE i = A + w
    <3>1. i \in 1 .. A + w /\ ~(i < A) /\ w + 1 \in 1 .. w + 1 /\ A \in 1 .. A /\ i - A + 1 = w + 1
          /\ (i = A <=> w = 0) /\ ~(i < A + w) /\ 1 \in 1 .. k + 1 /\ B + 1 - 1 = B
      BY <1>1, <2>3
    <3>2. g3[i] = g2[i] /\ g2[i] = f3[1]
      BY <1>10, <1>11, <2>3, <3>1
    <3>3. f3[1]
      BY <1>14, <3>2, Zenon
    <3>4. last /\ F[A] /\ F[B]
      BY <1>8, <3>3
    <3>5. J[i] = (JP[i] /\ FQ[1]) /\ JP[i] = IF i = A THEN FP[i] /\ W[1] ELSE W[w + 1]
      BY <1>12, <1>13, <2>3, <3>1
    <3>6. W[w + 1] = last /\ FP[A] = F[A] /\ FQ[1] = F[B]
      BY <1>3, <1>4, <1>6, <3>1
    <3>7. JP[i]
      <4>1. CASE i = A
        <5>1. w + 1 = 1
          BY <3>1, <4>1
        <5>2. FP[i] /\ W[1]
          BY <3>4, <3>6, <4>1, <5>1, Zenon
        <5> QED
          BY <3>5, <4>1, <5>2, Zenon
      <4>2. CASE i # A
        BY <3>4, <3>5, <3>6, <4>2, Zenon
      <4> QED
        BY <4>1, <4>2
    <3>8. FQ[1]
      BY <3>4, <3>6, Zenon
    <3> QED
      BY <3>5, <3>7, <3>8, Zenon
  <2>4. CASE i > A + w
    <3> DEFINE j == i - (A + w)
    <3>1. /\ i \in (A + w) + 1 .. (A + w) + k /\ j \in 1 .. k /\ j + 1 \in 1 .. k + 1
          /\ B + (j + 1) - 1 = B + j /\ ~(i < A + w) /\ i # A + w
      BY <1>1, <2>4
    <3>2. g3[i] = f4[j]
      BY <1>11, <3>1
    <3>3. J[i] = FQ[j + 1]
      BY <1>13, <3>1
    <3> HIDE DEF j
    <3>4. f4[j] = F[B + j] /\ FQ[j + 1] = F[B + j]
      BY <1>4, <1>5, <3>1
    <3> QED
      BY <1>14, <3>2, <3>3, <3>4, Zenon
  <2> QED
    BY <1>1, <2>1, <2>2, <2>3, <2>4
<1>15. g3 = EditedFlags(F, A, B, ascii, last)
  BY DEF g3, g2, g1, f1, f2, f3, f4, n, EditedFlags
<1> QED
  BY <1>11, <1>14, <1>15 DEF J, JP, FP, W, FQ, n, w, k

-----------------------------------------------------------------------------
(* The specification. *)

\* The invariant: the table is right, and the text is the editor's, unless an edit made a CR
\* meet an LF.
DocumentInv == joined \in Nat /\ (joined = 0 => TableIsRight /\ text = edited)

\* A table that a new locator would make is right.
LEMMA CachedIsRight ==
    ASSUME text' \in Seq(TextBytes), offset_of_lines' = CacheOffsetsOfLines(text').offsets,
           line_is_ascii' = CacheOffsetsOfLines(text').ascii
    PROVE  TableIsRight'
<1> DEFINE c == CacheOffsetsOfLines(text')
<1>1. /\ IsLines(text', 0, Len(text'), c.offsets)
      /\ AreFlags(c.offsets, c.ascii) /\ AreExact(text', Len(text'), c.offsets, c.ascii)
  BY CacheIsRight
<1> HIDE DEF c
<1>2. AreHonest(text', Len(text'), c.offsets, c.ascii)
  BY <1>1 DEF AreExact, AreHonest
<1>3. offset_of_lines' = c.offsets /\ line_is_ascii' = c.ascii
  BY DEF c
<1> QED
  BY <1>1, <1>2, <1>3 DEF TableIsRight

\* replace_text: the text is the one the editor means, and the table is right for it.
LEMMA EditIsRight ==
    ASSUME TableIsRight, NEW begin \in Places(text), NEW end \in Places(text), begin <= end,
           NEW r \in Seq(TextBytes), ~JoinsTerminator(text, begin, end, r),
           NEW start_position \in PositionsOf(text, begin),
           NEW end_position \in EndPositionsOf(text, end),
           ReplaceText([start |-> start_position, end |-> end_position], r)
    PROVE  TableIsRight' /\ text' = Splice(text, begin, end, r)
<1> DEFINE L == offset_of_lines
           F == line_is_ascii
           n == Len(L)
           range == [start |-> start_position, end |-> end_position]
           u == Splice(text, begin, end, r)
           m == begin + Len(r)
           removed == end - begin
           w == ComputeOffsetsOfLines(u, begin, m)
<1>1. /\ begin \in 0 .. Len(text) /\ end \in 0 .. Len(text) /\ Len(text) \in Nat /\ text \in Seq(TextBytes)
      /\ NumberOfLines = n /\ n \in Nat
  BY PlaceIsOffset, LineFacts DEF NumberOfLines
<1>2. PICK A \in 1 .. n : IsLineOf(L, begin, A)
  BY <1>1, LineFacts
<1>3. PICK B \in 1 .. n : IsLineOf(L, end, B)
  BY <1>1, LineFacts
<1>4. FromPosition(start_position) = begin /\ start_position.line = A - 1
  BY <1>2, FromPositionIsRight DEF EndPositionsOf
<1>5. FromPosition(end_position) = end /\ EndLine(range) = B - 1
  BY <1>3, FromPositionIsRight DEF EndLine
<1>6. /\ A \in Nat /\ B \in Nat /\ (A - 1) + 1 = A /\ (B - 1) + 1 = B /\ (B - 1) + 2 = B + 1
      /\ begin \in Nat /\ end \in Nat /\ removed \in Nat /\ Len(r) \in Nat /\ n - B \in Nat
  BY <1>1, <1>2, <1>3, LenProperties
<1>7. /\ HasLines(text, 0, Len(text), L, F) /\ L \in Seq(Nat) /\ F \in Seq(BOOLEAN) /\ Len(F) = n
  BY DEF TableIsRight, HasLines, IsLines, AreFlags
<1> DEFINE after == ShiftedOffsets(B, removed, Len(r))
<1>8. /\ after \in Seq(Nat) /\ Len(after) = n - B
      /\ \A i \in 1 .. n - B : after[i] + end = L[B + i] + m
  <2> DEFINE k == n - B
             g == [i \in 1 .. k |-> L[B + i] + Len(r) - removed]
  <2>1. \A i \in 1 .. k : B + i - 1 + 1 = B + i
    BY <1>6
  <2>2. after = g
    <3>1. \A i \in 1 .. k : LineBegin(B + i - 1) = L[B + i]
      BY <2>1 DEF LineBegin
    <3>2. after = [i \in 1 .. k |-> LineBegin(B + i - 1) + Len(r) - removed]
      BY <1>1 DEF ShiftedOffsets
    <3> HIDE DEF k, after
    <3> QED
      BY <3>1, <3>2
  <2>3. \A i \in 1 .. k : L[B + i] \in Nat /\ L[B + i] > end
    <3>1. \A i \in 1 .. k : B + i \in 1 .. n /\ ~(B + i <= B)
      BY <1>1, <1>3, <1>6
    <3>2. Increasing(L)
      BY <1>7 DEF HasLines, IsLines
    <3>3. \A i \in 1 .. n : L[i] <= end <=> i <= B
      BY <1>3, <1>6, <1>7, <3>2, LinesBefore
    <3>4. \A i \in 1 .. n : L[i] \in Nat
      BY <1>7, ElementOfSeq
    <3> HIDE DEF k, n, L
    <3> QED
      BY <1>6, <3>1, <3>3, <3>4
  <2>4. \A i \in 1 .. k : g[i] \in Nat /\ g[i] + end = L[B + i] + m
    <3> TAKE i \in 1 .. k
    <3> DEFINE x == L[B + i]
    <3>1. x \in Nat /\ x > end /\ g[i] = x + Len(r) - removed
      BY <2>3
    <3> HIDE DEF x, g, k
    <3>2. g[i] \in Nat /\ g[i] + end = x + m
      BY <1>6, <3>1
    <3> QED
      BY <3>2 DEF x
  <2>5. k \in Nat
    BY <1>6
  <2>6. g \in [1 .. k -> Nat]
    BY <2>4
  <2> HIDE DEF g, k
  <2>7. g \in Seq(Nat) /\ Len(g) = k
    BY <2>5, <2>6
  <2> QED
    BY <2>2, <2>4, <2>7 DEF k
<1> HIDE DEF after
<1>9. /\ u \in Seq(TextBytes) /\ w \in Scans
      /\ HasLines(u, 0, Len(u), SubSeq(L, 1, A) \o w.offsets \o after,
                  JoinedFlags(JoinedFlags(SubSeq(F, 1, A), Append(w.ascii, w.last)), SubSeq(F, B, n)))
  <2> DEFINE t == text
             k == Len(L) - B
  <2>1. /\ t \in Seq(TextBytes) /\ HasLines(t, 0, Len(t), L, F)
        /\ begin \in Places(t) /\ end \in Places(t) /\ begin <= end
        /\ ~JoinsTerminator(t, begin, end, r)
        /\ IsLineOf(L, begin, A) /\ IsLineOf(L, end, B)
    BY <1>1, <1>2, <1>3, <1>7
  <2>2. /\ after \in Seq(Nat) /\ Len(after) = Len(L) - B
        /\ \A i \in 1 .. Len(L) - B : after[i] + end = L[B + i] + (begin + Len(r))
    BY <1>8
  <2>3. LET v == Splice(t, begin, end, r)
            within == ComputeOffsetsOfLines(v, begin, begin + Len(r))
        IN  /\ v \in Seq(TextBytes) /\ within \in Scans
            /\ HasLines(v, 0, Len(v), SubSeq(L, 1, A) \o within.offsets \o after,
                        JoinedFlags(JoinedFlags(SubSeq(F, 1, A), Append(within.ascii, within.last)),
                                    SubSeq(F, B, Len(L))))
    <3> HIDE DEF t, L, F, after
    <3> QED
      BY <2>1, <2>2, LinesOfEdit
  <2> QED
    BY <2>3
<1> HIDE DEF u, w
<1>10. /\ text' = u
       /\ offset_of_lines' = SubSeq(L, 1, A) \o w.offsets \o after
       /\ line_is_ascii' = EditedFlags(F, A, B, w.ascii, w.last)
  <2>1. /\ text' = u /\ offset_of_lines' = ReplacedLines(range, r, u).offsets
        /\ line_is_ascii' = ReplacedLines(range, r, u).ascii
    <3>1. ~Overruns(u, begin, m)
      <4>1. ~InsideTerminator(u, m)
        BY DEF JoinsTerminator, u
      <4>2. m > 0 \/ ~(begin < m)
        BY <1>6
      <4> QED
        BY <4>1, <4>2 DEF Overruns, InsideTerminator
    <3>2. u = Splice(text, begin, end, r) /\ m = begin + Len(r)
      BY DEF u
    <3> QED
      BY <1>4, <1>5, <3>1, <3>2 DEF ReplaceText
  <2> DEFINE oo == SubSeq(L, 1, (A - 1) + 1) \o w.offsets \o
                     ShiftedOffsets((B - 1) + 1, removed, Len(r))
             ff == SubSeq(F, 1, A - 1) \o FirstLineAscii(w.ascii, A - 1) \o
                     <<LastLineAscii(w.last, A - 1, B - 1)>> \o
                     SubSeq(F, (B - 1) + 2, NumberOfLines)
  <2>2. ReplacedLines(range, r, u).offsets = oo /\ ReplacedLines(range, r, u).ascii = ff
    <3>1. ReplacedLines(range, r, u) = [offsets |-> oo, ascii |-> ff]
      BY <1>4, <1>5 DEF ReplacedLines, w
    <3> HIDE DEF oo, ff
    <3> QED
      BY <3>1
  <2>3. oo = SubSeq(L, 1, A) \o w.offsets \o after
    <3>1. SubSeq(L, 1, (A - 1) + 1) = SubSeq(L, 1, A)
      BY <1>6
    <3>2. ShiftedOffsets((B - 1) + 1, removed, Len(r)) = after
      BY <1>6 DEF after, ShiftedOffsets
    <3> QED
      BY <3>1, <3>2, Zenon
  <2>4. FirstLineAscii(w.ascii, A - 1) =
          IF w.ascii = << >> THEN << >> ELSE <<w.ascii[1] /\ F[A]>> \o Tail(w.ascii)
    BY <1>6 DEF FirstLineAscii, LineIsAscii
  <2>5. LastLineAscii(w.last, A - 1, B - 1) = (w.last /\ F[A] /\ F[B])
    BY <1>6 DEF LastLineAscii, LineIsAscii
  <2>6. ff = EditedFlags(F, A, B, w.ascii, w.last)
    <3>1. SubSeq(F, (B - 1) + 2, NumberOfLines) = SubSeq(F, B + 1, Len(F))
      BY <1>1, <1>6, <1>7
    <3> QED
      BY <2>4, <2>5, <3>1, Zenon DEF EditedFlags
  <2> HIDE DEF oo, ff
  <2> QED
    BY <2>1, <2>2, <2>3, <2>6
<1>11. w.ascii \in Seq(BOOLEAN) /\ w.last \in BOOLEAN
  BY <1>9 DEF Scans
<1> DEFINE s == SubSeq(L, 1, A) \o w.offsets \o after
           f == EditedFlags(F, A, B, w.ascii, w.last)
           J == JoinedFlags(JoinedFlags(SubSeq(F, 1, A), Append(w.ascii, w.last)), SubSeq(F, B, n))
           z == A + Len(w.ascii) + (n - B)
<1>12. f \in Seq(BOOLEAN) /\ Len(f) = z /\ \A i \in 1 .. z : f[i] => J[i]
  <2>1. /\ F \in Seq(BOOLEAN) /\ A \in 1 .. Len(F) /\ B \in 1 .. Len(F) /\ n = Len(F)
        /\ w.ascii \in Seq(BOOLEAN) /\ w.last \in BOOLEAN
    BY <1>2, <1>3, <1>7, <1>11
  <2> DEFINE aa == w.ascii
             ll == w.last
             K == JoinedFlags(JoinedFlags(SubSeq(F, 1, A), Append(aa, ll)), SubSeq(F, B, Len(F)))
             y == A + Len(aa) + (Len(F) - B)
  <2>2. aa \in Seq(BOOLEAN) /\ ll \in BOOLEAN
    BY <2>1
  <2> HIDE DEF aa, ll
  <2>3. /\ EditedFlags(F, A, B, aa, ll) \in Seq(BOOLEAN) /\ Len(EditedFlags(F, A, B, aa, ll)) = y
        /\ \A i \in 1 .. y : EditedFlags(F, A, B, aa, ll)[i] => K[i]
    BY <2>1, <2>2, FlagsOfEdit
  <2>4. K = J /\ y = z
    BY <2>1 DEF aa, ll
  <2>5. EditedFlags(F, A, B, aa, ll) = f
    BY DEF aa, ll
  <2> HIDE DEF K, y, J, z, f
  <2> QED
    BY <2>3, <2>4, <2>5
<1>13. Len(s) = z /\ z \in Nat
  <2>1. Len(J) = Len(s)
    BY <1>9 DEF HasLines, AreFlags
  <2>2. Len(J) = z
    <3>1. Len(SubSeq(F, 1, A)) = A /\ Len(SubSeq(F, B, n)) = n - B + 1
      <4>1. Len(SubSeq(F, 1, A)) = A - 1 + 1
        <5>1. 1 \in Nat /\ 1 <= 1 /\ 1 <= A + 1 /\ A <= n
          BY <1>2, <1>6
        <5> HIDE DEF n
        <5> QED
          BY <1>6, <1>7, <5>1, PartOfSeq
      <4>2. Len(SubSeq(F, B, n)) = n - B + 1
        <5>1. 1 <= B /\ B <= n + 1 /\ n <= n
          BY <1>1, <1>3
        <5> HIDE DEF n
        <5> QED
          BY <1>1, <1>6, <1>7, <5>1, PartOfSeq
      <4> QED
        BY <1>6, <4>1, <4>2
    <3> DEFINE W == Append(w.ascii, w.last)
               k == Len(w.ascii)
               JP == JoinedFlags(SubSeq(F, 1, A), W)
    <3>2. Len(W) = k + 1 /\ k \in Nat
      BY <1>11, Appended
    <3> HIDE DEF W, k, n
    <3>3. Len(JP) = A + (k + 1) - 1 /\ A + (k + 1) - 1 = A + k /\ A + k \in Nat
      <4>1. A + (k + 1) - 1 = A + k /\ A + k \in Nat
        BY <1>6, <3>2
      <4>2. JP = [i \in 1 .. A + (k + 1) - 1 |-> JP[i]]
        BY <3>1, <3>2 DEF JoinedFlags
      <4> HIDE DEF JP
      <4> QED
        BY <4>1, <4>2
    <3> HIDE DEF JP
    <3> DEFINE JJ == JoinedFlags(JP, SubSeq(F, B, n))
    <3>4. Len(JJ) = A + k + (n - B)
      <4>1. A + k + (n - B + 1) - 1 = A + k + (n - B) /\ A + k + (n - B) \in Nat
        BY <1>6, <3>2
      <4>2. JJ = [i \in 1 .. A + k + (n - B + 1) - 1 |-> JJ[i]]
        BY <3>1, <3>3 DEF JoinedFlags
      <4> HIDE DEF JJ
      <4> QED
        BY <4>1, <4>2
    <3> QED
      BY <3>4 DEF JJ, JP, W, k
  <2>3. z \in Nat
    <3>1. Len(w.ascii) \in Nat
      BY <1>11, LenProperties
    <3> QED
      BY <1>6, <3>1
  <2> QED
    BY <2>1, <2>2, <2>3
<1> HIDE DEF s, f, J, z
<1>14. HasLines(u, 0, Len(u), s, J)
  BY <1>9 DEF s, J
<1>15. IsLines(u, 0, Len(u), s) /\ AreFlags(s, f) /\ AreHonest(u, Len(u), s, f)
  <2>1. IsLines(u, 0, Len(u), s) /\ AreHonest(u, Len(u), s, J)
    BY <1>14 DEF HasLines
  <2>2. AreFlags(s, f)
    BY <1>12, <1>13 DEF AreFlags
  <2>3. AreHonest(u, Len(u), s, f)
    BY <1>12, <1>13, <2>1, HonestWeaker
  <2> QED
    BY <2>1, <2>2, <2>3
<1>16. offset_of_lines' = s /\ line_is_ascii' = f
  BY <1>10 DEF s, f
<1> QED
  BY <1>9, <1>10, <1>15, <1>16 DEF TableIsRight, u

LEMMA DocumentStarts == DocumentInit => DocumentInv
<1> SUFFICES ASSUME DocumentInit PROVE DocumentInv
  OBVIOUS
<1> DEFINE none == << >>
           c == CacheOffsetsOfLines(none)
<1>1. none \in Seq(TextBytes)
  OBVIOUS
<1> HIDE DEF none
<1>2. /\ IsLines(none, 0, Len(none), c.offsets)
      /\ AreFlags(c.offsets, c.ascii) /\ AreExact(none, Len(none), c.offsets, c.ascii)
  BY <1>1, CacheIsRight
<1>3. /\ text = none /\ edited = none /\ offset_of_lines = c.offsets /\ line_is_ascii = c.ascii
      /\ joined = 0
  BY DEF DocumentInit, none
<1> HIDE DEF c
<1>4. AreHonest(none, Len(none), c.offsets, c.ascii)
  BY <1>2 DEF AreExact, AreHonest
<1>5. TableIsRight
  BY <1>1, <1>2, <1>3, <1>4 DEF TableIsRight
<1> QED
  BY <1>3, <1>5 DEF DocumentInv

LEMMA DocumentSteps == DocumentInv /\ [DocumentNext]_documentVars => DocumentInv'
<1> SUFFICES ASSUME DocumentInv, [DocumentNext]_documentVars PROVE DocumentInv'
  OBVIOUS
<1>1. ASSUME NEW t \in Texts, SetText(t) PROVE DocumentInv'
  <2>1. t \in Seq(TextBytes)
    BY TextsAreBytes
  <2>2. text' = t /\ edited' = t /\ joined' = 0
    BY <1>1 DEF SetText
  <2>3. TableIsRight'
    BY <1>1, <2>1, <2>2, CachedIsRight DEF SetText
  <2> QED
    BY <2>2, <2>3 DEF DocumentInv
<1>2. CASE Replace
  <2>1. joined \in Nat /\ (joined = 0 => TableIsRight /\ text = edited)
    BY DEF DocumentInv
  <2>2. PICK begin \in Places(edited), end \in Places(edited), r \in Replacements :
          /\ begin <= end
          /\ joined' = IF joined > 0 \/ JoinsTerminator(edited, begin, end, r) THEN joined + 1 ELSE 0
          /\ edited' = Splice(edited, begin, end, r)
          /\ \E start_position \in PositionsOf(edited, begin),
                end_position \in EndPositionsOf(edited, end) :
                ReplaceText([start |-> start_position, end |-> end_position], r)
    BY <1>2 DEF Replace
  <2>3. PICK start_position \in PositionsOf(edited, begin), end_position \in EndPositionsOf(edited, end) :
          ReplaceText([start |-> start_position, end |-> end_position], r)
    BY <2>2
  <2>4. r \in Seq(TextBytes)
    BY TextsAreBytes
  <2>5. joined' \in Nat
    BY <2>1, <2>2
  <2>6. ASSUME joined' = 0 PROVE TableIsRight' /\ text' = edited'
    <3>1. joined = 0 /\ ~JoinsTerminator(edited, begin, end, r)
      BY <2>1, <2>2, <2>6
    <3>2. TableIsRight /\ text = edited
      BY <2>1, <3>1
    <3>3. /\ begin \in Places(text) /\ end \in Places(text) /\ begin <= end
          /\ ~JoinsTerminator(text, begin, end, r)
          /\ start_position \in PositionsOf(text, begin) /\ end_position \in EndPositionsOf(text, end)
          /\ edited' = Splice(text, begin, end, r)
      BY <2>2, <3>1, <3>2, Zenon
    <3>4. TableIsRight' /\ text' = Splice(text, begin, end, r)
      BY <2>3, <2>4, <3>2, <3>3, EditIsRight
    <3> QED
      BY <3>3, <3>4
  <2> QED
    BY <2>5, <2>6 DEF DocumentInv
<1>3. CASE UNCHANGED documentVars
  BY <1>3 DEF documentVars, DocumentInv, TableIsRight
<1> QED
  BY <1>1, <1>2, <1>3 DEF DocumentNext

LEMMA DocumentIsRight == DocumentSpec => []DocumentInv
BY DocumentStarts, DocumentSteps, PTL DEF DocumentSpec

(* The table that replace_text patches after each edit has the lines that a new locator would *)
(* compute from the whole text, and calls no line ASCII that is not, unless an edit since the *)
(* whole document was sent made a CR meet an LF (LSP_Locator). *)
THEOREM DocumentTableMatchesText == DocumentSpec => []TableMatchesText
<1>1. DocumentInv => TableMatchesText
  <2> SUFFICES ASSUME TableIsRight PROVE TableMatchesText
    BY DEF DocumentInv, TableMatchesText
  <2> DEFINE fresh == CacheOffsetsOfLines(text)
             s == fresh.offsets
             L == offset_of_lines
  <2>1. text \in Seq(TextBytes) /\ IsLines(text, 0, Len(text), L)
    BY DEF TableIsRight
  <2>2. /\ IsLines(text, 0, Len(text), s)
        /\ AreFlags(s, fresh.ascii) /\ AreExact(text, Len(text), s, fresh.ascii)
    BY <2>1, CacheIsRight
  <2> HIDE DEF fresh
  <2>3. L = s
    BY <2>1, <2>2, IncreasingIsUnique DEF IsLines
  <2>4. ASSUME NEW i \in 1 .. Len(L), line_is_ascii[i] PROVE fresh.ascii[i]
    <3>1. AsciiIn(text, L[i], EndOf(L, i, Len(text)))
      BY <2>4 DEF TableIsRight, AreHonest
    <3>2. i \in 1 .. Len(s) /\ AsciiIn(text, s[i], EndOf(s, i, Len(text)))
      BY <2>3, <3>1
    <3> QED
      BY <2>2, <3>2 DEF AreExact
  <2> QED
    BY <2>3, <2>4 DEF TableMatchesText, NumberOfLines, fresh
<1> QED
  BY <1>1, DocumentIsRight, PTL

(* After edits none of which made a CR meet an LF, at positions beyond their line or the document *)
(* too, the text the server checks is the one the editor shows (LSP_Document_Text::replace_text). *)
THEOREM DocumentTextIsEdited == DocumentSpec => []TextIsEdited
<1>1. DocumentInv => TextIsEdited
  BY DEF DocumentInv, TextIsEdited
<1> QED
  BY <1>1, DocumentIsRight, PTL

(* After such edits every place of the text gets the position the editor gives it, and that *)
(* position leads back to it (position, from_position, on lines whose flag is only an estimate too). *)
THEOREM DocumentPositionsAgree == DocumentSpec => []PositionsAgree
<1>1. DocumentInv => PositionsAgree
  <2> SUFFICES ASSUME TableIsRight, NEW o \in Places(text)
               PROVE  Position(o) = EditorPosition(text, o) /\ FromPosition(Position(o)) = o
    BY DEF DocumentInv, PositionsAgree
  <2>1. Position(o) = EditorPosition(text, o)
    BY PositionIsRight
  <2>2. PICK k \in 1 .. NumberOfLines : IsLineOf(offset_of_lines, o, k)
    BY PlaceIsOffset, LineFacts
  <2> DEFINE p == EditorPosition(text, o)
  <2>3. p \in EndPositionsOf(text, o)
    BY DEF PositionsOf, EndPositionsOf
  <2> HIDE DEF p
  <2>4. FromPosition(p) = o
    BY <2>2, <2>3, FromPositionIsRight
  <2> QED
    BY <2>1, <2>4, Zenon DEF p
<1> QED
  BY <1>1, DocumentIsRight, PTL

-----------------------------------------------------------------------------
(* LspSession: frames. *)

\* The provers do not know that these two are strings.
FrameByte == STRING \cup {"CR", "LF"}

\* The first place where a part begins is what a search finds.
LEMMA SearchFinds ==
    ASSUME NEW s, Len(s) \in Nat, NEW part, NEW from \in Nat, NEW to \in from .. Len(s) + 1,
           to = Len(s) + 1 \/ StartsAt(s, to, part),
           \A i \in from .. to - 1 : ~StartsAt(s, i, part)
    PROVE  Search(s, from, part) = to
<1> DEFINE last == Len(s) + 1
           Value(i, f) == IF i > Len(s) \/ StartsAt(s, i, part) THEN i ELSE f[i + 1]
           Body(f) == [i \in from .. Len(s) + 1 |-> Value(i, f)]
           search == CHOOSE f : f = Body(f)
           F == [from .. last -> Nat]
           Good == {i \in from .. to : search[i] = to}
<1>1. Search(s, from, part) = search[from]
  BY DEF Search
<1>2. last \in Nat /\ from .. last \subseteq Nat
      /\ \A i \in from .. last : ~(i > Len(s)) => i + 1 \in from .. last /\ i + 1 \in i + 1 .. last
  OBVIOUS
<1>3. \A i \in from .. last, f \in F : Value(i, f) \in Nat
  <2> TAKE i \in from .. last, f \in F
  <2>1. CASE i > Len(s) \/ StartsAt(s, i, part)
    BY <1>2, <2>1
  <2>2. CASE ~(i > Len(s) \/ StartsAt(s, i, part))
    <3>1. i + 1 \in from .. last
      BY <1>2, <2>2
    <3> HIDE DEF last
    <3> QED
      BY <2>2, <3>1
  <2> QED
    BY <2>1, <2>2
<1>4. ASSUME NEW i \in from .. last, NEW f \in F, NEW g \in F, \A j \in i + 1 .. last : f[j] = g[j]
      PROVE  Value(i, f) = Value(i, g)
  <2>1. ~(i > Len(s)) => f[i + 1] = g[i + 1]
    BY <1>2, <1>4
  <2> QED
    BY <2>1
<1>5. search = Body(search)
  <2> DEFINE step == [kf \in (from .. last) \X F |-> Value(kf[1], kf[2])]
  <2>1. \A k \in from .. last, f \in F : step[<<k, f>>] = Value(k, f)
    <3> HIDE DEF Value
    <3> QED
      OBVIOUS
  <2>2. step \in [(from .. last) \X F -> Nat]
    <3> HIDE DEF Value, F
    <3> QED
      BY <1>3
  <2>3. LooksAhead(from, last, Nat, step)
    <3> SUFFICES ASSUME NEW k \in from .. last, NEW f \in F, NEW g \in F,
                        \A j \in k + 1 .. last : f[j] = g[j]
                 PROVE  step[<<k, f>>] = step[<<k, g>>]
      BY DEF LooksAhead
    <3> HIDE DEF Value, step, F, last
    <3> QED
      BY <1>4, <2>1
  <2>4. DownChains(from, last, Nat, step) # {}
    <3> HIDE DEF step
    <3>1. from \in Int /\ last \in Int /\ 0 \in Nat
      BY <1>2
    <3> HIDE DEF last
    <3> QED
      BY <2>2, <2>3, <3>1, DownRecursion
  <2>5. PICK f \in F : \A k \in from .. last : f[k] = step[<<k, f>>]
    <3> HIDE DEF step, last
    <3> QED
      BY <2>4 DEF DownChains
  <2>6. \A k \in from .. last : f[k] = Value(k, f)
    <3> HIDE DEF step, Value, F, last
    <3> QED
      BY <2>1, <2>5
  <2>7. f = Body(f)
    <3> HIDE DEF Value, step
    <3> QED
      BY <2>5, <2>6
  <2> HIDE DEF Body, step
  <2> QED
    BY <2>7
<1>6. \A i \in from .. last : search[i] = Value(i, search)
  <2> HIDE DEF search, Value
  <2> QED
    BY <1>5
<1> HIDE DEF search
<1>7. ASSUME NEW k \in from .. to, k + 1 .. to \subseteq Good PROVE k \in Good
  <2>1. k \in from .. last
    BY <1>2
  <2>2. CASE k = to
    <3>1. k > Len(s) \/ StartsAt(s, k, part)
      BY <2>2
    <3>2. search[k] = k
      BY <1>6, <2>1, <3>1
    <3> QED
      BY <2>2, <3>2
  <2>3. CASE k # to
    <3>1. k \in from .. to - 1 /\ ~(k > Len(s)) /\ k + 1 \in k + 1 .. to
      BY <2>3
    <3>2. ~StartsAt(s, k, part)
      BY <3>1
    <3>3. search[k] = search[k + 1]
      BY <1>6, <2>1, <3>1, <3>2
    <3>4. search[k + 1] = to
      BY <1>7, <3>1
    <3> QED
      BY <3>3, <3>4
  <2> QED
    BY <2>2, <2>3
<1>8. from .. to \subseteq Good
  <2> HIDE DEF Good
  <2>1. from \in Int /\ to \in Int
    OBVIOUS
  <2> QED
    BY <1>7, <2>1, DownTo
<1>9. from \in from .. to
  OBVIOUS
<1> QED
  BY <1>1, <1>8, <1>9

LEMMA BreakFacts ==
    /\ CrLf \in Seq(FrameByte) /\ Len(CrLf) = 2 /\ CrLf[1] = "CR" /\ CrLf[2] = "LF"
    /\ CrLf \o CrLf \in Seq(FrameByte) /\ Len(CrLf \o CrLf) = 4
    /\ (CrLf \o CrLf)[1] = "CR" /\ (CrLf \o CrLf)[2] = "LF"
    /\ (CrLf \o CrLf)[3] = "CR" /\ (CrLf \o CrLf)[4] = "LF"
<1>1. CrLf \in Seq(FrameByte) /\ Len(CrLf) = 2 /\ CrLf[1] = "CR" /\ CrLf[2] = "LF"
  <2>1. CrLf \in Seq(FrameByte)
    <3> DEFINE S == FrameByte
    <3>1. "CR" \in S /\ "LF" \in S
      BY DEF FrameByte
    <3> HIDE DEF S
    <3>2. CrLf \in Seq(S)
      BY <3>1 DEF CrLf
    <3> QED
      BY <3>2 DEF S
  <2>2. Len(CrLf) = 2 /\ CrLf[1] = "CR" /\ CrLf[2] = "LF"
    BY DEF CrLf
  <2> QED
    BY <2>1, <2>2
<1> DEFINE c == CrLf
<1> HIDE DEF c
<1>2. c \in Seq(FrameByte) /\ Len(c) = 2 /\ c[1] = "CR" /\ c[2] = "LF"
  BY <1>1 DEF c
<1>3. /\ c \o c \in Seq(FrameByte) /\ Len(c \o c) = Len(c) + Len(c)
      /\ \A i \in 1 .. Len(c) : (c \o c)[i] = c[i]
      /\ \A i \in Len(c) + 1 .. Len(c) + Len(c) : (c \o c)[i] = c[i - Len(c)]
  BY <1>2, Joined
<1>4. 1 \in 1 .. Len(c) /\ 2 \in 1 .. Len(c) /\ 3 \in Len(c) + 1 .. Len(c) + Len(c)
      /\ 4 \in Len(c) + 1 .. Len(c) + Len(c) /\ 3 - Len(c) = 1 /\ 4 - Len(c) = 2
  BY <1>2
<1>5. (c \o c)[1] = "CR" /\ (c \o c)[2] = "LF" /\ (c \o c)[3] = "CR" /\ (c \o c)[4] = "LF"
  <2>1. (c \o c)[1] = c[1] /\ (c \o c)[2] = c[2]
    BY <1>3, <1>4
  <2>2. (c \o c)[3] = c[3 - Len(c)] /\ (c \o c)[4] = c[4 - Len(c)]
    BY <1>3, <1>4
  <2> QED
    BY <1>2, <1>4, <2>1, <2>2
<1>6. Len(c \o c) = 4
  BY <1>2, <1>3
<1> QED
  BY <1>2, <1>3, <1>5, <1>6, Zenon DEF c

LEMMA StartsAtBytes ==
    ASSUME NEW s \in Seq(FrameByte), NEW i \in Nat \ {0}, NEW c \in Seq(FrameByte), Len(c) > 0
    PROVE  StartsAt(s, i, c) <=> i + Len(c) - 1 <= Len(s) /\ \A j \in 1 .. Len(c) : s[i + j - 1] = c[j]
<1> DEFINE n == Len(c)
           p == SubSeq(s, i, i + n - 1)
<1>1. n \in Nat /\ Len(s) \in Nat
  BY LenProperties
<1>2. CASE i + n - 1 <= Len(s)
  <2>1. p \in Seq(FrameByte) /\ Len(p) = n /\ \A j \in 1 .. n : p[j] = s[i + j - 1]
    <3> DEFINE b == i + n - 1
    <3>1. b \in Nat /\ 1 <= i /\ i <= b + 1 /\ b <= Len(s) /\ b - i + 1 = n
      BY <1>1, <1>2
    <3> HIDE DEF b, n
    <3>2. /\ SubSeq(s, i, b) \in Seq(FrameByte) /\ Len(SubSeq(s, i, b)) = b - i + 1
          /\ \A j \in 1 .. b - i + 1 : SubSeq(s, i, b)[j] = s[i + j - 1]
      BY <3>1, PartOfSeq
    <3> QED
      BY <3>1, <3>2 DEF b
  <2> HIDE DEF p, n
  <2>2. p = c <=> \A j \in 1 .. n : s[i + j - 1] = c[j]
    <3>1. ASSUME p = c PROVE \A j \in 1 .. n : s[i + j - 1] = c[j]
      BY <2>1, <3>1
    <3>2. ASSUME \A j \in 1 .. n : s[i + j - 1] = c[j] PROVE p = c
      BY <2>1, <3>2, SeqEqual DEF n
    <3> QED
      BY <3>1, <3>2
  <2> QED
    BY <1>2, <2>2 DEF StartsAt, n, p
<1>3. CASE ~(i + n - 1 <= Len(s))
  BY <1>3 DEF StartsAt
<1> QED
  BY <1>2, <1>3

LEMMA StartsAtFacts ==
    ASSUME NEW s \in Seq(FrameByte), NEW i \in Nat \ {0}
    PROVE  /\ StartsAt(s, i, CrLf) <=> i + 1 <= Len(s) /\ s[i] = "CR" /\ s[i + 1] = "LF"
           /\ StartsAt(s, i, CrLf \o CrLf) <=>
                i + 3 <= Len(s) /\ s[i] = "CR" /\ s[i + 1] = "LF" /\ s[i + 2] = "CR" /\ s[i + 3] = "LF"
<1>1. 1 .. 2 = {1, 2} /\ 1 .. 4 = {1, 2, 3, 4} /\ Len(s) \in Nat
  BY LenProperties
<1>2. /\ i + 1 - 1 = i /\ i + 2 - 1 = i + 1 /\ i + 3 - 1 = i + 2 /\ i + 4 - 1 = i + 3
  OBVIOUS
<1>3. StartsAt(s, i, CrLf) <=> i + 1 <= Len(s) /\ s[i] = "CR" /\ s[i + 1] = "LF"
  <2>1. StartsAt(s, i, CrLf) <=>
          i + Len(CrLf) - 1 <= Len(s) /\ \A j \in 1 .. Len(CrLf) : s[i + j - 1] = CrLf[j]
    <3>1. CrLf \in Seq(FrameByte) /\ Len(CrLf) > 0
      BY BreakFacts
    <3> QED
      BY <3>1, StartsAtBytes, Zenon
  <2>2. StartsAt(s, i, CrLf) <=>
          i + 2 - 1 <= Len(s) /\ s[i + 1 - 1] = "CR" /\ s[i + 2 - 1] = "LF"
    <3> DEFINE c == CrLf
    <3>1. Len(c) = 2 /\ c[1] = "CR" /\ c[2] = "LF"
      BY BreakFacts
    <3> HIDE DEF c
    <3>2. StartsAt(s, i, c) <=> i + Len(c) - 1 <= Len(s) /\ \A j \in 1 .. Len(c) : s[i + j - 1] = c[j]
      BY <2>1 DEF c
    <3>3. StartsAt(s, i, c) <=> i + 2 - 1 <= Len(s) /\ s[i + 1 - 1] = "CR" /\ s[i + 2 - 1] = "LF"
      BY <1>1, <3>1, <3>2
    <3> QED
      BY <3>3 DEF c
  <2> QED
    BY <1>2, <2>2
<1>4. StartsAt(s, i, CrLf \o CrLf) <=>
        i + 3 <= Len(s) /\ s[i] = "CR" /\ s[i + 1] = "LF" /\ s[i + 2] = "CR" /\ s[i + 3] = "LF"
  <2> DEFINE c == CrLf \o CrLf
  <2>1. c \in Seq(FrameByte) /\ Len(c) = 4 /\ c[1] = "CR" /\ c[2] = "LF" /\ c[3] = "CR" /\ c[4] = "LF"
    BY BreakFacts
  <2> HIDE DEF c
  <2>2. StartsAt(s, i, c) <=> i + Len(c) - 1 <= Len(s) /\ \A j \in 1 .. Len(c) : s[i + j - 1] = c[j]
    <3>1. Len(c) > 0
      BY <2>1
    <3> QED
      BY <2>1, <3>1, StartsAtBytes, Zenon
  <2>3. StartsAt(s, i, c) <=>
          i + 3 <= Len(s) /\ s[i] = "CR" /\ s[i + 1] = "LF" /\ s[i + 2] = "CR" /\ s[i + 3] = "LF"
    BY <1>1, <1>2, <2>1, <2>2
  <2> QED
    BY <2>3 DEF c
<1> QED
  BY <1>3, <1>4


\* Where in a flattened sequence its parts are.
IsPlaces(s, all, q) ==
    /\ q[0] = 0 /\ q[Len(s)] = Len(all)
    /\ \A k \in 1 .. Len(s) :
          /\ q[k] = q[k - 1] + Len(s[k]) /\ q[k] <= Len(all)
          /\ \A x \in 1 .. Len(s[k]) : all[q[k - 1] + x] = s[k][x]

LEMMA FlattenPlaces ==
    ASSUME NEW T, NEW s \in Seq(Seq(T))
    PROVE  /\ FlattenSeq(s) \in Seq(T)
           /\ \E q \in [0 .. Len(s) -> Nat] : IsPlaces(s, FlattenSeq(s), q)
<1> DEFINE n == Len(s)
<1>1. n \in Nat /\ \A k \in 1 .. n : s[k] \in Seq(T) /\ Len(s[k]) \in Nat
  BY LenProperties, ElementOfSeq
<1>2. PICK f \in [0 .. n -> Seq(T)] :
         f[0] = << >> /\ (\A k \in 1 .. n : f[k] = f[k - 1] \o s[k]) /\ FlattenSeq(s) = f[n]
  BY Flattened DEF Flattenings
<1> HIDE DEF n
<1> DEFINE q == [k \in 0 .. n |-> Len(f[k])]
           P == {k \in 0 .. n : \A j \in 1 .. k :
                   /\ q[j] <= q[k] /\ \A x \in 1 .. Len(s[j]) : f[k][q[j - 1] + x] = s[j][x]}
<1>3. q \in [0 .. n -> Nat] /\ (\A k \in 0 .. n : q[k] = Len(f[k]) /\ q[k] \in Nat) /\ q[0] = 0
  <2>1. \A k \in 0 .. n : f[k] \in Seq(T) /\ Len(f[k]) \in Nat
    BY <1>2, LenProperties
  <2>2. Len(f[0]) = 0 /\ 0 \in 0 .. n
    BY <1>1, <1>2, EmptySeq
  <2> QED
    BY <2>1, <2>2
<1> HIDE DEF q
<1>4. ASSUME NEW k \in 1 .. n
      PROVE  /\ q[k] = q[k - 1] + Len(s[k]) /\ q[k - 1] \in Nat /\ Len(s[k]) \in Nat
             /\ \A i \in 1 .. q[k - 1] : f[k][i] = f[k - 1][i]
             /\ \A x \in 1 .. Len(s[k]) : f[k][q[k - 1] + x] = s[k][x]
  <2>1. k \in 0 .. n /\ k - 1 \in 0 .. n
    BY <1>1
  <2> DEFINE a == f[k - 1]
             b == s[k]
  <2>2. a \in Seq(T) /\ b \in Seq(T) /\ f[k] = a \o b /\ q[k - 1] = Len(a) /\ q[k] = Len(f[k])
    BY <1>1, <1>2, <1>3, <2>1
  <2> HIDE DEF a, b
  <2>3. /\ Len(a \o b) = Len(a) + Len(b) /\ Len(a) \in Nat /\ Len(b) \in Nat
        /\ \A i \in 1 .. Len(a) : (a \o b)[i] = a[i]
        /\ \A i \in Len(a) + 1 .. Len(a) + Len(b) : (a \o b)[i] = b[i - Len(a)]
    BY <2>2, Joined
  <2>4. ASSUME NEW x \in 1 .. Len(b) PROVE (a \o b)[Len(a) + x] = b[x]
    <3>1. Len(a) + x \in Len(a) + 1 .. Len(a) + Len(b) /\ (Len(a) + x) - Len(a) = x
      BY <2>3
    <3> QED
      BY <2>3, <3>1
  <2> QED
    BY <2>2, <2>3, <2>4 DEF a, b
<1>5. 0 \in P
  BY <1>1
<1>6. ASSUME NEW k \in 1 .. n, k - 1 \in P PROVE k \in P
  <2>1. k \in 0 .. n /\ k - 1 \in 0 .. n
    BY <1>1
  <2>2. ASSUME NEW j \in 1 .. k
        PROVE  q[j] <= q[k] /\ \A x \in 1 .. Len(s[j]) : f[k][q[j - 1] + x] = s[j][x]
    <3>1. CASE j = k
      BY <1>3, <1>4, <2>1, <3>1
    <3>2. CASE j # k
      <4>1. j \in 1 .. k - 1 /\ j \in 1 .. n /\ j - 1 \in 0 .. n /\ j \in 0 .. n
        BY <1>1, <3>2
      <4>2. q[j] <= q[k - 1] /\ \A x \in 1 .. Len(s[j]) : f[k - 1][q[j - 1] + x] = s[j][x]
        BY <1>6, <4>1
      <4>3. q[j] <= q[k]
        <5> DEFINE u == q[j]
                   v == q[k - 1]
                   w == q[k]
                   l == Len(s[k])
        <5>1. u \in Nat /\ v \in Nat /\ l \in Nat /\ w = v + l /\ u <= v
          BY <1>3, <1>4, <4>1, <4>2
        <5> HIDE DEF u, v, w, l
        <5>2. u <= w
          BY <5>1
        <5> QED
          BY <5>2 DEF u, w
      <4>4. ASSUME NEW x \in 1 .. Len(s[j]) PROVE f[k][q[j - 1] + x] = s[j][x]
        <5>1. q[j] = q[j - 1] + Len(s[j]) /\ q[j - 1] \in Nat /\ Len(s[j]) \in Nat
          BY <1>4, <4>1
        <5>2. q[k - 1] \in Nat /\ q[j] \in Nat
          BY <1>3, <2>1, <4>1
        <5>3. q[j - 1] + x \in 1 .. q[k - 1]
          <6> DEFINE u == q[j - 1]
                     v == q[k - 1]
                     l == Len(s[j])
          <6>1. u \in Nat /\ l \in Nat /\ v \in Nat /\ u + l <= v /\ x \in 1 .. l
            BY <4>2, <5>1, <5>2
          <6> HIDE DEF u, v, l
          <6>2. u + x \in 1 .. v
            BY <6>1
          <6> QED
            BY <6>2 DEF u, v
        <5> QED
          BY <1>4, <4>2, <5>3
      <4> QED
        BY <4>3, <4>4
    <3> QED
      BY <3>1, <3>2
  <2> QED
    BY <2>1, <2>2
<1>7. n \in P
  <2> HIDE DEF P
  <2>1. 0 .. n \subseteq P
    BY <1>1, <1>5, <1>6, UpTo
  <2>2. n \in 0 .. n
    BY <1>1
  <2> QED
    BY <2>1, <2>2
<1> DEFINE all == f[n]
<1>8. all \in Seq(T) /\ q[n] = Len(all)
  BY <1>1, <1>2, <1>3
<1> HIDE DEF all
<1>9. ASSUME NEW k \in 1 .. n
      PROVE  /\ q[k] = q[k - 1] + Len(s[k]) /\ q[k] <= Len(all)
             /\ \A x \in 1 .. Len(s[k]) : all[q[k - 1] + x] = s[k][x]
  BY <1>4, <1>7, <1>8 DEF all
<1>10. IsPlaces(s, all, q)
  BY <1>3, <1>8, <1>9 DEF IsPlaces, n
<1>11. FlattenSeq(s) = all
  BY <1>2 DEF all
<1> QED
  BY <1>3, <1>8, <1>10, <1>11 DEF n
-----------------------------------------------------------------------------
(* The header of a frame. *)

HeaderLines(f) == [i \in 1 .. Len(f.headers) |-> f.headers[i] \o CrLf]
HeaderBytes(f) == FlattenSeq(HeaderLines(f)) \o CrLf

GoodLine(line) ==
    /\ line \in Seq(FrameByte) /\ Len(line) \in Nat \ {0}
    /\ \A x \in 1 .. Len(line) : line[x] # "CR" /\ line[x] # "LF"

LEMMA FrameFacts ==
    ASSUME NEW f \in Frame, WellFramed(f)
    PROVE  /\ f.headers \in Seq(Seq(FrameByte)) /\ Len(f.headers) \in Nat \ {0}
           /\ \A i \in 1 .. Len(f.headers) : GoodLine(f.headers[i])
           /\ f.content \in Seq(FrameByte) /\ Len(f.content) \in Nat
<1>1. f.headers \in Seq(Seq(STRING)) /\ f.content \in Seq(STRING)
  BY DEF Frame
<1>2. Seq(STRING) \subseteq Seq(FrameByte)
  <2>1. STRING \subseteq FrameByte
    BY DEF FrameByte
  <2> QED
    BY <2>1, SeqMonotonic
<1>3. f.headers \in Seq(Seq(FrameByte)) /\ f.content \in Seq(FrameByte)
  <2> DEFINE R == Seq(STRING)
             Q == Seq(FrameByte)
  <2>1. R \subseteq Q /\ f.headers \in Seq(R) /\ f.content \in R
    BY <1>1, <1>2
  <2> HIDE DEF R, Q
  <2>2. f.headers \in Seq(Q) /\ f.content \in Q
    BY <2>1, SeqMonotonic
  <2> QED
    BY <2>2 DEF Q
<1>4. Len(f.content) \in Nat
  BY <1>3, LenProperties
<1>5. Len(f.headers) \in Nat \ {0}
  <2> DEFINE Q == Seq(FrameByte)
             h == f.headers
  <2>1. h \in Seq(Q) /\ h # << >>
    BY <1>3 DEF WellFramed
  <2> HIDE DEF Q, h
  <2>2. Len(h) \in Nat /\ Len(h) # 0
    BY <2>1, LenProperties, EmptySeq
  <2> QED
    BY <2>2 DEF h
<1>6. ASSUME NEW i \in 1 .. Len(f.headers) PROVE GoodLine(f.headers[i])
  <2> DEFINE h == f.headers[i]
  <2>1. h \in Seq(FrameByte) /\ h # << >> /\ Range(h) \cap {"CR", "LF"} = {}
    <3>1. h # << >> /\ Range(h) \cap {"CR", "LF"} = {}
      BY DEF WellFramed
    <3>2. h \in Seq(FrameByte)
      <4> DEFINE Q == Seq(FrameByte)
      <4> HIDE DEF Q
      <4>1. f.headers \in Seq(Q)
        BY <1>3 DEF Q
      <4>2. h \in Q
        BY <4>1, ElementOfSeq
      <4> QED
        BY <4>2 DEF Q
    <3> QED
      BY <3>1, <3>2
  <2> HIDE DEF h
  <2>2. Len(h) \in Nat /\ Len(h) # 0 /\ DOMAIN h = 1 .. Len(h)
    BY <2>1, LenProperties, EmptySeq
  <2>3. ASSUME NEW x \in 1 .. Len(h) PROVE h[x] # "CR" /\ h[x] # "LF"
    <3>1. h[x] \in Range(h)
      BY <2>2 DEF Range
    <3> QED
      BY <2>1, <3>1
  <2> QED
    BY <2>1, <2>2, <2>3 DEF GoodLine, h
<1> QED
  BY <1>3, <1>4, <1>5, <1>6


\* Where the lines of a header end.
IsHeader(f, all, q) ==
    /\ q \in [0 .. Len(f.headers) -> Nat] /\ q[0] = 0
    /\ all \in Seq(FrameByte) /\ Len(all) = q[Len(f.headers)] + 2
    /\ all[q[Len(f.headers)] + 1] = "CR" /\ all[q[Len(f.headers)] + 2] = "LF"
    /\ \A i \in 1 .. Len(f.headers) :
          /\ q[i] = q[i - 1] + Len(f.headers[i]) + 2 /\ q[i] <= q[Len(f.headers)]
          /\ \A x \in 1 .. Len(f.headers[i]) : all[q[i - 1] + x] = f.headers[i][x]
          /\ all[q[i - 1] + Len(f.headers[i]) + 1] = "CR"
          /\ all[q[i - 1] + Len(f.headers[i]) + 2] = "LF"

LEMMA HeaderPlaces ==
    ASSUME NEW f \in Frame, WellFramed(f)
    PROVE  \E q : IsHeader(f, HeaderBytes(f), q)
<1> DEFINE h == f.headers
           n == Len(h)
           s == HeaderLines(f)
           front == FlattenSeq(s)
           all == front \o CrLf
<1>1. n \in Nat \ {0} /\ \A i \in 1 .. n : h[i] \in Seq(FrameByte) /\ Len(h[i]) \in Nat \ {0}
  BY FrameFacts DEF GoodLine
<1>2. ASSUME NEW i \in 1 .. n
      PROVE  /\ s[i] \in Seq(FrameByte) /\ Len(s[i]) = Len(h[i]) + 2
             /\ \A x \in 1 .. Len(h[i]) : s[i][x] = h[i][x]
             /\ s[i][Len(h[i]) + 1] = "CR" /\ s[i][Len(h[i]) + 2] = "LF"
  <2> DEFINE l == h[i]
             c == CrLf
  <2>1. l \in Seq(FrameByte) /\ c \in Seq(FrameByte) /\ Len(c) = 2 /\ c[1] = "CR" /\ c[2] = "LF"
    BY <1>1, BreakFacts
  <2>2. s[i] = l \o c
    BY DEF HeaderLines
  <2> HIDE DEF l, c, s
  <2>3. /\ l \o c \in Seq(FrameByte) /\ Len(l \o c) = Len(l) + Len(c) /\ Len(l) \in Nat
        /\ \A x \in 1 .. Len(l) : (l \o c)[x] = l[x]
        /\ \A x \in Len(l) + 1 .. Len(l) + Len(c) : (l \o c)[x] = c[x - Len(l)]
    BY <2>1, Joined
  <2>4. /\ Len(l) + 1 \in Len(l) + 1 .. Len(l) + Len(c) /\ (Len(l) + 1) - Len(l) = 1
        /\ Len(l) + 2 \in Len(l) + 1 .. Len(l) + Len(c) /\ (Len(l) + 2) - Len(l) = 2
    BY <2>1, <2>3
  <2>5. (l \o c)[Len(l) + 1] = c[1] /\ (l \o c)[Len(l) + 2] = c[2]
    BY <2>3, <2>4
  <2> QED
    BY <2>1, <2>2, <2>3, <2>5 DEF l
<1>3. s \in Seq(Seq(FrameByte)) /\ Len(s) = n
  <2> DEFINE Q == Seq(FrameByte)
  <2>1. s = [i \in 1 .. n |-> s[i]] /\ \A i \in 1 .. n : s[i] \in Q
    BY <1>2 DEF HeaderLines
  <2> HIDE DEF s, Q, n
  <2>2. s \in [1 .. n -> Q]
    BY <2>1
  <2>3. s \in Seq(Q)
    BY <1>1, <2>2, SeqDef
  <2>4. Len(s) = n
    BY <1>1, <2>2, <2>3, LenProperties
  <2> QED
    BY <2>3, <2>4 DEF Q
<1> HIDE DEF s, n
<1>4. front \in Seq(FrameByte) /\ \E q \in [0 .. n -> Nat] : IsPlaces(s, front, q)
  <2>1. front \in Seq(FrameByte) /\ \E q \in [0 .. Len(s) -> Nat] : IsPlaces(s, front, q)
    BY <1>3, FlattenPlaces
  <2> QED
    BY <1>3, <2>1
<1>5. PICK q \in [0 .. n -> Nat] : IsPlaces(s, front, q)
  BY <1>4
<1>6. /\ q[0] = 0 /\ q[n] = Len(front) /\ q[n] \in Nat
      /\ \A k \in 1 .. n :
          /\ q[k] = q[k - 1] + Len(s[k]) /\ q[k] <= q[n] /\ q[k - 1] \in Nat
          /\ \A x \in 1 .. Len(s[k]) : front[q[k - 1] + x] = s[k][x]
  <2>1. q[n] \in Nat /\ \A k \in 1 .. n : q[k - 1] \in Nat
    BY <1>1
  <2> QED
    BY <1>3, <1>5, <2>1 DEF IsPlaces
<1> HIDE DEF front
<1>7. /\ all \in Seq(FrameByte) /\ Len(all) = q[n] + 2
      /\ \A x \in 1 .. q[n] : all[x] = front[x]
      /\ all[q[n] + 1] = "CR" /\ all[q[n] + 2] = "LF"
  <2> DEFINE c == CrLf
  <2>1. c \in Seq(FrameByte) /\ Len(c) = 2 /\ c[1] = "CR" /\ c[2] = "LF"
    BY BreakFacts
  <2> HIDE DEF c
  <2>2. /\ front \o c \in Seq(FrameByte) /\ Len(front \o c) = Len(front) + Len(c)
        /\ \A x \in 1 .. Len(front) : (front \o c)[x] = front[x]
        /\ \A x \in Len(front) + 1 .. Len(front) + Len(c) : (front \o c)[x] = c[x - Len(front)]
    BY <1>4, <2>1, Joined
  <2>3. /\ Len(front) + 1 \in Len(front) + 1 .. Len(front) + Len(c) /\ (Len(front) + 1) - Len(front) = 1
        /\ Len(front) + 2 \in Len(front) + 1 .. Len(front) + Len(c) /\ (Len(front) + 2) - Len(front) = 2
    BY <1>6, <2>1
  <2>4. (front \o c)[Len(front) + 1] = c[1] /\ (front \o c)[Len(front) + 2] = c[2]
    BY <2>2, <2>3
  <2> QED
    BY <1>6, <2>1, <2>2, <2>4 DEF c
<1> HIDE DEF all
<1>8. ASSUME NEW i \in 1 .. n
      PROVE  /\ q[i] = q[i - 1] + Len(h[i]) + 2 /\ q[i] <= q[n]
             /\ \A x \in 1 .. Len(h[i]) : all[q[i - 1] + x] = h[i][x]
             /\ all[q[i - 1] + Len(h[i]) + 1] = "CR"
             /\ all[q[i - 1] + Len(h[i]) + 2] = "LF"
  <2> DEFINE l == Len(h[i])
             b == q[i - 1]
             e == q[n]
  <2>1. l \in Nat /\ b \in Nat /\ e \in Nat /\ q[i] = b + l + 2 /\ b + l + 2 <= e
    <3> DEFINE m == q[i]
               w == Len(s[i])
    <3>1. l \in Nat /\ b \in Nat /\ e \in Nat /\ m = b + w /\ w = l + 2 /\ m <= e
      BY <1>1, <1>2, <1>6
    <3> HIDE DEF l, b, e, m, w
    <3>2. m = b + l + 2 /\ b + l + 2 <= e
      BY <3>1
    <3> QED
      BY <3>1, <3>2 DEF m
  <2>2. \A x \in 1 .. l + 2 : front[b + x] = s[i][x]
    BY <1>2, <1>6, Zenon
  <2> HIDE DEF l, b, e
  <2>3. ASSUME NEW x \in 1 .. l + 2 PROVE all[b + x] = s[i][x]
    <3>1. b + x \in 1 .. e
      BY <2>1
    <3>2. all[b + x] = front[b + x]
      BY <1>7, <3>1 DEF e
    <3> QED
      BY <2>2, <3>2
  <2>4. l + 1 \in 1 .. l + 2 /\ l + 2 \in 1 .. l + 2 /\ b + (l + 1) = b + l + 1 /\ b + (l + 2) = b + l + 2
        /\ 1 .. l \subseteq 1 .. l + 2
    BY <2>1
  <2>5. all[b + l + 1] = s[i][l + 1] /\ all[b + l + 2] = s[i][l + 2]
        /\ \A x \in 1 .. l : all[b + x] = s[i][x]
    BY <2>3, <2>4
  <2>6. s[i][l + 1] = "CR" /\ s[i][l + 2] = "LF" /\ \A x \in 1 .. l : s[i][x] = h[i][x]
    BY <1>2 DEF l
  <2>7. q[i] <= e
    BY <2>1
  <2> HIDE DEF h
  <2> QED
    BY <2>1, <2>5, <2>6, <2>7 DEF l, b, e
<1>9. HeaderBytes(f) = all
  BY DEF HeaderBytes, all, front, s
<1>10. IsHeader(f, all, q)
  BY <1>5, <1>6, <1>7, <1>8 DEF IsHeader, n
<1> QED
  BY <1>9, <1>10

\* A header ends at its first empty line.
LEMMA HeaderEnds ==
    ASSUME NEW f \in Frame, WellFramed(f), NEW all, NEW q, IsHeader(f, all, q)
    PROVE  /\ Len(all) \in Nat /\ Len(all) >= 5
           /\ StartsAt(all, Len(all) - 3, CrLf \o CrLf)
           /\ \A p \in 1 .. Len(all) - 4 : ~StartsAt(all, p, CrLf \o CrLf)
<1> DEFINE h == f.headers
           n == Len(h)
<1>1. n \in Nat \ {0} /\ \A i \in 1 .. n : GoodLine(h[i])
  BY FrameFacts
<1>2. /\ q \in [0 .. n -> Nat] /\ q[0] = 0
      /\ all \in Seq(FrameByte) /\ Len(all) = q[n] + 2
      /\ all[q[n] + 1] = "CR" /\ all[q[n] + 2] = "LF"
      /\ \A i \in 1 .. n :
          /\ q[i] = q[i - 1] + Len(h[i]) + 2 /\ q[i] <= q[n]
          /\ \A x \in 1 .. Len(h[i]) : all[q[i - 1] + x] = h[i][x]
          /\ all[q[i - 1] + Len(h[i]) + 1] = "CR"
          /\ all[q[i - 1] + Len(h[i]) + 2] = "LF"
  BY DEF IsHeader
<1> HIDE DEF n, h
<1>3. \A i \in 0 .. n : q[i] \in Nat
  BY <1>2
<1> DEFINE Other(y) == all[y] # "CR" /\ all[y] # "LF"
           P == {i \in 0 .. n : \A p \in Nat \ {0} : p + 2 <= q[i] =>
                    Other(p) \/ Other(p + 1) \/ Other(p + 2)}
<1>4. 0 \in P
  BY <1>1, <1>2
<1>5. ASSUME NEW i \in 1 .. n
      PROVE  /\ q[i - 1] \in Nat /\ Len(h[i]) \in Nat \ {0} /\ q[i] = q[i - 1] + Len(h[i]) + 2
             /\ \A x \in 1 .. Len(h[i]) : Other(q[i - 1] + x)
  <2>1. i - 1 \in 0 .. n
    BY <1>1
  <2>2. ASSUME NEW x \in 1 .. Len(h[i]) PROVE Other(q[i - 1] + x)
    <3>1. all[q[i - 1] + x] = h[i][x]
      BY <1>2
    <3>2. h[i][x] # "CR" /\ h[i][x] # "LF"
      BY <1>1 DEF GoodLine
    <3> QED
      BY <3>1, <3>2
  <2> QED
    BY <1>1, <1>2, <1>3, <2>1, <2>2 DEF GoodLine
<1>6. ASSUME NEW i \in 1 .. n, i - 1 \in P PROVE i \in P
  <2> DEFINE b == q[i - 1]
             l == Len(h[i])
  <2>1. b \in Nat /\ l \in Nat \ {0} /\ q[i] = b + l + 2 /\ \A x \in 1 .. l : Other(b + x)
    BY <1>5
  <2>2. \A p \in Nat \ {0} : p + 2 <= b => Other(p) \/ Other(p + 1) \/ Other(p + 2)
    BY <1>6
  <2> HIDE DEF b, l
  <2>3. ASSUME NEW p \in Nat \ {0}, p + 2 <= b + l + 2
        PROVE  Other(p) \/ Other(p + 1) \/ Other(p + 2)
    <3>1. CASE p + 2 <= b
      BY <2>2, <3>1
    <3>2. CASE p + 2 = b + 1 \/ p + 1 = b + 1 \/ p = b + 1
      <4>1. 1 \in 1 .. l
        BY <2>1
      <4>2. Other(b + 1)
        BY <2>1, <4>1
      <4> HIDE DEF Other
      <4> QED
        BY <3>2, <4>2
    <3>3. CASE p >= b + 2
      <4>1. p - b \in 1 .. l /\ b + (p - b) = p
        BY <2>1, <2>3, <3>3
      <4>2. Other(b + (p - b))
        BY <2>1, <4>1
      <4>3. Other(p)
        BY <4>1, <4>2
      <4> QED
        BY <4>3
    <3>4. p + 2 <= b \/ p + 2 = b + 1 \/ p + 1 = b + 1 \/ p = b + 1 \/ p >= b + 2
      BY <2>1
    <3> QED
      BY <3>1, <3>2, <3>3, <3>4
  <2>4. i \in 0 .. n
    BY <1>1
  <2> HIDE DEF Other
  <2> QED
    BY <2>1, <2>3, <2>4
<1>7. \A p \in Nat \ {0} : p + 2 <= q[n] => Other(p) \/ Other(p + 1) \/ Other(p + 2)
  <2> HIDE DEF P
  <2>1. 0 .. n \subseteq P
    BY <1>1, <1>4, <1>6, UpTo
  <2>2. n \in 0 .. n
    BY <1>1
  <2>3. n \in P
    BY <2>1, <2>2
  <2> HIDE DEF Other
  <2> QED
    BY <2>3 DEF P
<1>8. /\ q[n] \in Nat /\ q[n] >= 3 /\ all[q[n] - 1] = "CR" /\ all[q[n]] = "LF"
  <2> DEFINE b == q[n - 1]
             l == Len(h[n])
             e == q[n]
  <2>1. n \in 1 .. n
    BY <1>1
  <2>2. b \in Nat /\ l \in Nat \ {0} /\ e = b + l + 2
    BY <1>5, <2>1
  <2>3. all[b + l + 1] = "CR" /\ all[b + l + 2] = "LF"
    BY <1>2, <2>1
  <2> HIDE DEF b, l, e
  <2>4. e \in Nat /\ e >= 3 /\ e - 1 = b + l + 1
    BY <2>2
  <2> QED
    BY <2>2, <2>3, <2>4 DEF e
<1> DEFINE e == q[n]
<1>9. e \in Nat /\ e >= 3 /\ Len(all) = e + 2 /\ all \in Seq(FrameByte)
      /\ all[e - 1] = "CR" /\ all[e] = "LF" /\ all[e + 1] = "CR" /\ all[e + 2] = "LF"
  BY <1>2, <1>8
<1>10. \A p \in Nat \ {0} : p + 2 <= e => Other(p) \/ Other(p + 1) \/ Other(p + 2)
  BY <1>7
<1> HIDE DEF e
<1>11. StartsAt(all, Len(all) - 3, CrLf \o CrLf)
  <2> DEFINE i == e - 1
  <2>1. i \in Nat \ {0} /\ Len(all) - 3 = i /\ i + 1 = e /\ i + 2 = e + 1 /\ i + 3 = e + 2
    BY <1>9
  <2> HIDE DEF i
  <2>2. StartsAt(all, i, CrLf \o CrLf) <=>
          i + 3 <= Len(all) /\ all[i] = "CR" /\ all[i + 1] = "LF" /\ all[i + 2] = "CR" /\ all[i + 3] = "LF"
    BY <1>9, <2>1, StartsAtFacts
  <2>3. all[i] = "CR" /\ all[i + 1] = "LF" /\ all[i + 2] = "CR" /\ all[i + 3] = "LF"
    BY <1>9, <2>1 DEF i
  <2>4. i + 3 <= Len(all)
    BY <1>9, <2>1
  <2> QED
    BY <2>1, <2>2, <2>3, <2>4
<1>12. ASSUME NEW p \in 1 .. Len(all) - 4 PROVE ~StartsAt(all, p, CrLf \o CrLf)
  <2>1. p \in Nat \ {0} /\ p + 2 <= e
    BY <1>9
  <2>2. Other(p) \/ Other(p + 1) \/ Other(p + 2)
    BY <1>10, <2>1
  <2>3. StartsAt(all, p, CrLf \o CrLf) =>
          all[p] = "CR" /\ all[p + 1] = "LF" /\ all[p + 2] = "CR"
    BY <1>9, <2>1, StartsAtFacts
  <2> QED
    BY <2>2, <2>3
<1>13. Len(all) \in Nat /\ Len(all) >= 5
  BY <1>9
<1> QED
  BY <1>11, <1>12, <1>13

-----------------------------------------------------------------------------
(* What the parser finds in a buffer that begins with a frame. *)

\* Of two ways to cut a sequence, the longer front begins with the shorter one.
LEMMA CutTwice ==
    ASSUME NEW S, NEW p \in Seq(S), NEW r \in Seq(S), NEW a \in Seq(S), NEW b \in Seq(S),
           p \o r = a \o b
    PROVE  /\ \A x \in 1 .. Len(p) : x <= Len(a) => p[x] = a[x]
           /\ Len(p) + Len(r) = Len(a) + Len(b)
<1> DEFINE all == p \o r
<1>1. /\ all \in Seq(S) /\ Len(all) = Len(p) + Len(r) /\ Len(p) \in Nat /\ Len(r) \in Nat
      /\ \A i \in 1 .. Len(p) : all[i] = p[i]
      /\ \A i \in Len(p) + 1 .. Len(p) + Len(r) : all[i] = r[i - Len(p)]
  BY Joined
<1>2. /\ Len(all) = Len(a) + Len(b) /\ Len(a) \in Nat /\ Len(b) \in Nat
      /\ \A i \in 1 .. Len(a) : all[i] = a[i]
      /\ \A i \in Len(a) + 1 .. Len(a) + Len(b) : all[i] = b[i - Len(a)]
  <2>1. /\ Len(a \o b) = Len(a) + Len(b) /\ Len(a) \in Nat /\ Len(b) \in Nat
        /\ \A i \in 1 .. Len(a) : (a \o b)[i] = a[i]
        /\ \A i \in Len(a) + 1 .. Len(a) + Len(b) : (a \o b)[i] = b[i - Len(a)]
    BY Joined
  <2> QED
    BY <2>1
<1> HIDE DEF all
<1>3. ASSUME NEW x \in 1 .. Len(p), x <= Len(a) PROVE p[x] = a[x]
  <2>1. x \in 1 .. Len(a)
    BY <1>3
  <2> QED
    BY <1>1, <1>2, <2>1
<1>4. Len(p) + Len(r) = Len(a) + Len(b)
  BY <1>1, <1>2
<1> QED
  BY <1>3, <1>4

LEMMA CutLonger ==
    ASSUME NEW S, NEW p \in Seq(S), NEW r \in Seq(S), NEW a \in Seq(S), NEW b \in Seq(S),
           p \o r = a \o b, Len(p) >= Len(a)
    PROVE  /\ SubSeq(p, 1, Len(a)) = a
           /\ SubSeq(p, Len(a) + 1, Len(p)) \in Seq(S)
           /\ Len(SubSeq(p, Len(a) + 1, Len(p))) = Len(p) - Len(a)
<1> DEFINE all == p \o r
<1>1. /\ all \in Seq(S) /\ Len(all) = Len(p) + Len(r) /\ Len(p) \in Nat /\ Len(r) \in Nat
      /\ \A i \in 1 .. Len(p) : all[i] = p[i]
      /\ \A i \in Len(p) + 1 .. Len(p) + Len(r) : all[i] = r[i - Len(p)]
  BY Joined
<1>2. /\ Len(all) = Len(a) + Len(b) /\ Len(a) \in Nat /\ Len(b) \in Nat
      /\ \A i \in 1 .. Len(a) : all[i] = a[i]
      /\ \A i \in Len(a) + 1 .. Len(a) + Len(b) : all[i] = b[i - Len(a)]
  <2>1. /\ Len(a \o b) = Len(a) + Len(b) /\ Len(a) \in Nat /\ Len(b) \in Nat
        /\ \A i \in 1 .. Len(a) : (a \o b)[i] = a[i]
        /\ \A i \in Len(a) + 1 .. Len(a) + Len(b) : (a \o b)[i] = b[i - Len(a)]
    BY Joined
  <2> QED
    BY <2>1
<1> HIDE DEF all
<1>3. ASSUME NEW x \in 1 .. Len(p), x <= Len(a) PROVE p[x] = a[x]
  <2>1. x \in 1 .. Len(a)
    BY <1>3
  <2> QED
    BY <1>1, <1>2, <2>1
<1>4. /\ SubSeq(p, 1, Len(a)) = a
      /\ SubSeq(p, Len(a) + 1, Len(p)) \in Seq(S)
      /\ Len(SubSeq(p, Len(a) + 1, Len(p))) = Len(p) - Len(a)
  <2> DEFINE n == Len(a)
             m == Len(p)
             front == SubSeq(p, 1, n)
             rear == SubSeq(p, n + 1, m)
  <2>1. n \in Nat /\ m \in Nat /\ n <= m /\ 1 <= n + 1 /\ n + 1 <= m + 1 /\ n + 1 \in Nat /\ 1 \in Nat
    BY <1>1, <1>2
  <2>2. front \in Seq(S) /\ Len(front) = n /\ \A i \in 1 .. n : front[i] = p[i]
    <3>1. /\ SubSeq(p, 1, n) \in Seq(S) /\ Len(SubSeq(p, 1, n)) = n - 1 + 1
          /\ \A i \in 1 .. n - 1 + 1 : SubSeq(p, 1, n)[i] = p[1 + i - 1]
      <4> HIDE DEF n
      <4> QED
        BY <2>1, PartOfSeq
    <3>2. n - 1 + 1 = n /\ \A i \in 1 .. n : 1 + i - 1 = i
      BY <2>1
    <3> HIDE DEF n
    <3> QED
      BY <3>1, <3>2
  <2>3. rear \in Seq(S) /\ Len(rear) = m - n /\ \A i \in 1 .. m - n : rear[i] = p[n + i]
    <3>1. /\ SubSeq(p, n + 1, m) \in Seq(S) /\ Len(SubSeq(p, n + 1, m)) = m - (n + 1) + 1
          /\ \A i \in 1 .. m - (n + 1) + 1 : SubSeq(p, n + 1, m)[i] = p[(n + 1) + i - 1]
      <4>1. m <= Len(p)
        BY <2>1
      <4> HIDE DEF n, m
      <4> QED
        BY <2>1, <4>1, PartOfSeq
    <3>2. m - (n + 1) + 1 = m - n /\ \A i \in 1 .. m - n : (n + 1) + i - 1 = n + i
      BY <2>1
    <3> HIDE DEF n, m
    <3> QED
      BY <3>1, <3>2
  <2> HIDE DEF front, rear
  <2>4. front = a
    <3>1. \A i \in 1 .. n : front[i] = a[i]
      BY <1>3, <2>1, <2>2
    <3> QED
      BY <2>2, <3>1, SeqEqual
  <2>6. SubSeq(p, 1, Len(a)) = a
    BY <2>4 DEF front
  <2>7. SubSeq(p, Len(a) + 1, Len(p)) = rear
    BY DEF rear
  <2> QED
    BY <2>3, <2>6, <2>7
<1> QED
  BY <1>4

LEMMA RearMeets ==
    ASSUME NEW S, NEW p \in Seq(S), NEW r \in Seq(S), NEW a \in Seq(S), NEW b \in Seq(S),
           p \o r = a \o b, Len(p) >= Len(a)
    PROVE  SubSeq(p, Len(a) + 1, Len(p)) \o r = b
<1> DEFINE all == p \o r
<1>1. /\ all \in Seq(S) /\ Len(all) = Len(p) + Len(r) /\ Len(p) \in Nat /\ Len(r) \in Nat
      /\ \A i \in 1 .. Len(p) : all[i] = p[i]
      /\ \A i \in Len(p) + 1 .. Len(p) + Len(r) : all[i] = r[i - Len(p)]
  BY Joined
<1>2. /\ Len(all) = Len(a) + Len(b) /\ Len(a) \in Nat /\ Len(b) \in Nat
      /\ \A i \in 1 .. Len(a) : all[i] = a[i]
      /\ \A i \in Len(a) + 1 .. Len(a) + Len(b) : all[i] = b[i - Len(a)]
  <2>1. /\ Len(a \o b) = Len(a) + Len(b) /\ Len(a) \in Nat /\ Len(b) \in Nat
        /\ \A i \in 1 .. Len(a) : (a \o b)[i] = a[i]
        /\ \A i \in Len(a) + 1 .. Len(a) + Len(b) : (a \o b)[i] = b[i - Len(a)]
    BY Joined
  <2> QED
    BY <2>1
<1> HIDE DEF all
<1>3. SubSeq(p, Len(a) + 1, Len(p)) \o r = b
  <2> DEFINE n == Len(a)
             m == Len(p)
             rear == SubSeq(p, n + 1, m)
  <2>1. n \in Nat /\ m \in Nat /\ n <= m /\ 1 <= n + 1 /\ n + 1 <= m + 1 /\ n + 1 \in Nat /\ 1 \in Nat
    BY <1>1, <1>2
  <2>3. rear \in Seq(S) /\ Len(rear) = m - n /\ \A i \in 1 .. m - n : rear[i] = p[n + i]
    <3>1. /\ SubSeq(p, n + 1, m) \in Seq(S) /\ Len(SubSeq(p, n + 1, m)) = m - (n + 1) + 1
          /\ \A i \in 1 .. m - (n + 1) + 1 : SubSeq(p, n + 1, m)[i] = p[(n + 1) + i - 1]
      <4>1. m <= Len(p)
        BY <2>1
      <4> HIDE DEF n, m
      <4> QED
        BY <2>1, <4>1, PartOfSeq
    <3>2. m - (n + 1) + 1 = m - n /\ \A i \in 1 .. m - n : (n + 1) + i - 1 = n + i
      BY <2>1
    <3> HIDE DEF n, m
    <3> QED
      BY <3>1, <3>2
  <2> HIDE DEF rear
  <2>5. rear \o r = b
    <3>1. /\ rear \o r \in Seq(S) /\ Len(rear \o r) = Len(rear) + Len(r)
          /\ \A i \in 1 .. Len(rear) : (rear \o r)[i] = rear[i]
          /\ \A i \in Len(rear) + 1 .. Len(rear) + Len(r) : (rear \o r)[i] = r[i - Len(rear)]
      BY <2>3, Joined, Zenon
    <3> DEFINE k == Len(r)
               l == Len(b)
               d == Len(rear)
    <3>2. k \in Nat /\ l \in Nat /\ d \in Nat /\ d = m - n /\ d + k = l /\ m + k = n + l
      BY <1>1, <1>2, <2>1, <2>3
    <3> HIDE DEF n, m, k, l, d
    <3>3. ASSUME NEW i \in 1 .. l PROVE (rear \o r)[i] = b[i]
      <4>1. all[n + i] = b[i]
        <5>1. n + i \in n + 1 .. n + l /\ (n + i) - n = i
          BY <2>1, <3>2
        <5> QED
          BY <1>2, <5>1 DEF n, l
      <4>2. CASE i <= d
        <5>1. i \in 1 .. d /\ n + i \in 1 .. m
          BY <2>1, <3>2, <4>2
        <5>2. (rear \o r)[i] = rear[i] /\ rear[i] = p[n + i] /\ all[n + i] = p[n + i]
          BY <1>1, <2>3, <3>1, <3>2, <5>1 DEF d, m
        <5> QED
          BY <4>1, <5>2
      <4>3. CASE i > d
        <5>1. i \in d + 1 .. d + k /\ n + i \in m + 1 .. m + k /\ (n + i) - m = i - d
          BY <2>1, <3>2, <4>3
        <5>2. (rear \o r)[i] = r[i - d] /\ all[n + i] = r[(n + i) - m]
          BY <1>1, <3>1, <5>1 DEF d, m, k
        <5> QED
          BY <4>1, <5>1, <5>2
      <4>4. i <= d \/ i > d
        BY <3>2
      <4> QED
        BY <4>2, <4>3, <4>4, Zenon
    <3>4. Len(rear \o r) = l
      BY <3>1, <3>2 DEF k, d
    <3> QED
      BY <3>1, <3>3, <3>4, SeqEqual DEF l
  <2>7. SubSeq(p, Len(a) + 1, Len(p)) = rear
    BY DEF rear
  <2> QED
    BY <2>5, <2>7
<1> QED
  BY <1>3

\* The end of the headers is found as soon as it has come, and not before.
LEMMA ContentBegins ==
    ASSUME NEW f \in Frame, WellFramed(f), NEW buffer \in Seq(FrameByte), NEW more \in Seq(FrameByte),
           NEW rest \in Seq(FrameByte), buffer \o more = HeaderBytes(f) \o rest
    PROVE  /\ HeaderBytes(f) \in Seq(FrameByte) /\ Len(HeaderBytes(f)) \in Nat \ {0}
           /\ FindContentBegin(buffer, 1) =
                IF Len(buffer) >= Len(HeaderBytes(f)) THEN Len(HeaderBytes(f)) + 1 ELSE 0
<1> DEFINE all == HeaderBytes(f)
           e == Len(all)
           n == Len(buffer)
           C == CrLf \o CrLf
<1>1. PICK q : IsHeader(f, all, q)
  BY HeaderPlaces
<1> HIDE DEF all
<1>2. all \in Seq(FrameByte) /\ e \in Nat /\ e >= 5 /\ n \in Nat
      /\ StartsAt(all, e - 3, C) /\ \A p \in 1 .. e - 4 : ~StartsAt(all, p, C)
  <2>1. all \in Seq(FrameByte)
    BY <1>1 DEF IsHeader
  <2>2. Len(all) \in Nat /\ Len(all) >= 5
        /\ StartsAt(all, Len(all) - 3, CrLf \o CrLf)
        /\ \A p \in 1 .. Len(all) - 4 : ~StartsAt(all, p, CrLf \o CrLf)
    BY <1>1, HeaderEnds
  <2>3. n \in Nat
    BY LenProperties
  <2> QED
    BY <2>1, <2>2, <2>3
<1>3. \A x \in 1 .. n : x <= e => buffer[x] = all[x]
  <2>1. buffer \o more = all \o rest
    BY DEF all
  <2> QED
    BY <1>2, <2>1, CutTwice
<1> HIDE DEF e, n
<1>4. ASSUME NEW i \in Nat \ {0}, i + 3 <= e, i + 3 <= n
      PROVE  StartsAt(buffer, i, C) <=> StartsAt(all, i, C)
  <2>1. i \in 1 .. n /\ i + 1 \in 1 .. n /\ i + 2 \in 1 .. n /\ i + 3 \in 1 .. n
        /\ i <= e /\ i + 1 <= e /\ i + 2 <= e
    BY <1>2, <1>4
  <2>2. buffer[i] = all[i] /\ buffer[i + 1] = all[i + 1] /\ buffer[i + 2] = all[i + 2]
        /\ buffer[i + 3] = all[i + 3]
    BY <1>3, <1>4, <2>1
  <2>3. i + 3 <= Len(buffer) /\ i + 3 <= Len(all)
    BY <1>4 DEF e, n
  <2> QED
    BY <1>2, <2>2, <2>3, StartsAtFacts, SMTT(30)
<1>5. CASE n >= e
  <2> DEFINE to == e - 3
  <2>1. to \in 1 .. n + 1 /\ to \in Nat \ {0} /\ to + 3 <= e /\ to + 3 <= n /\ ~(to > n) /\ to + 4 = e + 1
        /\ \A i \in 1 .. to - 1 : i \in Nat \ {0} /\ i + 3 <= e /\ i + 3 <= n /\ i \in 1 .. e - 4
    BY <1>2, <1>5
  <2>2. StartsAt(buffer, to, C)
    BY <1>2, <1>4, <2>1
  <2>3. \A i \in 1 .. to - 1 : ~StartsAt(buffer, i, C)
    BY <1>2, <1>4, <2>1
  <2> HIDE DEF to, C
  <2>4. Search(buffer, 1, C) = to
    BY <1>2, <2>1, <2>2, <2>3, SearchFinds DEF n
  <2>5. FindContentBegin(buffer, 1) = e + 1
    BY <2>1, <2>4 DEF FindContentBegin, C, n
  <2> QED
    BY <1>2, <1>5, <2>5 DEF e, n, all
<1>6. CASE ~(n >= e)
  <2> DEFINE to == n + 1
  <2>1. to \in 1 .. n + 1 /\ to > n
    BY <1>2
  <2>2. ASSUME NEW i \in 1 .. to - 1 PROVE ~StartsAt(buffer, i, C)
    <3>1. i \in Nat \ {0}
      BY <1>2
    <3>2. SUFFICES ASSUME StartsAt(buffer, i, C) PROVE FALSE
      OBVIOUS
    <3>3. i + 3 <= n
      BY <3>1, <3>2, StartsAtFacts DEF n
    <3>4. i + 3 <= e /\ i \in 1 .. e - 4
      BY <1>2, <1>6, <3>1, <3>3
    <3> QED
      BY <1>2, <1>4, <3>1, <3>2, <3>3, <3>4
  <2> HIDE DEF to, C
  <2>3. to = Len(buffer) + 1 /\ Len(buffer) \in Nat /\ to \in 1 .. Len(buffer) + 1 /\ 1 \in Nat
    BY <1>2, <2>1 DEF n, to
  <2>4. Search(buffer, 1, C) = to
    BY <2>2, <2>3, SearchFinds
  <2>5. FindContentBegin(buffer, 1) = 0
    BY <2>1, <2>4 DEF FindContentBegin, C, n
  <2> QED
    BY <1>2, <1>6, <2>5 DEF e, n, all
<1> QED
  BY <1>5, <1>6

\* Nothing is found in an empty buffer.
LEMMA NothingBegins == FindContentBegin(<< >>, 1) = 0
<1>1. Len(<< >>) = 0
  OBVIOUS
<1>2. Search(<< >>, 1, CrLf \o CrLf) = 1
  <2> DEFINE s == << >>
             C == CrLf \o CrLf
  <2>1. Len(s) \in Nat /\ 1 \in 1 .. Len(s) + 1 /\ 1 = Len(s) + 1 /\ 1 \in Nat
        /\ \A i \in 1 .. 1 - 1 : ~StartsAt(s, i, C)
    BY <1>1
  <2> HIDE DEF s, C
  <2>2. Search(s, 1, C) = 1
    BY <2>1, SearchFinds
  <2> QED
    BY <2>2 DEF s, C
<1> QED
  BY <1>1, <1>2 DEF FindContentBegin


LEMMA LeastIsThere ==
    ASSUME NEW M, M \subseteq Nat, M # {}
    PROVE  \E m \in M : \A k \in M : m <= k
<1> DEFINE Less == {ss \in Nat \X Nat : ss[1] < ss[2]}
<1>1. IsWellFoundedOn(Less, Nat)
  BY NatLessThanWellFounded DEF OpToRel
<1>2. PICK m \in M : \A k \in M : <<k, m>> \notin Less
  <2> HIDE DEF Less
  <2> QED
    BY <1>1, WFMin
<1>3. ASSUME NEW k \in M PROVE m <= k
  <2>1. k \in Nat /\ m \in Nat
    OBVIOUS
  <2>2. ~(k < m)
    BY <1>2, <2>1
  <2> QED
    BY <2>1, <2>2
<1> QED
  BY <1>3

LEMMA SearchRange ==
    ASSUME NEW s, Len(s) \in Nat, NEW part, NEW from \in 1 .. Len(s) + 1
    PROVE  Search(s, from, part) \in from .. Len(s) + 1
<1> DEFINE M == {i \in from .. Len(s) + 1 : i = Len(s) + 1 \/ StartsAt(s, i, part)}
<1>1. M \subseteq Nat /\ Len(s) + 1 \in M
  OBVIOUS
<1>2. PICK m \in M : \A k \in M : m <= k
  <2> HIDE DEF M
  <2> QED
    BY <1>1, LeastIsThere
<1>3. ASSUME NEW i \in from .. m - 1 PROVE ~StartsAt(s, i, part)
  <2>1. i \in from .. Len(s) + 1 /\ ~(m <= i)
    BY <1>1
  <2>2. i \notin M
    BY <1>2, <2>1
  <2> QED
    BY <2>1, <2>2
<1>4. m \in from .. Len(s) + 1 /\ (m = Len(s) + 1 \/ StartsAt(s, m, part))
  OBVIOUS
<1>5. from \in Nat
  OBVIOUS
<1> HIDE DEF M
<1>6. Search(s, from, part) = m
  BY <1>3, <1>4, <1>5, SearchFinds
<1> QED
  BY <1>4, <1>6

\* parse_message_headers, line by line.
LineAt(all, at) == SubSeq(all, at, Search(all, at, CrLf) - 1)
AfterLineAt(all, at) == Search(all, at, CrLf) + 2
LengthsOf(all, lengths) ==
    /\ ParseMessageHeaders(all) = lengths[1]
    /\ \A at \in Nat \ {0} :
          /\ at > Len(all) /\ at <= Len(all) + 3 => lengths[at] = NoLength
          /\ at <= Len(all) =>
                lengths[at] = IF IsGoodLength(LineAt(all, at)) THEN ContentLength[LineAt(all, at)[1]]
                              ELSE IF IsContentLength(LineAt(all, at))
                                      /\ lengths[AfterLineAt(all, at)] = NoLength THEN 0
                              ELSE lengths[AfterLineAt(all, at)]

LEMMA HeadersAreRead ==
    ASSUME NEW all, Len(all) \in Nat
    PROVE  \E lengths : LengthsOf(all, lengths)
<1> DEFINE e == Len(all)
           last == e + 3
           Break(at) == Search(all, at, CrLf)
           Line(at) == SubSeq(all, at, Break(at) - 1)
           Value(at, g) == IF at > Len(all) THEN NoLength
                           ELSE IF IsGoodLength(Line(at)) THEN ContentLength[Line(at)[1]]
                           ELSE IF IsContentLength(Line(at)) /\ g[Break(at) + 2] = NoLength THEN 0
                           ELSE g[Break(at) + 2]
           Body(g) == [at \in 1 .. Len(all) + 3 |-> Value(at, g)]
           lengths == CHOOSE g : g = Body(g)
           S == Nat \cup {NoLength}
           F == [1 .. last -> S]
<1>1. ParseMessageHeaders(all) = lengths[1]
  BY DEF ParseMessageHeaders
<1>2. ASSUME NEW at \in 1 .. last, ~(at > e)
      PROVE  Break(at) + 2 \in at + 1 .. last /\ Break(at) + 2 \in 1 .. last
  <2>1. at \in 1 .. e + 1
    BY <1>2
  <2>2. Break(at) \in at .. e + 1
    BY <2>1, SearchRange
  <2> HIDE DEF Break, e
  <2>3. e \in Nat
    BY DEF e
  <2> QED
    BY <2>1, <2>2, <2>3
<1> HIDE DEF Break
<1>3. \A at \in 1 .. last, g \in F : Value(at, g) \in S
  <2> TAKE at \in 1 .. last, g \in F
  <2>1. CASE at > e
    BY <2>1
  <2>2. CASE ~(at > e) /\ IsGoodLength(Line(at))
    <3>1. Line(at)[1] \in LengthHeaders
      BY <2>2 DEF IsGoodLength
    <3>2. ContentLength[Line(at)[1]] \in Nat
      BY <3>1, HeadersAssumption DEF HeadersAssumption
    <3>3. Value(at, g) = ContentLength[Line(at)[1]]
      BY <2>2
    <3> HIDE DEF Value, Line
    <3> QED
      BY <3>2, <3>3
  <2>3. CASE ~(at > e) /\ ~IsGoodLength(Line(at))
    <3>1. g[Break(at) + 2] \in S
      <4>1. Break(at) + 2 \in 1 .. last
        BY <1>2, <2>3
      <4> HIDE DEF last
      <4> QED
        BY <4>1
    <3>2. Value(at, g) = 0 \/ Value(at, g) = g[Break(at) + 2]
      BY <2>3
    <3> HIDE DEF Value, Line
    <3> QED
      BY <3>1, <3>2
  <2> QED
    BY <2>1, <2>2, <2>3
<1>4. ASSUME NEW at \in 1 .. last, NEW f \in F, NEW g \in F, \A j \in at + 1 .. last : f[j] = g[j]
      PROVE  Value(at, f) = Value(at, g)
  <2>1. CASE at > e
    BY <2>1
  <2>2. CASE ~(at > e)
    <3>1. f[Break(at) + 2] = g[Break(at) + 2]
      BY <1>2, <1>4, <2>2
    <3> HIDE DEF Line
    <3> QED
      BY <2>2, <3>1
  <2> QED
    BY <2>1, <2>2
<1>5. lengths = Body(lengths)
  <2> DEFINE step == [kf \in (1 .. last) \X F |-> Value(kf[1], kf[2])]
  <2>1. \A k \in 1 .. last, f \in F : step[<<k, f>>] = Value(k, f)
    <3> HIDE DEF Value
    <3> QED
      OBVIOUS
  <2>2. step \in [(1 .. last) \X F -> S]
    <3> HIDE DEF Value, F, S
    <3> QED
      BY <1>3
  <2>3. LooksAhead(1, last, S, step)
    <3> SUFFICES ASSUME NEW k \in 1 .. last, NEW f \in F, NEW g \in F,
                        \A j \in k + 1 .. last : f[j] = g[j]
                 PROVE  step[<<k, f>>] = step[<<k, g>>]
      BY DEF LooksAhead
    <3> HIDE DEF Value, step, F, last
    <3> QED
      BY <1>4, <2>1
  <2>4. DownChains(1, last, S, step) # {}
    <3> HIDE DEF step
    <3>1. 1 \in Int /\ last \in Int /\ 0 \in S
      OBVIOUS
    <3> HIDE DEF last, S
    <3> QED
      BY <2>2, <2>3, <3>1, DownRecursion
  <2>5. PICK f \in F : \A k \in 1 .. last : f[k] = step[<<k, f>>]
    <3> HIDE DEF step, last, S
    <3> QED
      BY <2>4 DEF DownChains
  <2>6. \A k \in 1 .. last : f[k] = Value(k, f)
    <3> HIDE DEF step, Value, F, last
    <3> QED
      BY <2>1, <2>5
  <2>7. f = Body(f)
    <3> HIDE DEF Value, step
    <3> QED
      BY <2>5, <2>6
  <2> HIDE DEF Body, step
  <2> QED
    BY <2>7
<1>6. \A at \in 1 .. last : lengths[at] = Value(at, lengths)
  <2> HIDE DEF lengths, Value
  <2> QED
    BY <1>5
<1> HIDE DEF lengths
<1>7. ASSUME NEW at \in Nat \ {0}, at > e, at <= e + 3 PROVE lengths[at] = NoLength
  <2>1. at \in 1 .. last /\ at > Len(all)
    BY <1>7
  <2> QED
    BY <1>6, <2>1
<1>8. ASSUME NEW at \in Nat \ {0}, at <= e
      PROVE  lengths[at] = IF IsGoodLength(Line(at)) THEN ContentLength[Line(at)[1]]
                           ELSE IF IsContentLength(Line(at)) /\ lengths[Break(at) + 2] = NoLength
                           THEN 0 ELSE lengths[Break(at) + 2]
  <2>1. at \in 1 .. last /\ ~(at > Len(all))
    BY <1>8
  <2>2. lengths[at] = Value(at, lengths)
    BY <1>6, <2>1
  <2> HIDE DEF Line
  <2> QED
    BY <2>1, <2>2
<1>9. \A at : Line(at) = LineAt(all, at) /\ Break(at) + 2 = AfterLineAt(all, at)
  BY DEF LineAt, AfterLineAt, Break
<1>10. LengthsOf(all, lengths)
  <2> HIDE DEF Line
  <2> QED
    BY <1>1, <1>7, <1>8, <1>9 DEF LengthsOf
<1> QED
  BY <1>10


\* The first Content-Length that is a number is the one that is taken.
LEMMA HeadersGiveLength ==
    ASSUME NEW f \in Frame, WellFramed(f)
    PROVE  ParseMessageHeaders(HeaderBytes(f)) = IF HasLength(f) THEN Len(f.content) ELSE NoLength
<1> DEFINE all == HeaderBytes(f)
           h == f.headers
           n == Len(h)
<1>1. PICK q : IsHeader(f, all, q)
  BY HeaderPlaces
<1>2. n \in Nat \ {0} /\ \A i \in 1 .. n : GoodLine(h[i])
  BY FrameFacts
<1>3. /\ \A i \in 1 .. n : IsGoodLength(h[i]) /\ (\A j \in 1 .. i - 1 : ~IsGoodLength(h[j]))
           => ContentLength[h[i][1]] = Len(f.content)
      /\ (\A i \in 1 .. n : ~IsGoodLength(h[i])) => f.content = << >>
  BY DEF WellFramed
<1>4. HasLength(f) <=> \E i \in 1 .. n : IsContentLength(h[i])
  <2>1. \A i \in 1 .. n : h[i] # << >>
    BY DEF WellFramed
  <2> QED
    BY <2>1 DEF HasLength, IsContentLength
<1>5. \A line : IsGoodLength(line) => line[1] \in LengthHeaders /\ ContentLength[line[1]] \in Nat
  <2> TAKE line
  <2>1. IsGoodLength(line) => line[1] \in LengthHeaders
    BY DEF IsGoodLength
  <2> QED
    BY <2>1, HeadersAssumption DEF HeadersAssumption
<1> HIDE DEF all, h, n
<1>6. /\ q \in [0 .. n -> Nat] /\ q[0] = 0
      /\ all \in Seq(FrameByte) /\ Len(all) = q[n] + 2
      /\ all[q[n] + 1] = "CR" /\ all[q[n] + 2] = "LF"
      /\ \A i \in 1 .. n :
          /\ q[i] = q[i - 1] + Len(h[i]) + 2 /\ q[i] <= q[n]
          /\ \A x \in 1 .. Len(h[i]) : all[q[i - 1] + x] = h[i][x]
          /\ all[q[i - 1] + Len(h[i]) + 1] = "CR"
          /\ all[q[i - 1] + Len(h[i]) + 2] = "LF"
  BY <1>1 DEF IsHeader, h, n
<1>7. Len(all) \in Nat /\ \A i \in 0 .. n : q[i] \in Nat
  BY <1>6, LenProperties
<1>8. PICK lengths : LengthsOf(all, lengths)
  BY <1>7, HeadersAreRead
<1> DEFINE V(i) == lengths[q[i - 1] + 1]
<1>9. ASSUME NEW i \in 1 .. n
      PROVE  V(i) = IF IsGoodLength(h[i]) THEN ContentLength[h[i][1]]
                    ELSE IF IsContentLength(h[i]) /\ V(i + 1) = NoLength THEN 0 ELSE V(i + 1)
  <2> DEFINE b == q[i - 1]
             l == Len(h[i])
             at == b + 1
             to == b + l + 1
             e == Len(all)
  <2>1. b \in Nat /\ l \in Nat \ {0} /\ q[i] = b + l + 2 /\ e \in Nat /\ b + l + 2 <= e
        /\ h[i] \in Seq(FrameByte)
    <3>1. i - 1 \in 0 .. n /\ n \in 0 .. n
      BY <1>2
    <3>2. b \in Nat /\ q[n] \in Nat /\ e = q[n] + 2 /\ q[i] = b + l + 2 /\ q[i] <= q[n]
      BY <1>6, <1>7, <3>1
    <3>3. l \in Nat \ {0} /\ h[i] \in Seq(FrameByte)
      BY <1>2 DEF GoodLine
    <3> DEFINE qn == q[n]
               qi == q[i]
    <3> HIDE DEF b, l, e, qn, qi
    <3>4. b + l + 2 <= e
      <4>1. qn \in Nat /\ e = qn + 2 /\ qi = b + l + 2 /\ qi <= qn /\ b \in Nat /\ l \in Nat
        BY <3>2, <3>3 DEF qn, qi
      <4> QED
        BY <4>1
    <3>5. e \in Nat
      BY <1>7 DEF e
    <3> QED
      BY <3>2, <3>3, <3>4, <3>5
  <2>2. /\ \A x \in 1 .. l : all[b + x] = h[i][x] /\ all[b + x] # "CR"
        /\ all[b + l + 1] = "CR" /\ all[b + l + 2] = "LF"
    <3>1. \A x \in 1 .. l : h[i][x] # "CR"
      BY <1>2 DEF GoodLine
    <3> QED
      BY <1>6, <3>1
  <2> HIDE DEF b, l, e
  <2>3. at \in Nat \ {0} /\ to \in at .. e + 1 /\ to \in Nat \ {0} /\ to + 1 = b + l + 2 /\ to - 1 = b + l
        /\ at <= e
    BY <2>1
  <2>4. StartsAt(all, to, CrLf)
    <3>1. to + 1 <= Len(all) /\ all[to] = "CR" /\ all[to + 1] = "LF"
      BY <2>1, <2>2, <2>3 DEF e
    <3> HIDE DEF to
    <3> QED
      BY <1>6, <2>3, <3>1, StartsAtFacts
  <2>5. ASSUME NEW p \in at .. to - 1 PROVE ~StartsAt(all, p, CrLf)
    <3>1. p - b \in 1 .. l /\ b + (p - b) = p /\ p \in Nat \ {0}
      BY <2>1
    <3>2. all[b + (p - b)] # "CR"
      BY <2>2, <3>1
    <3>3. all[p] # "CR"
      BY <3>1, <3>2
    <3> QED
      BY <1>6, <3>1, <3>3, StartsAtFacts
  <2>6. Search(all, at, CrLf) = to
    <3>1. to \in at .. Len(all) + 1 /\ Len(all) \in Nat /\ at \in Nat
      BY <1>7, <2>3 DEF e
    <3> HIDE DEF at, to
    <3> QED
      BY <2>4, <2>5, <3>1, SearchFinds
  <2>7. LineAt(all, at) = h[i]
    <3> DEFINE c == b + l
    <3>1. c \in Nat /\ 1 <= at /\ at <= c + 1 /\ c <= Len(all) /\ c - at + 1 = l
          /\ \A x \in 1 .. l : at + x - 1 = b + x
      BY <2>1, <2>3 DEF e
    <3>2. LineAt(all, at) = SubSeq(all, at, c)
      BY <2>3, <2>6 DEF LineAt
    <3> HIDE DEF c, at
    <3>3. /\ SubSeq(all, at, c) \in Seq(FrameByte) /\ Len(SubSeq(all, at, c)) = c - at + 1
          /\ \A x \in 1 .. c - at + 1 : SubSeq(all, at, c)[x] = all[at + x - 1]
      <4>1. all \in Seq(FrameByte) /\ at \in Nat /\ c \in Nat /\ 1 <= at /\ at <= c + 1 /\ c <= Len(all)
        BY <1>6, <2>3, <3>1
      <4> QED
        BY <4>1, PartOfSeq
    <3> DEFINE line == SubSeq(all, at, c)
    <3>4. line \in Seq(FrameByte) /\ Len(line) = l /\ \A x \in 1 .. l : line[x] = all[at + x - 1]
      BY <3>1, <3>3
    <3> HIDE DEF line
    <3>5. \A x \in 1 .. l : line[x] = h[i][x]
      BY <2>2, <3>1, <3>4
    <3>6. line = h[i]
      BY <2>1, <3>4, <3>5, SeqEqual DEF l
    <3> QED
      BY <3>2, <3>6 DEF line
  <2>8. AfterLineAt(all, at) = q[i] + 1
    <3>1. to + 2 = q[i] + 1
      BY <2>1
    <3> QED
      BY <2>6, <3>1 DEF AfterLineAt
  <2>9. lengths[at] = IF IsGoodLength(LineAt(all, at)) THEN ContentLength[LineAt(all, at)[1]]
                      ELSE IF IsContentLength(LineAt(all, at))
                              /\ lengths[AfterLineAt(all, at)] = NoLength THEN 0
                      ELSE lengths[AfterLineAt(all, at)]
    BY <1>8, <2>3 DEF LengthsOf, e
  <2>10. V(i) = lengths[at] /\ V(i + 1) = lengths[q[i] + 1]
    <3>1. (i + 1) - 1 = i
      BY <1>2
    <3> QED
      BY <3>1 DEF b
  <2> HIDE DEF at, V
  <2> QED
    BY <2>7, <2>8, <2>9, <2>10
<1>10. V(n + 1) = NoLength
  <2> DEFINE e == q[n]
             at == e + 1
  <2>1. e \in Nat /\ Len(all) = e + 2 /\ all[at] = "CR" /\ all[at + 1] = "LF" /\ at \in Nat \ {0}
        /\ at \in at .. Len(all) + 1 /\ at <= Len(all) /\ at + 1 <= Len(all) /\ at - 1 = e
    <3>1. n \in 0 .. n
      BY <1>2
    <3>2. e \in Nat /\ Len(all) = e + 2 /\ all[e + 1] = "CR" /\ all[e + 2] = "LF"
      BY <1>6, <1>7, <3>1
    <3> HIDE DEF e
    <3>3. at + 1 = e + 2
      BY <3>2
    <3> QED
      BY <3>2, <3>3
  <2> HIDE DEF e
  <2>2. Search(all, at, CrLf) = at
    <3>1. StartsAt(all, at, CrLf)
      BY <1>6, <2>1, StartsAtFacts
    <3>2. \A i \in at .. at - 1 : ~StartsAt(all, i, CrLf)
      BY <2>1
    <3> HIDE DEF at
    <3>3. at \in Nat /\ at \in at .. Len(all) + 1
      BY <2>1
    <3> QED
      BY <1>7, <3>1, <3>2, <3>3, SearchFinds
  <2>3. Len(LineAt(all, at)) = 0 /\ LineAt(all, at) = << >>
    <3>1. LineAt(all, at) = SubSeq(all, at, e)
      BY <2>1, <2>2 DEF LineAt
    <3>2. 1 <= at /\ at <= e + 1 /\ e <= Len(all) /\ e - at + 1 = 0
      BY <2>1
    <3>3. SubSeq(all, at, e) \in Seq(FrameByte) /\ Len(SubSeq(all, at, e)) = e - at + 1
      <4> HIDE DEF at
      <4> QED
        BY <1>6, <2>1, <3>2, PartOfSeq
    <3>4. Len(LineAt(all, at)) = 0 /\ LineAt(all, at) \in Seq(FrameByte)
      BY <3>1, <3>2, <3>3
    <3> QED
      BY <3>4, EmptySeq
  <2>4. ~IsGoodLength(LineAt(all, at)) /\ ~IsContentLength(LineAt(all, at))
    BY <2>3 DEF IsGoodLength, IsContentLength
  <2>5. AfterLineAt(all, at) = at + 2
    BY <2>2 DEF AfterLineAt
  <2>6. at + 2 \in Nat \ {0} /\ at + 2 > Len(all) /\ at + 2 <= Len(all) + 3
    BY <2>1
  <2>7. lengths[at + 2] = NoLength
    BY <1>8, <2>6 DEF LengthsOf
  <2>8. lengths[at] = lengths[AfterLineAt(all, at)]
    BY <1>8, <2>1, <2>4 DEF LengthsOf
  <2>9. V(n + 1) = lengths[at]
    <3>1. (n + 1) - 1 = n
      BY <1>2
    <3> QED
      BY <3>1 DEF e
  <2> HIDE DEF at, V
  <2> QED
    BY <2>5, <2>7, <2>8, <2>9
<1> HIDE DEF V
<1> DEFINE First(i, j) == /\ j \in i .. n /\ IsGoodLength(h[j])
                          /\ \A l \in i .. j - 1 : ~IsGoodLength(h[l])
           P == {i \in 1 .. n + 1 :
                   \/ \E j \in i .. n : First(i, j) /\ V(i) = ContentLength[h[j][1]]
                   \/ /\ \A j \in i .. n : ~IsGoodLength(h[j])
                      /\ V(i) = IF \E j \in i .. n : IsContentLength(h[j]) THEN 0 ELSE NoLength}
<1>11. ASSUME NEW i \in 1 .. n + 1, i + 1 .. n + 1 \subseteq P PROVE i \in P
  <2>1. CASE i = n + 1
    <3>1. i .. n = {}
      BY <1>2, <2>1
    <3> QED
      BY <1>10, <2>1, <3>1
  <2>2. CASE i # n + 1
    <3>1. i \in 1 .. n /\ i + 1 \in i + 1 .. n + 1 /\ i \in i .. n /\ i + 1 .. n \subseteq i .. n
          /\ \A j \in i .. n : j = i \/ j \in i + 1 .. n
      BY <1>2, <2>2
    <3>2. i + 1 \in P
      BY <1>11, <3>1
    <3>3. CASE IsGoodLength(h[i])
      <4>1. V(i) = ContentLength[h[i][1]]
        BY <1>9, <3>1, <3>3
      <4>2. First(i, i)
        <5>1. i .. i - 1 = {}
          BY <3>1
        <5> QED
          BY <3>1, <3>3, <5>1
      <4> HIDE DEF First
      <4> QED
        BY <3>1, <4>1, <4>2
    <3>4. CASE ~IsGoodLength(h[i]) /\ \E j \in i + 1 .. n : First(i + 1, j) /\ V(i + 1) = ContentLength[h[j][1]]
      <4>1. PICK j \in i + 1 .. n : First(i + 1, j) /\ V(i + 1) = ContentLength[h[j][1]]
        BY <3>4
      <4>2. ContentLength[h[j][1]] \in Nat
        BY <1>5, <4>1
      <4>3. V(i + 1) # NoLength
        BY <4>1, <4>2, HeadersAssumption DEF HeadersAssumption
      <4>4. V(i) = ContentLength[h[j][1]]
        BY <1>9, <3>1, <3>4, <4>1, <4>3
      <4>5. First(i, j)
        <5>1. \A l \in i .. j - 1 : l = i \/ l \in i + 1 .. j - 1
          BY <3>1
        <5>2. j \in i .. n
          BY <3>1
        <5> QED
          BY <3>4, <4>1, <5>1, <5>2
      <4>6. j \in i .. n
        BY <3>1
      <4> HIDE DEF First
      <4> QED
        BY <4>4, <4>5, <4>6
    <3>5. CASE /\ ~IsGoodLength(h[i]) /\ \A j \in i + 1 .. n : ~IsGoodLength(h[j])
               /\ V(i + 1) = IF \E j \in i + 1 .. n : IsContentLength(h[j]) THEN 0 ELSE NoLength
      <4>1. \A j \in i .. n : ~IsGoodLength(h[j])
        BY <3>1, <3>5
      <4>2. (\E j \in i .. n : IsContentLength(h[j])) <=>
              IsContentLength(h[i]) \/ \E j \in i + 1 .. n : IsContentLength(h[j])
        BY <3>1
      <4>3. V(i) = IF IsContentLength(h[i]) /\ V(i + 1) = NoLength THEN 0 ELSE V(i + 1)
        BY <1>9, <3>1, <3>5
      <4>4. NoLength # 0
        BY HeadersAssumption DEF HeadersAssumption
      <4>5. V(i) = IF \E j \in i .. n : IsContentLength(h[j]) THEN 0 ELSE NoLength
        BY <3>5, <4>2, <4>3, <4>4
      <4> HIDE DEF First
      <4> QED
        BY <4>1, <4>5
    <3>6. IsGoodLength(h[i]) \/ ~IsGoodLength(h[i])
      OBVIOUS
    <3> HIDE DEF First
    <3> QED
      BY <3>2, <3>3, <3>4, <3>5, <3>6
  <2> QED
    BY <2>1, <2>2
<1>12. 1 \in P
  <2> HIDE DEF P
  <2>1. 1 .. n + 1 \subseteq P
    <3> DEFINE m == n + 1
    <3>1. 1 \in Int /\ m \in Int /\ \A k \in 1 .. m : k + 1 .. m \subseteq P => k \in P
      BY <1>2, <1>11
    <3> HIDE DEF m
    <3>2. 1 .. m \subseteq P
      BY <3>1, DownTo
    <3> QED
      BY <3>2 DEF m
  <2>2. 1 \in 1 .. n + 1
    BY <1>2
  <2> QED
    BY <2>1, <2>2
<1>13. ParseMessageHeaders(all) = V(1)
  <2>1. ParseMessageHeaders(all) = lengths[1]
    BY <1>8 DEF LengthsOf
  <2>2. 1 - 1 = 0 /\ 0 + 1 = 1
    OBVIOUS
  <2> QED
    BY <1>6, <2>1, <2>2 DEF V
<1>14. CASE \E j \in 1 .. n : First(1, j) /\ V(1) = ContentLength[h[j][1]]
  <2>1. PICK j \in 1 .. n : First(1, j) /\ V(1) = ContentLength[h[j][1]]
    BY <1>14
  <2>2. V(1) = Len(f.content)
    BY <1>3, <2>1 DEF h
  <2>3. IsContentLength(h[j])
    <3>1. h[j][1] \in LengthHeaders /\ h[j] # << >>
      BY <1>5, <2>1 DEF WellFramed, h, n
    <3> QED
      BY <3>1 DEF IsContentLength
  <2>4. HasLength(f)
    BY <1>4, <2>3 DEF h, n
  <2> QED
    BY <1>13, <2>2, <2>4 DEF all
<1>15. CASE /\ \A j \in 1 .. n : ~IsGoodLength(h[j])
            /\ V(1) = IF \E j \in 1 .. n : IsContentLength(h[j]) THEN 0 ELSE NoLength
  <2>1. Len(f.content) = 0
    <3>1. f.content = << >>
      BY <1>3, <1>15 DEF h, n
    <3> QED
      BY <3>1
  <2>2. V(1) = IF HasLength(f) THEN 0 ELSE NoLength
    BY <1>4, <1>15 DEF h, n
  <2> QED
    BY <1>13, <2>1, <2>2 DEF all
<1> HIDE DEF First
<1> QED
  BY <1>12, <1>14, <1>15

-----------------------------------------------------------------------------
(* The stream of a client. *)

Frames == {f \in Frame : WellFramed(f)}
FirstFrames(s, n) == StreamBytes(SubSeq(s, 1, n))
LastFrames(s, n) == StreamBytes(SubSeq(s, n + 1, Len(s)))

LEMMA StreamsAreFrames ==
    ASSUME SessionAssumption, FramesAssumption, NEW s \in Streams
    PROVE  s \in Seq(Frames) /\ BytesOf[s] = StreamBytes(s)
<1>1. s \in Seq(Frame) /\ \A i \in 1 .. Len(s) : WellFramed(s[i])
  BY DEF SessionAssumption, FramesAssumption
<1> DEFINE R == Frame
           Q == Frames
           n == Len(s)
<1>2. s \in [1 .. n -> R] /\ n \in Nat
  <2> HIDE DEF R
  <2>1. s \in Seq(R)
    BY <1>1 DEF R
  <2> QED
    BY <2>1, LenProperties
<1>3. \A i \in 1 .. n : s[i] \in Q
  <2>1. \A i \in 1 .. n : s[i] \in Frame
    BY <1>2
  <2> QED
    BY <1>1, <2>1 DEF Frames
<1>4. s \in Seq(Q)
  <2> HIDE DEF R, Q, n
  <2>1. s \in [1 .. n -> Q]
    BY <1>2, <1>3
  <2> QED
    BY <1>2, <2>1, SeqDef
<1> QED
  BY <1>4 DEF BytesOf

LEMMA BytesOfFrame ==
    ASSUME NEW f \in Frames
    PROVE  /\ FrameBytes(f) = HeaderBytes(f) \o f.content
           /\ HeaderBytes(f) \in Seq(FrameByte) /\ f.content \in Seq(FrameByte)
           /\ FrameBytes(f) \in Seq(FrameByte)
           /\ Len(HeaderBytes(f)) \in Nat \ {0} /\ Len(f.content) \in Nat
           /\ Len(FrameBytes(f)) = Len(HeaderBytes(f)) + Len(f.content)
<1>1. f \in Frame /\ WellFramed(f)
  BY DEF Frames
<1>2. FrameBytes(f) = HeaderBytes(f) \o f.content
  BY DEF FrameBytes, HeaderBytes, HeaderLines
<1>3. f.content \in Seq(FrameByte) /\ Len(f.content) \in Nat
  BY <1>1, FrameFacts
<1>4. PICK q : IsHeader(f, HeaderBytes(f), q)
  BY <1>1, HeaderPlaces
<1>5. HeaderBytes(f) \in Seq(FrameByte)
  BY <1>4 DEF IsHeader
<1>6. Len(HeaderBytes(f)) \in Nat \ {0}
  BY <1>1, <1>4, HeaderEnds
<1>7. /\ HeaderBytes(f) \o f.content \in Seq(FrameByte)
      /\ Len(HeaderBytes(f) \o f.content) = Len(HeaderBytes(f)) + Len(f.content)
  BY <1>3, <1>5, Joined
<1> QED
  BY <1>2, <1>3, <1>5, <1>6, <1>7

\* The bytes of each frame.
LEMMA FramePieces ==
    ASSUME NEW s \in Seq(Frames)
    PROVE  [i \in 1 .. Len(s) |-> FrameBytes(s[i])] \in Seq(Seq(FrameByte))
<1> DEFINE n == Len(s)
           f == [i \in 1 .. n |-> FrameBytes(s[i])]
           R == Seq(FrameByte)
<1>1. n \in Nat /\ \A i \in 1 .. n : s[i] \in Frames
  BY LenProperties, ElementOfSeq
<1>2. \A i \in 1 .. n : FrameBytes(s[i]) \in R
  BY <1>1, BytesOfFrame
<1>3. f \in [1 .. n -> R]
  BY <1>2
<1>4. f \in Seq(R)
  <2> HIDE DEF f, R, n
  <2> QED
    BY <1>1, <1>3, SeqDef
<1> QED
  BY <1>4

LEMMA StreamConcat ==
    ASSUME NEW s \in Seq(Frames), NEW t \in Seq(Frames)
    PROVE  /\ StreamBytes(s) \in Seq(FrameByte)
           /\ StreamBytes(s \o t) = StreamBytes(s) \o StreamBytes(t)
<1> DEFINE B(p) == [i \in 1 .. Len(p) |-> FrameBytes(p[i])]
<1>1. B(s) \in Seq(Seq(FrameByte)) /\ B(t) \in Seq(Seq(FrameByte))
  BY FramePieces
<1>2. B(s \o t) = B(s) \o B(t)
  <2> DEFINE m == Len(s)
             n == Len(t)
             u == s \o t
             x == B(u)
             a == B(s)
             b == B(t)
             y == a \o b
             R == Seq(FrameByte)
  <2>1. /\ m \in Nat /\ n \in Nat /\ Len(u) = m + n
        /\ \A i \in 1 .. m : u[i] = s[i]
        /\ \A i \in m + 1 .. m + n : u[i] = t[i - m]
        /\ u \in Seq(Frames)
    BY Joined
  <2>2. a \in Seq(R) /\ b \in Seq(R) /\ Len(a) = m /\ Len(b) = n
        /\ (\A i \in 1 .. m : a[i] = FrameBytes(s[i])) /\ (\A i \in 1 .. n : b[i] = FrameBytes(t[i]))
    BY <1>1, <2>1
  <2>3. x \in Seq(R) /\ Len(x) = m + n /\ \A i \in 1 .. m + n : x[i] = FrameBytes(u[i])
    <3> HIDE DEF u, m, n
    <3>1. x \in Seq(R)
      BY <2>1, FramePieces
    <3>2. Len(x) = Len(u) /\ \A i \in 1 .. Len(u) : x[i] = FrameBytes(u[i])
      <4> DEFINE k == Len(u)
      <4>1. x = [i \in 1 .. k |-> FrameBytes(u[i])] /\ k \in Nat
        BY <2>1
      <4> HIDE DEF x, k
      <4> QED
        BY <4>1 DEF k
    <3> HIDE DEF x
    <3> QED
      BY <2>1, <3>1, <3>2
  <2> HIDE DEF a, b, x, R, u
  <2>4. /\ y \in Seq(R) /\ Len(y) = Len(a) + Len(b)
        /\ \A i \in 1 .. Len(a) : y[i] = a[i]
        /\ \A i \in Len(a) + 1 .. Len(a) + Len(b) : y[i] = b[i - Len(a)]
    BY <2>2, Joined, ZenonT(40)
  <2> HIDE DEF y, m, n
  <2>5. ASSUME NEW i \in 1 .. m + n PROVE x[i] = y[i]
    <3>1. CASE i <= m
      <4>1. i \in 1 .. m
        BY <3>1
      <4> QED
        BY <2>1, <2>2, <2>3, <2>4, <4>1
    <3>2. CASE i > m
      <4>1. i \in m + 1 .. m + n /\ i - m \in 1 .. n
        BY <2>1, <3>2
      <4>2. u[i] = t[i - m] /\ y[i] = b[i - m] /\ b[i - m] = FrameBytes(t[i - m])
        BY <2>1, <2>2, <2>4, <4>1
      <4> QED
        BY <2>3, <4>2
    <3>3. i <= m \/ i > m
      BY <2>1
    <3> QED
      BY <3>1, <3>2, <3>3, Zenon
  <2>6. Len(y) = m + n
    BY <2>2, <2>4
  <2>7. x = y
    BY <2>3, <2>4, <2>5, <2>6, SeqEqual
  <2> QED
    BY <2>7 DEF x, y, a, b, u
<1> HIDE DEF B
<1>3. /\ FlattenSeq(B(s)) \in Seq(FrameByte)
      /\ FlattenSeq(B(s) \o B(t)) = FlattenSeq(B(s)) \o FlattenSeq(B(t))
  BY <1>1, FlattenConcat
<1> QED
  BY <1>2, <1>3 DEF StreamBytes, B

LEMMA StreamOfOne == ASSUME NEW f \in Frames PROVE StreamBytes(<<f>>) = FrameBytes(f)
<1> DEFINE g == FrameBytes(f)
<1>1. [i \in 1 .. Len(<<f>>) |-> FrameBytes(<<f>>[i])] = <<g>>
  OBVIOUS
<1>2. g \in Seq(FrameByte)
  BY BytesOfFrame
<1>3. <<g>> \in Seq(Seq(FrameByte)) /\ Len(<<g>>) = 1 /\ <<g>>[1] = g
  <2> DEFINE R == Seq(FrameByte)
  <2> HIDE DEF R, g
  <2> QED
    BY <1>2 DEF R
<1> HIDE DEF g
<1>4. PICK c \in [0 .. 1 -> Seq(FrameByte)] :
         c[0] = << >> /\ (\A k \in 1 .. 1 : c[k] = c[k - 1] \o <<g>>[k]) /\ FlattenSeq(<<g>>) = c[1]
  <2> DEFINE s == <<g>>
  <2>1. s \in Seq(Seq(FrameByte)) /\ Len(s) = 1
    BY <1>3
  <2> HIDE DEF s
  <2>2. Flattenings(FrameByte, s) # {}
    BY <2>1, Flattened
  <2>3. PICK c : c \in Flattenings(FrameByte, s)
    BY <2>2
  <2>4. /\ c \in [0 .. 1 -> Seq(FrameByte)] /\ c[0] = << >>
        /\ \A k \in 1 .. 1 : c[k] = c[k - 1] \o s[k]
        /\ FlattenSeq(s) = c[1]
    BY <2>1, <2>3 DEF Flattenings
  <2> QED
    BY <2>4 DEF s
<1>5. c[1] = << >> \o g
  <2>1. 1 \in 1 .. 1 /\ 1 - 1 = 0
    OBVIOUS
  <2> QED
    BY <1>3, <1>4, <2>1
<1>6. << >> \o g = g
  BY <1>2, ConcatEmptySeq
<1> QED
  BY <1>1, <1>4, <1>5, <1>6 DEF StreamBytes, g

LEMMA StreamOfNone == StreamBytes(<< >>) = << >>
<1>1. [i \in 1 .. Len(<< >>) |-> FrameBytes(<< >>[i])] = << >>
  OBVIOUS
<1> QED
  BY <1>1 DEF StreamBytes, FlattenSeq

\* The frames up to one, and those from it on.
LEMMA StreamParts ==
    ASSUME NEW s \in Seq(Frames), NEW n \in 0 .. Len(s)
    PROVE  /\ FirstFrames(s, n) \in Seq(FrameByte) /\ LastFrames(s, n) \in Seq(FrameByte)
           /\ Len(FirstFrames(s, n)) \in Nat
           /\ n = 0 => Len(FirstFrames(s, n)) = 0 /\ LastFrames(s, n) = StreamBytes(s)
           /\ n = Len(s) => LastFrames(s, n) = << >>
           /\ n < Len(s) =>
                /\ s[n + 1] \in Frames
                /\ LastFrames(s, n) = FrameBytes(s[n + 1]) \o LastFrames(s, n + 1)
                /\ Len(FirstFrames(s, n + 1)) = Len(FirstFrames(s, n)) + Len(FrameBytes(s[n + 1]))
<1> DEFINE m == Len(s)
<1>0. m \in Nat /\ n \in Nat /\ n <= m /\ \A i \in 1 .. m : s[i] \in Frames
  BY LenProperties, ElementOfSeq
<1>1. ASSUME NEW k \in 0 .. m
      PROVE  /\ SubSeq(s, 1, k) \in Seq(Frames) /\ Len(SubSeq(s, 1, k)) = k
             /\ \A i \in 1 .. k : SubSeq(s, 1, k)[i] = s[i]
             /\ SubSeq(s, k + 1, m) \in Seq(Frames) /\ Len(SubSeq(s, k + 1, m)) = m - k
             /\ \A i \in 1 .. m - k : SubSeq(s, k + 1, m)[i] = s[k + i]
  <2>1. k \in Nat /\ 1 \in Nat /\ k + 1 \in Nat /\ 1 <= 1 /\ 1 <= k + 1 /\ k <= m /\ k + 1 <= m + 1
        /\ k - 1 + 1 = k /\ m - (k + 1) + 1 = m - k
        /\ (\A i \in Nat : 1 + i - 1 = i) /\ (\A i \in Nat : (k + 1) + i - 1 = k + i)
    BY <1>0
  <2>2. /\ SubSeq(s, 1, k) \in Seq(Frames) /\ Len(SubSeq(s, 1, k)) = k - 1 + 1
        /\ \A i \in 1 .. k - 1 + 1 : SubSeq(s, 1, k)[i] = s[1 + i - 1]
    BY <2>1, PartOfSeq
  <2>3. /\ SubSeq(s, k + 1, m) \in Seq(Frames) /\ Len(SubSeq(s, k + 1, m)) = m - (k + 1) + 1
        /\ \A i \in 1 .. m - (k + 1) + 1 : SubSeq(s, k + 1, m)[i] = s[(k + 1) + i - 1]
    <3> DEFINE a == k + 1
    <3>1. m <= Len(s) /\ m \in Nat /\ a \in Nat /\ 1 <= a /\ a <= m + 1
      BY <1>0, <2>1
    <3> HIDE DEF a, m
    <3>2. /\ SubSeq(s, a, m) \in Seq(Frames) /\ Len(SubSeq(s, a, m)) = m - a + 1
          /\ \A i \in 1 .. m - a + 1 : SubSeq(s, a, m)[i] = s[a + i - 1]
      BY <3>1, PartOfSeq
    <3> QED
      BY <3>2 DEF a
  <2>4. ASSUME NEW i \in 1 .. k PROVE SubSeq(s, 1, k)[i] = s[i]
    <3>1. SubSeq(s, 1, k)[i] = s[1 + i - 1] /\ 1 + i - 1 = i
      BY <2>1, <2>2
    <3> QED
      BY <3>1
  <2>5. ASSUME NEW i \in 1 .. m - k PROVE SubSeq(s, k + 1, m)[i] = s[k + i]
    <3>1. i \in 1 .. m - (k + 1) + 1 /\ (k + 1) + i - 1 = k + i
      BY <1>0, <2>1
    <3>2. SubSeq(s, k + 1, m)[i] = s[(k + 1) + i - 1]
      BY <2>3, <3>1
    <3> QED
      BY <3>1, <3>2
  <2> QED
    BY <2>1, <2>2, <2>3, <2>4, <2>5
<1> DEFINE F(k) == SubSeq(s, 1, k)
           L(k) == SubSeq(s, k + 1, m)
<1>2. \A k \in 0 .. m : FirstFrames(s, k) = StreamBytes(F(k)) /\ LastFrames(s, k) = StreamBytes(L(k))
  BY DEF FirstFrames, LastFrames
<1>3. \A k \in 0 .. m : F(k) \in Seq(Frames) /\ Len(F(k)) = k /\ (\A i \in 1 .. k : F(k)[i] = s[i])
        /\ L(k) \in Seq(Frames) /\ Len(L(k)) = m - k /\ \A i \in 1 .. m - k : L(k)[i] = s[k + i]
  BY <1>1
<1> HIDE DEF F, L, m
<1>4. ASSUME NEW k \in 0 .. m
      PROVE  /\ FirstFrames(s, k) \in Seq(FrameByte) /\ LastFrames(s, k) \in Seq(FrameByte)
             /\ Len(FirstFrames(s, k)) \in Nat
  <2>1. FirstFrames(s, k) \in Seq(FrameByte) /\ LastFrames(s, k) \in Seq(FrameByte)
    BY <1>2, <1>3, StreamConcat
  <2> QED
    BY <2>1, LenProperties
<1>5. ASSUME n = 0 PROVE Len(FirstFrames(s, n)) = 0 /\ LastFrames(s, n) = StreamBytes(s)
  <2>1. F(0) = << >>
    BY <1>0, <1>3, EmptySeq
  <2>2. L(0) = s
    <3>1. L(0) \in Seq(Frames) /\ Len(L(0)) = m /\ \A i \in 1 .. m : L(0)[i] = s[i]
      BY <1>0, <1>3, SMTT(30)
    <3> QED
      BY <3>1, SeqEqual DEF m
  <2>3. 0 \in 0 .. m
    BY <1>0
  <2> QED
    BY <1>2, <1>5, <2>1, <2>2, <2>3, StreamOfNone
<1>6. ASSUME n = m PROVE LastFrames(s, n) = << >>
  <2>1. m \in 0 .. m /\ m - m = 0
    BY <1>0
  <2>2. L(m) = << >>
    BY <1>3, <2>1, EmptySeq
  <2> QED
    BY <1>2, <1>6, <2>1, <2>2, StreamOfNone
<1>7. ASSUME n < m
      PROVE  /\ s[n + 1] \in Frames
             /\ LastFrames(s, n) = FrameBytes(s[n + 1]) \o LastFrames(s, n + 1)
             /\ Len(FirstFrames(s, n + 1)) = Len(FirstFrames(s, n)) + Len(FrameBytes(s[n + 1]))
  <2> DEFINE f == s[n + 1]
             one == <<f>>
             k == n + 1
  <2>1. n \in 0 .. m /\ k \in 0 .. m /\ k \in 1 .. m /\ m - n = 1 + (m - k) /\ k = n + 1 /\ m - k \in Nat
    BY <1>0, <1>7
  <2>2. f \in Frames
    BY <1>0, <2>1
  <2> HIDE DEF f, k
  <2>3. one \in Seq(Frames) /\ Len(one) = 1 /\ one[1] = f
    BY <2>2
  <2> HIDE DEF one
  <2>4. L(n) = one \o L(k)
    <3> DEFINE u == one \o L(k)
    <3>1. /\ u \in Seq(Frames) /\ Len(u) = 1 + (m - k)
          /\ u[1] = f
          /\ \A i \in 2 .. 1 + (m - k) : u[i] = L(k)[i - 1]
      <4>1. /\ u \in Seq(Frames) /\ Len(u) = Len(one) + Len(L(k))
            /\ \A i \in 1 .. Len(one) : u[i] = one[i]
            /\ \A i \in Len(one) + 1 .. Len(one) + Len(L(k)) : u[i] = L(k)[i - Len(one)]
        <5> DEFINE b == L(k)
        <5>1. b \in Seq(Frames)
          BY <1>3, <2>1
        <5> HIDE DEF b
        <5>2. /\ one \o b \in Seq(Frames) /\ Len(one \o b) = Len(one) + Len(b)
              /\ \A i \in 1 .. Len(one) : (one \o b)[i] = one[i]
              /\ \A i \in Len(one) + 1 .. Len(one) + Len(b) : (one \o b)[i] = b[i - Len(one)]
          BY <2>3, <5>1, Joined
        <5> QED
          BY <5>2 DEF b
      <4>2. Len(L(k)) = m - k
        BY <1>3, <2>1
      <4> HIDE DEF u
      <4> QED
        BY <2>1, <2>3, <4>1, <4>2
    <3> HIDE DEF u
    <3>2. ASSUME NEW i \in 1 .. m - n PROVE L(n)[i] = u[i]
      <4>1. L(n)[i] = s[n + i]
        BY <1>3, <2>1
      <4>2. CASE i = 1
        BY <3>1, <4>1, <4>2 DEF f
      <4>3. CASE i # 1
        <5>1. i \in 2 .. 1 + (m - k) /\ i - 1 \in 1 .. m - k /\ k + (i - 1) = n + i
          BY <2>1, <4>3, <1>0
        <5>2. u[i] = L(k)[i - 1] /\ L(k)[i - 1] = s[k + (i - 1)]
          BY <1>3, <2>1, <3>1, <5>1
        <5> QED
          BY <4>1, <5>1, <5>2
      <4> QED
        BY <4>2, <4>3
    <3>3. L(n) \in Seq(Frames) /\ Len(L(n)) = Len(u) /\ Len(L(n)) = m - n
      BY <1>3, <2>1, <3>1
    <3>4. L(n) = u
      BY <3>1, <3>2, <3>3, SeqEqual
    <3> QED
      BY <3>4 DEF u
  <2>5. F(k) = F(n) \o one
    <3> DEFINE u == F(n) \o one
    <3>1. /\ u \in Seq(Frames) /\ Len(u) = n + 1
          /\ (\A i \in 1 .. n : u[i] = F(n)[i]) /\ u[n + 1] = f
      <4>1. /\ u \in Seq(Frames) /\ Len(u) = Len(F(n)) + Len(one)
            /\ \A i \in 1 .. Len(F(n)) : u[i] = F(n)[i]
            /\ \A i \in Len(F(n)) + 1 .. Len(F(n)) + Len(one) : u[i] = one[i - Len(F(n))]
        <5> DEFINE a == F(n)
        <5>1. a \in Seq(Frames)
          BY <1>3, <2>1
        <5> HIDE DEF a
        <5>2. /\ a \o one \in Seq(Frames) /\ Len(a \o one) = Len(a) + Len(one)
              /\ \A i \in 1 .. Len(a) : (a \o one)[i] = a[i]
              /\ \A i \in Len(a) + 1 .. Len(a) + Len(one) : (a \o one)[i] = one[i - Len(a)]
          BY <2>3, <5>1, Joined
        <5> QED
          BY <5>2 DEF a
      <4>2. Len(F(n)) = n /\ n + 1 \in n + 1 .. n + 1 /\ (n + 1) - n = 1
        BY <1>0, <1>3, <2>1
      <4> HIDE DEF u
      <4> QED
        BY <2>3, <4>1, <4>2
    <3> HIDE DEF u
    <3>2. ASSUME NEW i \in 1 .. k PROVE F(k)[i] = u[i]
      <4>1. F(k)[i] = s[i]
        BY <1>3, <2>1
      <4>2. CASE i = n + 1
        BY <3>1, <4>1, <4>2 DEF f
      <4>3. CASE i # n + 1
        <5>1. i \in 1 .. n
          BY <2>1, <4>3
        <5>2. u[i] = F(n)[i] /\ F(n)[i] = s[i]
          BY <1>3, <2>1, <3>1, <5>1
        <5> QED
          BY <4>1, <5>2
      <4> QED
        BY <4>2, <4>3
    <3>3. F(k) \in Seq(Frames) /\ Len(F(k)) = Len(u) /\ Len(F(k)) = k
      BY <1>3, <2>1, <3>1
    <3>4. F(k) = u
      BY <3>1, <3>2, <3>3, SeqEqual
    <3> QED
      BY <3>4 DEF u
  <2>6. StreamBytes(one) = FrameBytes(f)
    BY <2>2, StreamOfOne DEF one
  <2>7. StreamBytes(L(n)) = FrameBytes(f) \o StreamBytes(L(k))
    BY <1>3, <2>1, <2>3, <2>4, <2>6, StreamConcat
  <2>8. StreamBytes(F(k)) = StreamBytes(F(n)) \o FrameBytes(f)
    BY <1>3, <2>1, <2>3, <2>5, <2>6, StreamConcat, ZenonT(40)
  <2>9. FrameBytes(f) \in Seq(FrameByte) /\ StreamBytes(F(n)) \in Seq(FrameByte)
    BY <1>3, <2>1, <2>2, BytesOfFrame, StreamConcat
  <2>10. Len(StreamBytes(F(k))) = Len(StreamBytes(F(n))) + Len(FrameBytes(f))
    BY <2>8, <2>9, Joined
  <2> QED
    BY <1>2, <2>1, <2>2, <2>7, <2>10 DEF f, k
<1>8. n \in 0 .. m
  BY <1>0
<1> QED
  BY <1>4, <1>5, <1>6, <1>7, <1>8 DEF m


LEMMA ContentsFacts ==
    ASSUME stream \in Seq(Frames)
    PROVE  /\ Contents(0) = << >>
           /\ \A n \in 0 .. Len(stream) : Contents(n) \in Seq(Seq(FrameByte))
           /\ \A k \in 1 .. Len(stream) :
                 Contents(k) = IF HasLength(stream[k]) THEN Append(Contents(k - 1), stream[k].content)
                               ELSE Contents(k - 1)
<1> DEFINE N == Len(stream)
           S == Seq(Seq(FrameByte))
           Value(k, x) == IF HasLength(stream[k]) THEN Append(x, stream[k].content) ELSE x
           step == [p \in (1 .. N) \X S |-> Value(p[1], p[2])]
<1>1. N \in Nat /\ \A k \in 1 .. N : stream[k].content \in Seq(FrameByte)
  <2>1. N \in Nat /\ \A k \in 1 .. N : stream[k] \in Frames
    BY LenProperties, ElementOfSeq
  <2> QED
    BY <2>1, BytesOfFrame
<1> HIDE DEF N
<1>2. \A k \in 1 .. N : \A x \in S : Value(k, x) \in S
  <2> DEFINE R == Seq(FrameByte)
  <2> SUFFICES ASSUME NEW k \in 1 .. N, NEW x \in Seq(R) PROVE Value(k, x) \in Seq(R)
    OBVIOUS
  <2>1. stream[k].content \in R
    BY <1>1
  <2> HIDE DEF R
  <2>2. Append(x, stream[k].content) \in Seq(R)
    BY <2>1, AppendProperties
  <2> QED
    BY <2>2
<1>3. << >> \in S
  BY EmptySeq
<1> HIDE DEF S, Value
<1>4. step \in [(1 .. N) \X S -> S] /\ \A k \in 1 .. N : \A x \in S : step[<<k, x>>] = Value(k, x)
  BY <1>2
<1> HIDE DEF step
<1>5. PICK c \in [0 .. N -> S] : c[0] = << >> /\ \A k \in 1 .. N : c[k] = step[<<k, c[k - 1]>>]
  <2>1. Chains(N, S, << >>, step) # {}
    BY <1>1, <1>3, <1>4, Recursion
  <2> QED
    BY <2>1 DEF Chains
<1>6. \A k \in 1 .. N : c[k] = Value(k, c[k - 1])
  <2> TAKE k \in 1 .. N
  <2>1. k - 1 \in 0 .. N
    BY <1>1
  <2> QED
    BY <1>4, <1>5, <2>1
<1>7. ASSUME NEW n \in 0 .. N PROVE Contents(n) = c[n]
  <2> DEFINE Body(g) == [k \in 0 .. n |->
                           IF k = 0 THEN << >>
                           ELSE IF HasLength(stream[k]) THEN Append(g[k - 1], stream[k].content)
                           ELSE g[k - 1]]
             contents == CHOOSE g : g = Body(g)
             d == [k \in 0 .. n |-> c[k]]
  <2>1. Contents(n) = contents[n]
    BY DEF Contents
  <2>2. ASSUME NEW k \in 0 .. n
        PROVE  d[k] = IF k = 0 THEN << >>
                      ELSE IF HasLength(stream[k]) THEN Append(d[k - 1], stream[k].content)
                      ELSE d[k - 1]
    <3>1. CASE k = 0
      BY <1>5, <3>1
    <3>2. CASE k # 0
      <4>1. k \in 1 .. N /\ k - 1 \in 0 .. n /\ k \in 0 .. n
        BY <1>1, <3>2
      <4>2. d[k] = c[k] /\ d[k - 1] = c[k - 1]
        BY <4>1
      <4> HIDE DEF d
      <4> QED
        BY <1>6, <3>2, <4>1, <4>2 DEF Value
    <3> QED
      BY <3>1, <3>2
  <2>3. d = Body(d)
    BY <2>2
  <2>4. contents = Body(contents)
    <3> HIDE DEF d, Body
    <3> QED
      BY <2>3
  <2>5. ASSUME NEW k \in 0 .. n
        PROVE  contents[k] = IF k = 0 THEN << >>
                             ELSE IF HasLength(stream[k])
                                  THEN Append(contents[k - 1], stream[k].content)
                             ELSE contents[k - 1]
    <3> HIDE DEF contents
    <3> QED
      BY <2>4
  <2> HIDE DEF contents
  <2> DEFINE P == {k \in 0 .. n : contents[k] = c[k]}
  <2>6. 0 \in P
    <3>1. 0 \in 0 .. n
      BY <1>1
    <3> QED
      BY <1>5, <2>5, <3>1
  <2>7. ASSUME NEW k \in 1 .. n, k - 1 \in P PROVE k \in P
    <3>1. k \in 0 .. n /\ k # 0 /\ k \in 1 .. N
      BY <1>1
    <3>2. contents[k - 1] = c[k - 1]
      BY <2>7
    <3>3. contents[k] = Value(k, c[k - 1])
      BY <2>5, <3>1, <3>2 DEF Value
    <3>4. c[k] = Value(k, c[k - 1])
      BY <1>6, <3>1
    <3> QED
      BY <3>1, <3>3, <3>4
  <2>8. n \in P
    <3> HIDE DEF P
    <3>1. n \in Nat /\ n \in 0 .. n
      BY <1>1
    <3>2. 0 .. n \subseteq P
      BY <2>6, <2>7, <3>1, UpTo
    <3> QED
      BY <3>1, <3>2
  <2> QED
    BY <2>1, <2>8
<1>8. Contents(0) = << >>
  <2>1. 0 \in 0 .. N
    BY <1>1
  <2> QED
    BY <1>5, <1>7, <2>1
<1>9. \A n \in 0 .. N : Contents(n) \in S
  BY <1>5, <1>7
<1>10. \A k \in 1 .. N : Contents(k) = Value(k, Contents(k - 1))
  <2> TAKE k \in 1 .. N
  <2>1. k \in 0 .. N /\ k - 1 \in 0 .. N
    BY <1>1
  <2>2. Contents(k) = c[k] /\ Contents(k - 1) = c[k - 1]
    BY <1>7, <2>1
  <2> QED
    BY <1>6, <2>2
<1> QED
  BY <1>8, <1>9, <1>10 DEF N, S, Value

\* What was handled stays, and more frames have no fewer bytes.
LEMMA ContentsGrow ==
    ASSUME stream \in Seq(Frames), NEW m \in 0 .. Len(stream), NEW n \in 0 .. m
    PROVE  /\ IsPrefix(Contents(n), Contents(m))
           /\ Len(FirstFrames(stream, n)) <= Len(FirstFrames(stream, m))
<1> DEFINE N == Len(stream)
           C(k) == Contents(k)
           E(k) == Len(FirstFrames(stream, k))
           Less(i, k) == /\ Len(C(i)) <= Len(C(k)) /\ \A x \in 1 .. Len(C(i)) : C(i)[x] = C(k)[x]
                         /\ E(i) <= E(k)
           P == {k \in 0 .. N : \A i \in 0 .. k : Less(i, k)}
           R == Seq(FrameByte)
<1>1. N \in Nat
  BY LenProperties
<1>2. \A k \in 0 .. N : C(k) \in Seq(R) /\ Len(C(k)) \in Nat /\ E(k) \in Nat
  <2> TAKE k \in 0 .. N
  <2>1. C(k) \in Seq(R)
    BY ContentsFacts
  <2>2. E(k) \in Nat
    BY StreamParts
  <2>3. Len(C(k)) \in Nat
    <3> HIDE DEF C, R
    <3> QED
      BY <2>1, LenProperties
  <2> QED
    BY <2>1, <2>2, <2>3
<1>3. ASSUME NEW k \in 1 .. N
      PROVE  /\ Len(C(k - 1)) <= Len(C(k)) /\ \A x \in 1 .. Len(C(k - 1)) : C(k - 1)[x] = C(k)[x]
             /\ E(k - 1) <= E(k)
  <2> DEFINE j == k - 1
             f == stream[k]
  <2>1. j \in 0 .. N /\ k \in 0 .. N /\ k = j + 1 /\ j < N
    BY <1>1
  <2>2. E(j) <= E(k)
    <3>1. f \in Frames /\ E(j + 1) = E(j) + Len(FrameBytes(stream[j + 1]))
      BY <2>1, StreamParts
    <3>2. Len(FrameBytes(f)) \in Nat
      <4>1. FrameBytes(f) \in Seq(FrameByte)
        BY <3>1, BytesOfFrame
      <4> QED
        BY <4>1, LenProperties
    <3> DEFINE l == Len(FrameBytes(f))
    <3>3. E(k) = E(j) + l /\ l \in Nat /\ E(j) \in Nat
      BY <1>2, <2>1, <3>1, <3>2
    <3> HIDE DEF E, l, j
    <3> QED
      BY <3>3
  <2>3. C(k) = IF HasLength(f) THEN Append(C(j), f.content) ELSE C(j)
    BY ContentsFacts
  <2>4. f.content \in R
    <3>1. f \in Frames
      BY ElementOfSeq
    <3> QED
      BY <3>1, BytesOfFrame
  <2> HIDE DEF R, f, j, C
  <2>5. CASE HasLength(f)
    <3>1. /\ Len(Append(C(j), f.content)) = Len(C(j)) + 1 /\ Len(C(j)) \in Nat
          /\ \A x \in 1 .. Len(C(j)) : Append(C(j), f.content)[x] = C(j)[x]
      BY <1>2, <2>1, <2>4, AppendProperties
    <3> QED
      BY <2>2, <2>3, <2>5, <3>1 DEF j
  <2>6. CASE ~HasLength(f)
    BY <1>2, <2>1, <2>2, <2>3, <2>6 DEF j
  <2> QED
    BY <2>5, <2>6
<1> HIDE DEF C, E, R, N
<1>4. 0 \in P
  BY <1>1, <1>2
<1>5. ASSUME NEW k \in 1 .. N, k - 1 \in P PROVE k \in P
  <2>1. k \in 0 .. N /\ k - 1 \in 0 .. N
    BY <1>1
  <2>2. ASSUME NEW i \in 0 .. k PROVE Less(i, k)
    <3>1. CASE i = k
      BY <1>2, <2>1, <3>1
    <3>2. CASE i # k
      <4>1. i \in 0 .. k - 1 /\ i \in 0 .. N
        BY <1>1, <3>2
      <4>2. Less(i, k - 1)
        BY <1>5, <4>1
      <4> DEFINE a == Len(C(i))
                 b == Len(C(k - 1))
                 d == Len(C(k))
      <4>3. a \in Nat /\ b \in Nat /\ d \in Nat /\ a <= b /\ b <= d
        BY <1>2, <1>3, <2>1, <4>1, <4>2
      <4>4. E(i) <= E(k)
        <5> DEFINE u == E(i)
                   v == E(k - 1)
                   w == E(k)
        <5>1. u \in Nat /\ v \in Nat /\ w \in Nat /\ u <= v /\ v <= w
          BY <1>2, <1>3, <2>1, <4>1, <4>2
        <5> HIDE DEF u, v, w
        <5>2. u <= w
          BY <5>1
        <5> QED
          BY <5>2 DEF u, w
      <4> HIDE DEF a, b, d
      <4>5. a <= d /\ 1 .. a \subseteq 1 .. b
        BY <4>3
      <4>6. ASSUME NEW x \in 1 .. a PROVE C(i)[x] = C(k)[x]
        <5>1. C(i)[x] = C(k - 1)[x]
          BY <4>2 DEF a
        <5>2. C(k - 1)[x] = C(k)[x]
          BY <1>3, <4>5 DEF b
        <5> QED
          BY <5>1, <5>2
      <4> QED
        BY <4>4, <4>5, <4>6 DEF a, d
    <3> QED
      BY <3>1, <3>2
  <2> HIDE DEF Less
  <2> QED
    BY <2>1, <2>2
<1>6. m \in P
  <2> HIDE DEF P
  <2>1. 0 .. N \subseteq P
    BY <1>1, <1>4, <1>5, UpTo
  <2>2. m \in 0 .. N
    BY DEF N
  <2> QED
    BY <2>1, <2>2
<1>7. Less(n, m) /\ m \in 0 .. N /\ n \in 0 .. N
  BY <1>1, <1>6 DEF N
<1>8. IsPrefix(C(n), C(m))
  <2> DEFINE s == C(n)
             t == C(m)
  <2>1. s \in Seq(R) /\ t \in Seq(R) /\ Len(s) \in Nat /\ Len(t) \in Nat /\ Len(s) <= Len(t)
        /\ \A x \in 1 .. Len(s) : s[x] = t[x]
    BY <1>2, <1>7
  <2> HIDE DEF s, t, R
  <2> DEFINE k == Len(s)
             a == SubSeq(s, 1, k)
             b == SubSeq(t, 1, k)
  <2>2. k \in Nat /\ 1 \in Nat /\ 1 <= 1 /\ 1 <= k + 1 /\ k <= Len(s) /\ k <= Len(t) /\ k - 1 + 1 = k
    BY <2>1
  <2> HIDE DEF k
  <2>3. /\ a \in Seq(R) /\ Len(a) = k - 1 + 1 /\ \A x \in 1 .. k - 1 + 1 : a[x] = s[1 + x - 1]
        /\ b \in Seq(R) /\ Len(b) = k - 1 + 1 /\ \A x \in 1 .. k - 1 + 1 : b[x] = t[1 + x - 1]
    BY <2>1, <2>2, PartOfSeq
  <2> HIDE DEF a, b
  <2>4. ASSUME NEW x \in 1 .. k PROVE a[x] = b[x]
    <3>1. 1 + x - 1 = x /\ x \in 1 .. k - 1 + 1
      BY <2>2
    <3>2. a[x] = s[x] /\ b[x] = t[x]
      BY <2>3, <3>1
    <3> QED
      BY <2>1, <3>2 DEF k
  <2>5. a = b
    BY <2>2, <2>3, <2>4, SeqEqual
  <2> QED
    BY <2>1, <2>5 DEF IsPrefix, a, b, k, s, t
<1>9. E(n) <= E(m)
  BY <1>7
<1> QED
  BY <1>8, <1>9 DEF C, E

-----------------------------------------------------------------------------
(* The invariant of the framing: some frames were handled, and the buffer with what is not read *)
(* yet is the rest of the stream, from the beginning of a frame or of its content on. *)

Unread == SubSeq(StreamBytes(stream), consumed + 1, Len(StreamBytes(stream)))

AtFrame(n) ==
    \/ /\ pending_message_content_length_ = NoLength
       /\ buffer_ \o Unread = LastFrames(stream, n)
       /\ Len(FirstFrames(stream, n)) + Len(buffer_) = consumed
    \/ /\ n < Len(stream) /\ HasLength(stream[n + 1])
       /\ pending_message_content_length_ = Len(stream[n + 1].content)
       /\ buffer_ \o Unread = stream[n + 1].content \o LastFrames(stream, n + 1)
       /\ Len(FirstFrames(stream, n)) + Len(HeaderBytes(stream[n + 1])) + Len(buffer_) = consumed

FramesInv ==
    /\ stream \in Streams /\ buffer_ \in Seq(FrameByte)
    /\ written \in 0 .. Len(StreamBytes(stream)) /\ consumed \in 0 .. written
    /\ \E n \in 0 .. Len(stream) : handler.handled = Contents(n) /\ AtFrame(n)
    /\ Settled => ~CanParse

LEMMA FramesFacts ==
    ASSUME SessionAssumption, FramesAssumption, FramesInv
    PROVE  /\ stream \in Seq(Frames) /\ Len(stream) \in Nat /\ BytesOf[stream] = StreamBytes(stream)
           /\ StreamBytes(stream) \in Seq(FrameByte) /\ Len(StreamBytes(stream)) \in Nat
           /\ Unread \in Seq(FrameByte) /\ Len(buffer_) \in Nat
<1>1. stream \in Seq(Frames) /\ BytesOf[stream] = StreamBytes(stream)
  BY StreamsAreFrames DEF FramesInv
<1>2. Len(stream) \in Nat /\ Len(buffer_) \in Nat
  <2>1. Len(stream) \in Nat
    BY <1>1, LenProperties
  <2>2. buffer_ \in Seq(FrameByte)
    BY DEF FramesInv
  <2> QED
    BY <2>1, <2>2, LenProperties
<1> DEFINE all == StreamBytes(stream)
           e == Len(all)
<1>3. all \in Seq(FrameByte)
  BY <1>1, StreamConcat
<1>4. e \in Nat
  BY <1>3, LenProperties
<1>5. Unread \in Seq(FrameByte)
  <2> DEFINE a == consumed + 1
  <2>1. a \in Nat /\ 1 <= a /\ a <= e + 1 /\ e <= Len(all)
    BY <1>4 DEF FramesInv
  <2> HIDE DEF all, e, a
  <2>2. SubSeq(all, a, e) \in Seq(FrameByte)
    BY <1>3, <1>4, <2>1, PartOfSeq
  <2> QED
    BY <2>2 DEF Unread, all, e, a
<1> QED
  BY <1>1, <1>2, <1>3, <1>4, <1>5

\* A buffer that begins with a frame has its headers in front, when they are there in full.
LEMMA FrameInFront ==
    ASSUME NEW f \in Frames, NEW buffer \in Seq(FrameByte), NEW more \in Seq(FrameByte),
           NEW last \in Seq(FrameByte), buffer \o more = FrameBytes(f) \o last
    PROVE  LET e == Len(HeaderBytes(f))
               after == SubSeq(buffer, e + 1, Len(buffer))
           IN  /\ e \in Nat \ {0}
               /\ FindContentBegin(buffer, 1) = IF Len(buffer) >= e THEN e + 1 ELSE 0
               /\ Len(buffer) >= e =>
                     /\ SubSeq(buffer, 1, e) = HeaderBytes(f)
                     /\ after \in Seq(FrameByte) /\ Len(after) = Len(buffer) - e
                     /\ after \o more = f.content \o last
<1> DEFINE h == HeaderBytes(f)
           c == f.content
           rest == c \o last
<1>1. /\ FrameBytes(f) = h \o c /\ h \in Seq(FrameByte) /\ c \in Seq(FrameByte)
      /\ Len(h) \in Nat \ {0} /\ f \in Frame /\ WellFramed(f)
  BY BytesOfFrame DEF Frames
<1> HIDE DEF h, c
<1>2. rest \in Seq(FrameByte)
  BY <1>1, Joined
<1>3. (h \o c) \o last = h \o rest
  <2>1. h \in Seq(FrameByte) /\ c \in Seq(FrameByte) /\ last \in Seq(FrameByte)
    BY <1>1
  <2> HIDE DEF rest
  <2>2. (h \o c) \o last = h \o (c \o last)
    BY <2>1, ConcatAssociative, SMTT(30)
  <2> QED
    BY <2>2 DEF rest
<1> HIDE DEF rest
<1>4. buffer \o more = h \o rest
  BY <1>1, <1>3
<1>5. FindContentBegin(buffer, 1) = IF Len(buffer) >= Len(h) THEN Len(h) + 1 ELSE 0
  BY <1>1, <1>2, <1>4, ContentBegins DEF h
<1>6. Len(buffer) >= Len(h) =>
        /\ SubSeq(buffer, 1, Len(h)) = h
        /\ SubSeq(buffer, Len(h) + 1, Len(buffer)) \in Seq(FrameByte)
        /\ SubSeq(buffer, Len(h) + 1, Len(buffer)) \o more = rest
        /\ Len(SubSeq(buffer, Len(h) + 1, Len(buffer))) = Len(buffer) - Len(h)
  <2> SUFFICES ASSUME Len(buffer) >= Len(h)
               PROVE  /\ SubSeq(buffer, 1, Len(h)) = h
                      /\ SubSeq(buffer, Len(h) + 1, Len(buffer)) \in Seq(FrameByte)
                      /\ SubSeq(buffer, Len(h) + 1, Len(buffer)) \o more = rest
                      /\ Len(SubSeq(buffer, Len(h) + 1, Len(buffer))) = Len(buffer) - Len(h)
    OBVIOUS
  <2>1. h \in Seq(FrameByte) /\ rest \in Seq(FrameByte)
    BY <1>1, <1>2
  <2>2. SubSeq(buffer, 1, Len(h)) = h
    BY <1>4, <2>1, CutLonger
  <2>3. SubSeq(buffer, Len(h) + 1, Len(buffer)) \in Seq(FrameByte)
    BY <1>4, <2>1, CutLonger
  <2>4. SubSeq(buffer, Len(h) + 1, Len(buffer)) \o more = rest
    BY <1>4, <2>1, RearMeets
  <2>5. Len(SubSeq(buffer, Len(h) + 1, Len(buffer))) = Len(buffer) - Len(h)
    BY <1>4, <2>1, CutLonger
  <2> QED
    BY <2>2, <2>3, <2>4, <2>5
<1> QED
  BY <1>1, <1>5, <1>6 DEF h, c, rest

\* At the beginning of a frame the headers are found when they are there in full.
LEMMA AtHeaders ==
    ASSUME SessionAssumption, FramesAssumption, FramesInv, NEW n \in 0 .. Len(stream),
           pending_message_content_length_ = NoLength,
           buffer_ \o Unread = LastFrames(stream, n)
    PROVE  /\ ~ContentIsPending
           /\ n = Len(stream) => ~HeadersAreComplete
           /\ n < Len(stream) =>
                LET f == stream[n + 1]
                    e == Len(HeaderBytes(f))
                IN  /\ f \in Frames /\ e \in Nat \ {0}
                    /\ HeadersAreComplete <=> Len(buffer_) >= e
                    /\ HeadersAreComplete => FindContentBegin(buffer_, 1) = e + 1
                    /\ Len(buffer_) >= e =>
                         LET after == SubSeq(buffer_, e + 1, Len(buffer_))
                         IN  /\ SubSeq(buffer_, 1, e) = HeaderBytes(f)
                             /\ after \in Seq(FrameByte) /\ Len(after) = Len(buffer_) - e
                             /\ after \o Unread = f.content \o LastFrames(stream, n + 1)
<1>1. stream \in Seq(Frames) /\ Len(stream) \in Nat
      /\ Unread \in Seq(FrameByte) /\ buffer_ \in Seq(FrameByte) /\ Len(buffer_) \in Nat
  BY FramesFacts DEF FramesInv
<1>2. ~ContentIsPending
  BY DEF ContentIsPending
<1>3. ASSUME n = Len(stream) PROVE ~HeadersAreComplete
  <2>1. buffer_ \o Unread = << >>
    BY <1>1, <1>3, StreamParts
  <2> DEFINE b == buffer_
             u == Unread
  <2>2. b \in Seq(FrameByte) /\ u \in Seq(FrameByte) /\ b \o u = << >>
    BY <1>1, <2>1
  <2> HIDE DEF b, u
  <2>3. Len(b) = 0
    <3>1. Len(b \o u) = Len(b) + Len(u) /\ Len(b) \in Nat /\ Len(u) \in Nat
      BY <2>2, Joined
    <3>2. Len(<< >>) = 0
      OBVIOUS
    <3> QED
      BY <2>2, <3>1, <3>2
  <2>4. b = << >>
    BY <2>2, <2>3, EmptySeq
  <2> QED
    BY <2>4, NothingBegins DEF HeadersAreComplete, b
<1>4. ASSUME n < Len(stream)
      PROVE  LET f == stream[n + 1]
                 e == Len(HeaderBytes(f))
             IN  /\ f \in Frames /\ e \in Nat \ {0}
                 /\ HeadersAreComplete <=> Len(buffer_) >= e
                 /\ HeadersAreComplete => FindContentBegin(buffer_, 1) = e + 1
                 /\ Len(buffer_) >= e =>
                      LET after == SubSeq(buffer_, e + 1, Len(buffer_))
                      IN  /\ SubSeq(buffer_, 1, e) = HeaderBytes(f)
                          /\ after \in Seq(FrameByte) /\ Len(after) = Len(buffer_) - e
                          /\ after \o Unread = f.content \o LastFrames(stream, n + 1)
  <2> DEFINE f == stream[n + 1]
             e == Len(HeaderBytes(f))
             after == SubSeq(buffer_, e + 1, Len(buffer_))
             last == LastFrames(stream, n + 1)
  <2>1. f \in Frames /\ LastFrames(stream, n) = FrameBytes(f) \o last
    BY <1>1, <1>4, StreamParts
  <2>2. last \in Seq(FrameByte)
    <3>1. n + 1 \in 0 .. Len(stream)
      BY <1>1, <1>4
    <3> QED
      BY <1>1, <3>1, StreamParts
  <2>3. buffer_ \o Unread = FrameBytes(f) \o last
    BY <2>1
  <2> HIDE DEF f, last
  <2>4. /\ e \in Nat \ {0}
        /\ FindContentBegin(buffer_, 1) = IF Len(buffer_) >= e THEN e + 1 ELSE 0
        /\ Len(buffer_) >= e =>
              /\ SubSeq(buffer_, 1, e) = HeaderBytes(f)
              /\ after \in Seq(FrameByte) /\ Len(after) = Len(buffer_) - e
              /\ after \o Unread = f.content \o last
    BY <1>1, <2>1, <2>2, <2>3, FrameInFront
  <2>5. HeadersAreComplete <=> FindContentBegin(buffer_, 1) # 0
    BY <1>2 DEF HeadersAreComplete
  <2>6. (HeadersAreComplete <=> Len(buffer_) >= e)
        /\ (HeadersAreComplete => FindContentBegin(buffer_, 1) = e + 1)
    BY <2>4, <2>5
  <2> QED
    BY <2>1, <2>4, <2>6 DEF f, last
<1> QED
  BY <1>2, <1>3, <1>4

\* When nothing more can be parsed, all frames that were read in full were handled.
LEMMA FramesAreRead ==
    ASSUME SessionAssumption, FramesAssumption, FramesInv
    PROVE  FramesAreHandledOnce
<1>1. stream \in Seq(Frames) /\ Len(stream) \in Nat /\ Len(buffer_) \in Nat
  BY FramesFacts
<1>2. PICK n \in 0 .. Len(stream) : handler.handled = Contents(n) /\ AtFrame(n)
  BY DEF FramesInv
<1> DEFINE E(k) == Len(FirstFrames(stream, k))
           M == {k \in 0 .. Len(stream) : Complete(k)}
           max == Max(M)
           b == Len(buffer_)
<1>3. \A k \in 0 .. Len(stream) : (Complete(k) <=> E(k) <= consumed) /\ E(k) \in Nat
  BY <1>1, StreamParts DEF Complete, FirstFrames
<1>4. consumed \in Nat
  <2>1. Len(StreamBytes(stream)) \in Nat
    BY FramesFacts
  <2> QED
    BY <2>1 DEF FramesInv
<1> HIDE DEF E, b
<1>5. n < Len(stream) =>
        /\ n + 1 \in 0 .. Len(stream)
        /\ stream[n + 1] \in Frames
        /\ Len(HeaderBytes(stream[n + 1])) \in Nat /\ Len(stream[n + 1].content) \in Nat
        /\ E(n + 1) = E(n) + (Len(HeaderBytes(stream[n + 1])) + Len(stream[n + 1].content))
  <2> SUFFICES ASSUME n < Len(stream)
               PROVE  /\ n + 1 \in 0 .. Len(stream)
                      /\ stream[n + 1] \in Frames
                      /\ Len(HeaderBytes(stream[n + 1])) \in Nat /\ Len(stream[n + 1].content) \in Nat
                      /\ E(n + 1) = E(n) + (Len(HeaderBytes(stream[n + 1])) + Len(stream[n + 1].content))
    OBVIOUS
  <2>1. n + 1 \in 0 .. Len(stream)
    BY <1>1
  <2>2. stream[n + 1] \in Frames /\ E(n + 1) = E(n) + Len(FrameBytes(stream[n + 1]))
    BY <1>1, StreamParts DEF E
  <2>3. /\ Len(HeaderBytes(stream[n + 1])) \in Nat /\ Len(stream[n + 1].content) \in Nat
        /\ Len(FrameBytes(stream[n + 1])) = Len(HeaderBytes(stream[n + 1])) + Len(stream[n + 1].content)
    BY <2>2, BytesOfFrame
  <2> QED
    BY <2>1, <2>2, <2>3
<1>6. Complete(n)
  <2>1. E(n) <= consumed
    <3>1. CASE E(n) + b = consumed
      BY <1>1, <1>3, <1>4, <3>1 DEF b
    <3>2. CASE n < Len(stream) /\ E(n) + Len(HeaderBytes(stream[n + 1])) + b = consumed
      <4> DEFINE x == E(n)
                 y == Len(HeaderBytes(stream[n + 1]))
      <4>1. x \in Nat /\ y \in Nat /\ b \in Nat /\ x + y + b = consumed
        BY <1>1, <1>3, <1>5, <3>2 DEF b
      <4> HIDE DEF x, y
      <4>2. x <= consumed
        BY <4>1
      <4> QED
        BY <4>2 DEF x
    <3>3. \/ E(n) + b = consumed
          \/ n < Len(stream) /\ E(n) + Len(HeaderBytes(stream[n + 1])) + b = consumed
      BY <1>2 DEF AtFrame, E, b
    <3> QED
      BY <3>1, <3>2, <3>3
  <2> QED
    BY <1>3, <2>1
<1>7. ASSUME Settled, n < Len(stream) PROVE ~Complete(n + 1)
  <2> DEFINE h == Len(HeaderBytes(stream[n + 1]))
             c == Len(stream[n + 1].content)
             x == E(n)
             y == E(n + 1)
  <2>1. h \in Nat /\ c \in Nat /\ b \in Nat /\ x \in Nat /\ y = x + (h + c) /\ n + 1 \in 0 .. Len(stream)
    BY <1>1, <1>3, <1>5, <1>7 DEF b
  <2>2. ~CanParse
    BY <1>7 DEF FramesInv
  <2>3. CASE pending_message_content_length_ = NoLength
    <3>1. x + b = consumed /\ buffer_ \o Unread = LastFrames(stream, n)
      <4>1. c # NoLength
        BY <2>1, HeadersAssumption DEF HeadersAssumption
      <4> QED
        BY <1>2, <2>3, <4>1 DEF AtFrame, E, b
    <3>2. HeadersAreComplete <=> b >= h
      BY <1>7, <2>3, <3>1, AtHeaders DEF b
    <3>3. ~(b >= h)
      BY <2>2, <3>2 DEF CanParse
    <3> HIDE DEF x, y, h, c
    <3>4. ~(y <= consumed)
      BY <1>4, <2>1, <3>1, <3>3
    <3> QED
      BY <1>3, <2>1, <3>4 DEF y
  <2>4. CASE pending_message_content_length_ # NoLength
    <3>1. x + h + b = consumed /\ pending_message_content_length_ = c
      BY <1>2, <2>4 DEF AtFrame, E, b
    <3>2. ~(b >= c)
      BY <2>2, <2>4, <3>1 DEF CanParse, ContentIsComplete, ContentIsPending, b
    <3> HIDE DEF x, y, h, c
    <3>3. ~(y <= consumed)
      BY <1>4, <2>1, <3>1, <3>2
    <3> QED
      BY <1>3, <2>1, <3>3 DEF y
  <2> QED
    BY <2>3, <2>4
<1>8. max \in M /\ \A k \in M : max >= k
  <2> DEFINE O == {l \in 0 .. Len(stream) : \A k \in M : l >= k}
  <2>1. O \subseteq Nat /\ Len(stream) \in O
    BY <1>1
  <2>2. PICK l \in O : \A k \in O : l <= k
    <3> HIDE DEF O
    <3> QED
      BY <2>1, LeastIsThere
  <2>3. l \in 0 .. Len(stream) /\ \A k \in M : l >= k
    OBVIOUS
  <2>4. n \in M
    BY <1>6
  <2>5. l \in M
    <3> SUFFICES ASSUME l \notin M PROVE FALSE
      OBVIOUS
    <3>1. \A k \in M : k \in 0 .. Len(stream) /\ k <= l /\ k # l
      BY <2>3
    <3>2. \A k \in M : l - 1 >= k
      BY <1>1, <2>3, <3>1
    <3>3. l - 1 \in 0 .. Len(stream)
      BY <1>1, <2>3, <2>4, <3>1
    <3>4. l - 1 \in O
      BY <3>2, <3>3
    <3>5. l <= l - 1
      <4> HIDE DEF O
      <4> QED
        BY <2>2, <3>4
    <3> QED
      BY <2>3, <3>5
  <2> HIDE DEF M, O
  <2> QED
    BY <2>3, <2>5 DEF Max
<1> HIDE DEF max
<1>9. max \in 0 .. Len(stream) /\ Complete(max) /\ max >= n
  BY <1>6, <1>8
<1>10. ASSUME Settled PROVE max = n
  <2> SUFFICES ASSUME max > n PROVE FALSE
    BY <1>1, <1>9
  <2>1. n < Len(stream) /\ n + 1 \in 0 .. max /\ n + 1 \in 0 .. Len(stream)
    BY <1>1, <1>9
  <2>2. E(n + 1) <= E(max)
    <3> DEFINE k == n + 1
    <3>1. k \in 0 .. max
      BY <2>1
    <3> HIDE DEF k
    <3>2. Len(FirstFrames(stream, k)) <= Len(FirstFrames(stream, max))
      BY <1>1, <1>9, <3>1, ContentsGrow
    <3> QED
      BY <3>2 DEF E, k
  <2>3. ~Complete(n + 1)
    BY <1>7, <1>10, <2>1
  <2> DEFINE x == E(n + 1)
             y == E(max)
  <2>4. x \in Nat /\ y \in Nat /\ x <= y /\ y <= consumed /\ ~(x <= consumed)
    BY <1>3, <1>9, <2>1, <2>2, <2>3
  <2> HIDE DEF x, y
  <2> QED
    BY <1>4, <2>4
<1>11. IsPrefix(Contents(n), Contents(max))
  <2>1. n \in 0 .. max
    BY <1>9
  <2> QED
    BY <1>1, <1>9, <2>1, ContentsGrow
<1> QED
  BY <1>2, <1>10, <1>11 DEF FramesAreHandledOnce, max, M

-----------------------------------------------------------------------------
(* Steps of the framing. *)

LEMMA FramesInit ==
    ASSUME SessionAssumption, FramesAssumption, Init
    PROVE  FramesInv
<1>1. /\ stream \in Streams /\ buffer_ = << >> /\ pending_message_content_length_ = NoLength
      /\ written = 0 /\ consumed = 0 /\ handler.handled = << >>
  BY DEF Init, InitParser
<1>2. stream \in Seq(Frames)
  BY <1>1, StreamsAreFrames
<1>3. Len(stream) \in Nat /\ 0 \in 0 .. Len(stream)
  BY <1>2, LenProperties
<1> DEFINE all == StreamBytes(stream)
           e == Len(all)
<1>4. all \in Seq(FrameByte)
  BY <1>2, StreamConcat
<1>5. e \in Nat
  BY <1>4, LenProperties
<1> HIDE DEF all, e
<1>6. << >> \in Seq(FrameByte) /\ Len(<< >>) = 0
  BY EmptySeq
<1>7. << >> \o SubSeq(all, 1, e) = all
  <2>1. SubSeq(all, 1, e) = all
    BY <1>4, <1>5, SubSeqFull DEF e
  <2>2. << >> \o all = all
    BY <1>4, ConcatEmptySeq
  <2> QED
    BY <2>1, <2>2
<1>8. Unread = SubSeq(all, 1, e)
  BY <1>1 DEF Unread, all, e
<1>9. Len(FirstFrames(stream, 0)) = 0 /\ LastFrames(stream, 0) = all
  BY <1>2, <1>3, StreamParts DEF all
<1>10. AtFrame(0)
  <2>1. buffer_ \o Unread = LastFrames(stream, 0)
    BY <1>1, <1>7, <1>8, <1>9
  <2>2. Len(FirstFrames(stream, 0)) + Len(buffer_) = consumed
    BY <1>1, <1>6, <1>9
  <2> QED
    BY <1>1, <2>1, <2>2, Zenon DEF AtFrame
<1>11. Contents(0) = << >>
  BY <1>2, ContentsFacts
<1>12. ~CanParse
  BY <1>1, NothingBegins DEF CanParse, ContentIsComplete, HeadersAreComplete, ContentIsPending
<1>13. written \in 0 .. Len(StreamBytes(stream)) /\ consumed \in 0 .. written
  BY <1>1, <1>5 DEF e, all
<1> QED
  BY <1>1, <1>3, <1>6, <1>10, <1>11, <1>12, <1>13 DEF FramesInv

\* What leaves the frames alone.
LEMMA FramesUnchanged ==
    ASSUME FramesInv, UNCHANGED <<stream, input>>, handler'.handled = handler.handled,
           written' \in written .. Len(StreamBytes(stream)), Settled' => ~CanParse
    PROVE  FramesInv'
<1>1. /\ UNCHANGED stream /\ UNCHANGED consumed /\ UNCHANGED buffer_
      /\ UNCHANGED pending_message_content_length_
  BY DEF input, parser
<1>2. \A n : AtFrame(n)' <=> AtFrame(n)
  BY <1>1 DEF AtFrame, Unread
<1>3. \A n : Contents(n)' = Contents(n)
  BY <1>1 DEF Contents
<1>4. CanParse' <=> CanParse
  BY <1>1 DEF CanParse, ContentIsComplete, HeadersAreComplete, ContentIsPending
<1>5. \E n \in 0 .. Len(stream) : handler'.handled = Contents(n)' /\ AtFrame(n)'
  BY <1>2, <1>3 DEF FramesInv
<1>6. stream \in Streams /\ buffer_ \in Seq(FrameByte)
      /\ written' \in 0 .. Len(StreamBytes(stream)) /\ consumed \in 0 .. written'
  BY DEF FramesInv
<1> QED
  BY <1>1, <1>4, <1>5, <1>6 DEF FramesInv

\* What is read leaves the pipe for the buffer, in its order.
LEMMA FramesChunk ==
    ASSUME SessionAssumption, FramesAssumption, FramesInv, ReadChunk
    PROVE  FramesInv'
<1>1. /\ pc' = "parse" /\ consumed' = written /\ buffer_' = buffer_ \o InPipe
      /\ UNCHANGED <<stream, written, handler, pending_message_content_length_>>
  BY DEF ReadChunk, AppendData, client
<1>2. /\ stream \in Streams /\ BytesOf[stream] = StreamBytes(stream)
      /\ StreamBytes(stream) \in Seq(FrameByte) /\ Len(StreamBytes(stream)) \in Nat
      /\ buffer_ \in Seq(FrameByte) /\ Len(buffer_) \in Nat
      /\ written \in 0 .. Len(StreamBytes(stream)) /\ consumed \in 0 .. written
  BY FramesFacts DEF FramesInv
<1>3. PICK n \in 0 .. Len(stream) : handler.handled = Contents(n) /\ AtFrame(n)
  BY DEF FramesInv
<1> DEFINE all == StreamBytes(stream)
           e == Len(all)
           a == consumed
           w == written
           chunk == SubSeq(all, a + 1, w)
           unread == SubSeq(all, w + 1, e)
<1>4. InPipe = chunk /\ Unread' = unread /\ Unread = SubSeq(all, a + 1, e)
  BY <1>1, <1>2 DEF InPipe, Unread
<1> HIDE DEF all, e
<1>5. /\ a \in Nat /\ w \in Nat /\ e \in Nat /\ a <= w /\ w <= e
      /\ a + 1 \in Nat \ {0} /\ w + 1 \in Nat \ {0} /\ a + 1 <= w + 1 /\ w + 1 <= e + 1
      /\ w <= Len(all) /\ e <= Len(all) /\ all \in Seq(FrameByte)
  BY <1>2 DEF all, e
<1> HIDE DEF a, w
<1>6. chunk \in Seq(FrameByte) /\ Len(chunk) = w - a
  <2>1. chunk \in Seq(FrameByte) /\ Len(chunk) = w - (a + 1) + 1
    BY <1>5, PartOfSeq
  <2> HIDE DEF chunk
  <2> QED
    BY <1>5, <2>1
<1>7. unread \in Seq(FrameByte)
  BY <1>5, PartOfSeq
<1>8. chunk \o unread = SubSeq(all, a + 1, e)
  <2>1. a + 1 \in 1 .. Len(all) + 1 /\ w \in (a + 1) - 1 .. Len(all) /\ e \in w .. Len(all)
    BY <1>5
  <2> QED
    BY <1>5, <2>1, ConcatAdjacentSubSeq
<1> HIDE DEF chunk, unread
<1>9. buffer_ \o chunk \in Seq(FrameByte) /\ Len(buffer_ \o chunk) = Len(buffer_) + Len(chunk)
  BY <1>2, <1>6, Joined
<1>10. (buffer_ \o chunk) \o unread = buffer_ \o (chunk \o unread)
  <2>1. buffer_ \in Seq(FrameByte) /\ chunk \in Seq(FrameByte) /\ unread \in Seq(FrameByte)
    BY <1>2, <1>6, <1>7
  <2> QED
    BY <2>1, ConcatAssociative, SMTT(30)
<1>11. buffer_' = buffer_ \o chunk /\ buffer_' \o Unread' = buffer_ \o Unread
  BY <1>1, <1>4, <1>8, <1>10
<1>12. ASSUME NEW x \in Nat, x + Len(buffer_) = consumed PROVE x + Len(buffer_') = consumed'
  <2> DEFINE k == Len(buffer_)
             l == Len(buffer_')
  <2>1. k \in Nat /\ l = k + (w - a) /\ x + k = a
    BY <1>2, <1>6, <1>9, <1>11, <1>12 DEF a
  <2> HIDE DEF k, l
  <2>2. x + l = w
    BY <1>5, <2>1
  <2> QED
    BY <1>1, <2>2 DEF l, w
<1> HIDE DEF all, e
<1>13. stream \in Seq(Frames) /\ Len(FirstFrames(stream, n)) \in Nat
       /\ (n < Len(stream) => Len(HeaderBytes(stream[n + 1])) \in Nat)
  <2>1. stream \in Seq(Frames)
    BY FramesFacts
  <2>2. Len(FirstFrames(stream, n)) \in Nat /\ (n < Len(stream) => stream[n + 1] \in Frames)
    BY <2>1, StreamParts
  <2> QED
    BY <2>1, <2>2, BytesOfFrame
<1>14. AtFrame(n)'
  <2>1. CASE /\ pending_message_content_length_ = NoLength
              /\ buffer_ \o Unread = LastFrames(stream, n)
              /\ Len(FirstFrames(stream, n)) + Len(buffer_) = consumed
    <3>1. buffer_' \o Unread' = LastFrames(stream, n)
      BY <1>11, <2>1
    <3>2. Len(FirstFrames(stream, n)) + Len(buffer_') = consumed'
      BY <1>12, <1>13, <2>1
    <3> QED
      BY <1>1, <2>1, <3>1, <3>2, Zenon DEF AtFrame
  <2>2. CASE /\ n < Len(stream) /\ HasLength(stream[n + 1])
              /\ pending_message_content_length_ = Len(stream[n + 1].content)
              /\ buffer_ \o Unread = stream[n + 1].content \o LastFrames(stream, n + 1)
              /\ Len(FirstFrames(stream, n)) + Len(HeaderBytes(stream[n + 1])) + Len(buffer_) = consumed
    <3>1. buffer_' \o Unread' = stream[n + 1].content \o LastFrames(stream, n + 1)
      BY <1>11, <2>2
    <3>2. Len(FirstFrames(stream, n)) + Len(HeaderBytes(stream[n + 1])) \in Nat
      BY <1>13, <2>2
    <3>3. Len(FirstFrames(stream, n)) + Len(HeaderBytes(stream[n + 1])) + Len(buffer_') = consumed'
      BY <1>12, <2>2, <3>2
    <3> QED
      BY <1>1, <2>2, <3>1, <3>3, Zenon DEF AtFrame
  <2> QED
    BY <1>3, <2>1, <2>2, Zenon DEF AtFrame
<1>15. handler'.handled = Contents(n)'
  BY <1>1, <1>3 DEF Contents
<1>16. buffer_' \in Seq(FrameByte) /\ consumed' \in 0 .. written' /\ ~Settled'
       /\ written' \in 0 .. Len(StreamBytes(stream'))
  <2>1. ~Settled'
    BY <1>1 DEF Settled
  <2>2. consumed' \in 0 .. written'
    BY <1>1, <1>2
  <2>3. written' \in 0 .. Len(StreamBytes(stream'))
    BY <1>1, <1>2
  <2> QED
    BY <1>9, <1>11, <2>1, <2>2, <2>3
<1>17. stream' \in Streams /\ n \in 0 .. Len(stream')
  BY <1>1, <1>2, <1>3
<1> QED
  BY <1>14, <1>15, <1>16, <1>17 DEF FramesInv

\* What FramesInv says of the frame that is read now.
LEMMA FrameRead ==
    ASSUME SessionAssumption, FramesAssumption, FramesInv, NEW n \in 0 .. Len(stream), n < Len(stream)
    PROVE  /\ n + 1 \in 0 .. Len(stream) /\ stream[n + 1] \in Frames
           /\ LastFrames(stream, n + 1) \in Seq(FrameByte)
           /\ Len(FirstFrames(stream, n)) \in Nat /\ Len(FirstFrames(stream, n + 1)) \in Nat
           /\ Len(HeaderBytes(stream[n + 1])) \in Nat /\ Len(stream[n + 1].content) \in Nat
           /\ Len(FirstFrames(stream, n + 1)) =
                 Len(FirstFrames(stream, n)) + Len(HeaderBytes(stream[n + 1])) + Len(stream[n + 1].content)
           /\ Contents(n + 1) = IF HasLength(stream[n + 1]) THEN Append(Contents(n), stream[n + 1].content)
                                ELSE Contents(n)
<1>1. stream \in Seq(Frames) /\ Len(stream) \in Nat
  BY FramesFacts
<1>2. n + 1 \in 0 .. Len(stream) /\ n + 1 \in 1 .. Len(stream) /\ (n + 1) - 1 = n
  BY <1>1
<1>3. /\ stream[n + 1] \in Frames /\ Len(FirstFrames(stream, n)) \in Nat
      /\ Len(FirstFrames(stream, n + 1)) = Len(FirstFrames(stream, n)) + Len(FrameBytes(stream[n + 1]))
  BY <1>1, StreamParts
<1>4. LastFrames(stream, n + 1) \in Seq(FrameByte) /\ Len(FirstFrames(stream, n + 1)) \in Nat
  BY <1>1, <1>2, StreamParts
<1>5. /\ Len(HeaderBytes(stream[n + 1])) \in Nat /\ Len(stream[n + 1].content) \in Nat
      /\ Len(FrameBytes(stream[n + 1])) = Len(HeaderBytes(stream[n + 1])) + Len(stream[n + 1].content)
  BY <1>3, BytesOfFrame
<1>6. Contents(n + 1) = IF HasLength(stream[n + 1]) THEN Append(Contents(n), stream[n + 1].content)
                        ELSE Contents(n)
  <2> DEFINE k == n + 1
  <2>1. k \in 1 .. Len(stream) /\ k - 1 = n
    BY <1>2
  <2> HIDE DEF k
  <2>2. Contents(k) = IF HasLength(stream[k]) THEN Append(Contents(k - 1), stream[k].content)
                      ELSE Contents(k - 1)
    BY <1>1, <2>1, ContentsFacts
  <2> QED
    BY <2>1, <2>2 DEF k
<1>7. Len(FirstFrames(stream, n + 1)) =
        Len(FirstFrames(stream, n)) + Len(HeaderBytes(stream[n + 1])) + Len(stream[n + 1].content)
  <2> DEFINE x == Len(FirstFrames(stream, n))
             y == Len(HeaderBytes(stream[n + 1]))
             z == Len(stream[n + 1].content)
             b == Len(FrameBytes(stream[n + 1]))
             u == Len(FirstFrames(stream, n + 1))
  <2>1. x \in Nat /\ y \in Nat /\ z \in Nat /\ b = y + z /\ u = x + b
    BY <1>3, <1>5
  <2> HIDE DEF x, y, z, b, u
  <2>2. u = x + y + z
    BY <2>1
  <2> QED
    BY <2>2 DEF x, y, z, u
<1> QED
  BY <1>2, <1>3, <1>4, <1>5, <1>6, <1>7

\* The next frame is the one to read when its content was handled, or skipped with its headers.
LEMMA FrameDone ==
    ASSUME SessionAssumption, FramesAssumption, FramesInv, NEW n \in 0 .. Len(stream), n < Len(stream),
           UNCHANGED <<stream, consumed, written>>, ~Settled',
           handler'.handled = Contents(n + 1), buffer_' \in Seq(FrameByte),
           pending_message_content_length_' = NoLength,
           buffer_' \o Unread = LastFrames(stream, n + 1),
           Len(FirstFrames(stream, n + 1)) + Len(buffer_') = consumed
    PROVE  FramesInv'
<1>1. n + 1 \in 0 .. Len(stream)
  BY FrameRead
<1>2. Unread' = Unread /\ Contents(n + 1)' = Contents(n + 1)
  BY DEF Unread, Contents
<1>3. AtFrame(n + 1)'
  BY <1>2, Zenon DEF AtFrame
<1>4. handler'.handled = Contents(n + 1)'
  BY <1>2
<1>5. stream \in Streams /\ written \in 0 .. Len(StreamBytes(stream)) /\ consumed \in 0 .. written
  BY DEF FramesInv
<1> QED
  BY <1>1, <1>3, <1>4, <1>5 DEF FramesInv

LEMMA FramesContent ==
    ASSUME SessionAssumption, FramesAssumption, SessionInv, FramesInv, HandleMessage
    PROVE  FramesInv'
<1> DEFINE l == pending_message_content_length_
<1>1. /\ l # NoLength /\ Len(buffer_) >= l /\ buffer_' = SubSeq(buffer_, l + 1, Len(buffer_))
      /\ pending_message_content_length_' = NoLength /\ ParsedContent = SubSeq(buffer_, 1, l)
      /\ UNCHANGED <<stream, consumed, written>>
  BY DEF HandleMessage, ParseContent, ContentIsComplete, ContentIsPending, client, ParsedContent
<1>2. ~Settled'
  BY DEF HandleMessage, Settled
<1>3. PICK n \in 0 .. Len(stream) : handler.handled = Contents(n) /\ AtFrame(n)
  BY DEF FramesInv
<1> DEFINE f == stream[n + 1]
           c == f.content
           last == LastFrames(stream, n + 1)
<1>4. /\ n < Len(stream) /\ HasLength(f) /\ l = Len(c) /\ buffer_ \o Unread = c \o last
      /\ Len(FirstFrames(stream, n)) + Len(HeaderBytes(f)) + Len(buffer_) = consumed
  BY <1>1, <1>3 DEF AtFrame
<1>5. /\ buffer_ \in Seq(FrameByte) /\ Unread \in Seq(FrameByte) /\ Len(buffer_) \in Nat
      /\ c \in Seq(FrameByte) /\ last \in Seq(FrameByte) /\ Len(c) \in Nat
  <2>1. buffer_ \in Seq(FrameByte) /\ Unread \in Seq(FrameByte) /\ Len(buffer_) \in Nat
    BY FramesFacts DEF FramesInv
  <2>2. f \in Frames /\ last \in Seq(FrameByte) /\ Len(c) \in Nat
    BY <1>4, FrameRead
  <2>3. c \in Seq(FrameByte)
    BY <2>2, BytesOfFrame
  <2> QED
    BY <2>1, <2>2, <2>3
<1> HIDE DEF c, last, f, l
<1>6. Len(buffer_) >= Len(c) /\ buffer_' = SubSeq(buffer_, Len(c) + 1, Len(buffer_))
      /\ ParsedContent = SubSeq(buffer_, 1, Len(c))
  BY <1>1, <1>4
<1>7. ParsedContent = c
  BY <1>4, <1>5, <1>6, CutLonger
<1>8. buffer_' \in Seq(FrameByte)
  BY <1>4, <1>5, <1>6, CutLonger
<1>9. Len(buffer_') = Len(buffer_) - Len(c)
  BY <1>4, <1>5, <1>6, CutLonger
<1>10. buffer_' \o Unread = last
  <2>1. SubSeq(buffer_, Len(c) + 1, Len(buffer_)) \o Unread = last
    BY <1>4, <1>5, <1>6, RearMeets
  <2> QED
    BY <1>6, <2>1
<1>11. handler'.handled = Contents(n + 1)
  <2>1. handler'.handled = Append(Contents(n), c)
    BY <1>3, <1>7, HandleStep
  <2>2. Contents(n + 1) = Append(Contents(n), c)
    BY <1>4, FrameRead DEF f, c
  <2> QED
    BY <2>1, <2>2
<1>12. Len(FirstFrames(stream, n + 1)) + Len(buffer_') = consumed
  <2> DEFINE x == Len(FirstFrames(stream, n))
             y == Len(HeaderBytes(f))
             z == Len(c)
             u == Len(FirstFrames(stream, n + 1))
             b == Len(buffer_)
             d == Len(buffer_')
  <2>1. x \in Nat /\ y \in Nat /\ z \in Nat /\ b \in Nat /\ u = x + y + z
    BY <1>4, <1>5, FrameRead DEF f, c
  <2>2. x + y + b = consumed /\ d = b - z
    BY <1>4, <1>9
  <2> HIDE DEF x, y, z, u, b, d
  <2>3. u + d = consumed
    BY <2>1, <2>2
  <2> QED
    BY <2>3 DEF u, d
<1> QED
  BY <1>1, <1>2, <1>4, <1>8, <1>10, <1>11, <1>12, FrameDone DEF last

LEMMA FramesHeaders ==
    ASSUME SessionAssumption, FramesAssumption, SessionInv, FramesInv, PassHeaders
    PROVE  FramesInv'
<1> DEFINE begin == FindContentBegin(buffer_, 1)
<1>1. /\ HeadersAreComplete /\ pending_message_content_length_ = NoLength
      /\ buffer_' = SubSeq(buffer_, begin, Len(buffer_))
      /\ pending_message_content_length_' = ParseMessageHeaders(SubSeq(buffer_, 1, begin - 1))
      /\ UNCHANGED <<stream, consumed, written, handler>>
  BY DEF PassHeaders, ParseHeaders, HeadersAreComplete, ContentIsPending, client
<1>2. ~Settled'
  BY DEF PassHeaders, Settled
<1>3. PICK n \in 0 .. Len(stream) : handler.handled = Contents(n) /\ AtFrame(n)
  BY DEF FramesInv
<1> DEFINE f == stream[n + 1]
           c == f.content
           last == LastFrames(stream, n + 1)
           h == HeaderBytes(f)
           e == Len(h)
<1>4. buffer_ \o Unread = LastFrames(stream, n) /\ Len(FirstFrames(stream, n)) + Len(buffer_) = consumed
  <2>1. n < Len(stream) => Len(stream[n + 1].content) # NoLength
    BY FrameRead, HeadersAssumption DEF HeadersAssumption
  <2> QED
    BY <1>1, <1>3, <2>1 DEF AtFrame
<1>5. n < Len(stream)
  <2>1. n # Len(stream)
    BY <1>1, <1>4, AtHeaders
  <2>2. Len(stream) \in Nat
    BY FramesFacts
  <2> QED
    BY <2>1, <2>2
<1>6. /\ f \in Frames /\ e \in Nat /\ begin = e + 1 /\ Len(buffer_) >= e
      /\ SubSeq(buffer_, 1, e) = h
      /\ SubSeq(buffer_, e + 1, Len(buffer_)) \in Seq(FrameByte)
      /\ Len(SubSeq(buffer_, e + 1, Len(buffer_))) = Len(buffer_) - e
      /\ SubSeq(buffer_, e + 1, Len(buffer_)) \o Unread = c \o last
  BY <1>1, <1>4, <1>5, AtHeaders
<1> HIDE DEF begin
<1>7. /\ buffer_' \in Seq(FrameByte) /\ Len(buffer_') = Len(buffer_) - e
      /\ buffer_' \o Unread = c \o last
  BY <1>1, <1>6
<1>8. pending_message_content_length_' = IF HasLength(f) THEN Len(c) ELSE NoLength
  <2>1. begin - 1 = e
    BY <1>6
  <2>2. pending_message_content_length_' = ParseMessageHeaders(h)
    BY <1>1, <1>6, <2>1
  <2>3. f \in Frame /\ WellFramed(f)
    BY <1>6 DEF Frames
  <2> QED
    BY <2>2, <2>3, HeadersGiveLength
<1>9. /\ Len(FirstFrames(stream, n)) \in Nat /\ Len(buffer_) \in Nat
      /\ Len(FirstFrames(stream, n)) + e + Len(buffer_') = consumed
  <2> DEFINE x == Len(FirstFrames(stream, n))
             b == Len(buffer_)
             d == Len(buffer_')
  <2>1. x \in Nat /\ b \in Nat
    BY <1>5, FrameRead, FramesFacts
  <2>2. d = b - e /\ x + b = consumed /\ e \in Nat
    BY <1>4, <1>6, <1>7
  <2> HIDE DEF x, b, d, e
  <2>3. x + e + d = consumed
    BY <2>1, <2>2
  <2> QED
    BY <2>1, <2>3 DEF x, b, d
<1>10. CASE HasLength(f)
  <2>1. Unread' = Unread /\ Contents(n)' = Contents(n)
    BY <1>1 DEF Unread, Contents
  <2>2. AtFrame(n)'
    BY <1>1, <1>5, <1>7, <1>8, <1>9, <1>10, <2>1, Zenon DEF AtFrame
  <2>3. handler'.handled = Contents(n)' /\ n \in 0 .. Len(stream')
    BY <1>1, <1>3, <2>1
  <2>4. stream \in Streams /\ written \in 0 .. Len(StreamBytes(stream)) /\ consumed \in 0 .. written
    BY DEF FramesInv
  <2> QED
    BY <1>1, <1>2, <1>7, <2>2, <2>3, <2>4 DEF FramesInv
<1>11. CASE ~HasLength(f)
  <2>1. c = << >>
    <3>1. f \in Frame /\ WellFramed(f)
      BY <1>6 DEF Frames
    <3>2. \A i \in 1 .. Len(f.headers) : ~IsGoodLength(f.headers[i])
      BY <1>11 DEF HasLength, IsGoodLength
    <3> QED
      BY <3>1, <3>2 DEF WellFramed
  <2>2. last \in Seq(FrameByte)
    BY <1>5, FrameRead
  <2>3. buffer_' \o Unread = last
    BY <1>7, <2>1, <2>2, ConcatEmptySeq
  <2>4. handler'.handled = Contents(n + 1)
    BY <1>1, <1>3, <1>5, <1>11, FrameRead
  <2>5. Len(FirstFrames(stream, n + 1)) + Len(buffer_') = consumed
    <3> DEFINE x == Len(FirstFrames(stream, n))
               u == Len(FirstFrames(stream, n + 1))
    <3>1. u = x + e + Len(c) /\ x \in Nat /\ e \in Nat
      BY <1>5, <1>6, FrameRead
    <3>2. Len(c) = 0
      BY <2>1, EmptySeq
    <3>3. u = x + e
      BY <3>1, <3>2
    <3> QED
      BY <1>9, <3>3
  <2>6. pending_message_content_length_' = NoLength
    BY <1>8, <1>11
  <2> QED
    BY <1>1, <1>2, <1>5, <1>7, <2>3, <2>4, <2>5, <2>6, FrameDone
<1> QED
  BY <1>10, <1>11

LEMMA FramesStep ==
    ASSUME SessionAssumption, FramesAssumption, SessionInv, FramesInv, [Next]_vars
    PROVE  FramesInv'
<1>1. written \in Nat /\ Len(StreamBytes(stream)) \in Nat /\ written <= Len(StreamBytes(stream))
      /\ BytesOf[stream] = StreamBytes(stream) /\ (Settled => ~CanParse)
  BY FramesFacts DEF FramesInv
<1>2. ASSUME UNCHANGED <<stream, written, input>>, handler'.handled = handler.handled,
             Settled' => ~CanParse
      PROVE  FramesInv'
  <2>1. written' \in written .. Len(StreamBytes(stream))
    BY <1>1, <1>2
  <2> QED
    BY <1>2, <2>1, FramesUnchanged
<1>3. CASE ReadChunk
  BY <1>3, FramesChunk
<1>4. CASE ReadNothing
  BY <1>1, <1>2, <1>4 DEF ReadNothing, client, Settled
<1>5. CASE ReadEof
  BY <1>2, <1>5 DEF ReadEof, client, Settled
<1>6. CASE HandleMessage
  BY <1>6, FramesContent
<1>7. CASE PassHeaders
  BY <1>7, FramesHeaders
<1>8. CASE FlushMessages
  BY <1>2, <1>8, FlushStep DEF FlushMessages, client
<1>9. CASE PollReadable
  BY <1>1, <1>2, <1>9 DEF PollReadable, client, Settled
<1>10. CASE PollOthers
  <2>1. handler'.handled = handler.handled
    BY <1>10, FilesystemChangedStep DEF PollOthers
  <2> QED
    BY <1>1, <1>2, <1>10, <2>1 DEF PollOthers, client, Settled
<1>11. CASE ClientWrite
  <2>1. written' = written + 1 /\ written < Len(StreamBytes(stream))
        /\ UNCHANGED <<stream, input, handler, pc>>
    BY <1>1, <1>11 DEF ClientWrite
  <2>2. written' \in written .. Len(StreamBytes(stream))
    BY <1>1, <2>1
  <2>3. Settled' => ~CanParse
    BY <1>1, <2>1 DEF Settled
  <2> QED
    BY <2>1, <2>2, <2>3, FramesUnchanged
<1>12. CASE ClientClose
  BY <1>1, <1>2, <1>12 DEF ClientClose, Settled
<1>13. CASE ClientRead
  BY <1>1, <1>2, <1>13 DEF ClientRead, client, Settled
<1>14. CASE FsChange
  BY <1>1, <1>2, <1>14 DEF FsChange, client, Settled
<1>15. CASE UNCHANGED vars
  BY <1>1, <1>2, <1>15 DEF vars, client, Settled
<1> QED
  BY <1>3, <1>4, <1>5, <1>6, <1>7, <1>8, <1>9, <1>10, <1>11, <1>12, <1>13, <1>14, <1>15
     DEF Next, Loop

(***************************************************************************)
(* Whatever frames a client sends and in whatever pieces they come, the    *)
(* server handles the content of each frame that has arrived in full, once *)
(* and in the order they were sent, and nothing else; a frame without a    *)
(* length is skipped (LSP_Message_Parser::parse).                          *)
(***************************************************************************)
THEOREM SessionFramesAreHandledOnce == Spec => []FramesAreHandledOnce
<1>1. Init => FramesInv
  BY SessionAssumption, FramesAssumption, FramesInit
<1>2. SessionInv /\ FramesInv /\ [Next]_vars => FramesInv'
  BY SessionAssumption, FramesAssumption, FramesStep
<1>3. FramesInv => FramesAreHandledOnce
  BY SessionAssumption, FramesAssumption, FramesAreRead
<1> QED
  BY <1>1, <1>2, <1>3, SessionInvariant, PTL DEF Spec
=============================================================================
