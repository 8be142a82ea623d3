------------------- MODULE ChangeDetectingFilesystemProofs -------------------
(***************************************************************************)
(* Proofs about ChangeDetectingFilesystem, for any disk, number of objects *)
(* and bounds: the watches of the kernel are those of the program, and no  *)
(* change of the disk is missed.                                           *)
(***************************************************************************)
EXTENDS ChangeDetectingFilesystem, FiniteSetTheorems, SequenceTheorems, TLAPS

Types ==
    /\ child \in [AllNodes -> Nodes \cup {None}] /\ gone \subseteq Nodes
    /\ at \in Levels
    /\ inotifyWatches \subseteq AllNodes /\ watch_descriptors \subseteq AllNodes
    /\ directory_id \in [Objects -> AllNodes \cup {None}]
    /\ oplocks \subseteq Objects /\ cancelling \subseteq Objects
    /\ watched_directories \in [Levels -> Objects \cup {None}]
    /\ port \in Seq(Packets)

\* The directories of the disk are a forest, without those that were removed.
ForestInv ==
    /\ \A n \in AllNodes : child[n] \notin gone
    /\ \A m, n \in AllNodes : child[m] = child[n] /\ child[n] # None => m = n

\* IN_IGNORED waits for removed directories only, which nobody watches, nor can
\* watch again before it is read.
InotifyInv ==
    /\ inotifyWatches \subseteq watch_descriptors
    /\ inotifyWatches \cap gone = {}
    /\ inotifyQueue \subseteq gone \cup {Changed}

\* An object is that of one watch, or waits for the end of one, or is free.
ObjectsInv ==
    /\ \A l \in Levels : LET o == watched_directories[l] IN
         o # None => directory_id[o] # None /\ o \notin cancelling
    /\ \A l, m \in Levels : watched_directories[l] = watched_directories[m]
                              /\ watched_directories[l] # None => l = m
    /\ \A o \in cancelling : directory_id[o] # None

InPort(o) == \E k \in DOMAIN port : port[k].object = o

\* An object has its request pending, or the packet of it in the port, or
\* neither.
OplockInv == \A o \in oplocks : Entry(o) /\ ~InPort(o)

PortInv ==
    \A k \in DOMAIN port :
        LET o == port[k].object IN
        /\ directory_id[o] # None
        /\ o \in cancelling \/ (~port[k].aborted /\ Entry(o))
        /\ \A j \in DOMAIN port : port[j].object = o => j = k

\* The object whose oplock is about to be requested.
HandleInv ==
    pc = "register" /\ backend = "win32" =>
        /\ handle \in Objects
        /\ watched_directories[at] = handle
        /\ handle \notin oplocks /\ ~InPort(handle)

IInv == Types /\ ForestInv /\ InotifyInv /\ ObjectsInv /\ OplockInv /\ PortInv /\ HandleInv
-----------------------------------------------------------------------------
(* The path on the disk. *)

\* A set of natural numbers has a least element: what the proofs that follow the
\* path use instead of induction.
LEMMA LeastNatural ==
    ASSUME NEW S, S \subseteq Nat, S # {}
    PROVE  \E m \in S : \A k \in S : m <= k
<1> DEFINE Less == {ss \in Nat \X Nat : ss[1] < ss[2]}
<1>1. IsWellFoundedOn(Less, Nat)
  BY NatLessThanWellFounded DEF OpToRel
<1>2. PICK m \in S : \A k \in S : <<k, m>> \notin Less
  <2> HIDE DEF Less
  <2> QED
    BY <1>1, WFMin
<1>3. \A k \in S : ~(k < m)
  BY <1>2
<1> QED
  BY <1>3

\* What Chain computes, for any directories.
LEMMA ChainOf ==
    ASSUME NEW n \in AllNodes, NEW c \in [AllNodes -> Nodes \cup {None}], NEW chain,
           chain = CHOOSE f : f = [k \in Levels |-> IF k = 0 THEN n
                                     ELSE IF f[k - 1] = None THEN None ELSE c[f[k - 1]]]
    PROVE  /\ chain \in [Levels -> AllNodes \cup {None}]
           /\ chain[0] = n
           /\ \A k \in 1 .. Depth :
                chain[k] = IF chain[k - 1] = None THEN None ELSE c[chain[k - 1]]
<1> DEFINE S == AllNodes \cup {None}
           After(m) == IF m = None THEN None ELSE c[m]
           Steps(m) == {f \in [0 .. m -> S] : f[0] = n /\ \A k \in 1 .. m : f[k] = After(f[k - 1])}
           Bad == {m \in 1 .. Depth : Steps(m) = {}}
<1>d. Depth \in Nat \ {0}
  BY DiskAssumption
<1>1. \A m \in S : After(m) \in S
  BY DEF AllNodes
<1>2. Steps(0) # {}
  <2>1. [k \in 0 .. 0 |-> n] \in Steps(0)
    OBVIOUS
  <2> QED
    BY <2>1
<1>3. ASSUME NEW m \in 0 .. Depth - 1, Steps(m) # {} PROVE Steps(m + 1) # {}
  <2>1. PICK f \in [0 .. m -> S] : f[0] = n /\ \A k \in 1 .. m : f[k] = After(f[k - 1])
    BY <1>3
  <2> DEFINE g == [k \in 0 .. m + 1 |-> IF k = m + 1 THEN After(f[m]) ELSE f[k]]
  <2> HIDE DEF After
  <2>2. g \in [0 .. m + 1 -> S]
    BY <1>1, <1>3, <1>d
  <2>3. g[0] = n
    BY <2>1, <1>3, <1>d
  <2>4. ASSUME NEW k \in 1 .. m + 1 PROVE g[k] = After(g[k - 1])
    BY <2>1, <1>3, <1>d
  <2>5. g \in Steps(m + 1)
    BY <2>2, <2>3, <2>4
  <2> QED
    BY <2>5
<1>4. Bad = {}
  <2> HIDE DEF Steps
  <2>1. SUFFICES ASSUME Bad # {} PROVE FALSE
    OBVIOUS
  <2>2. PICK m \in Bad : \A k \in Bad : m <= k
    <3>1. Bad \subseteq Nat
      BY <1>d
    <3> QED
      BY <2>1, <3>1, LeastNatural
  <2>3. m - 1 \in 0 .. Depth - 1 /\ m - 1 \notin Bad /\ m - 1 + 1 = m
    BY <2>2, <1>d
  <2>4. Steps(m - 1) # {}
    BY <2>3, <1>2, <1>d
  <2>5. Steps(m - 1 + 1) # {}
    BY <2>3, <2>4, <1>3
  <2> QED
    BY <2>2, <2>3, <2>5
<1>5. Steps(Depth) # {}
  BY <1>4, <1>d
<1>6. PICK f \in [Levels -> S] : f[0] = n /\ \A k \in 1 .. Depth : f[k] = After(f[k - 1])
  BY <1>5 DEF Levels
<1> DEFINE Body(a) == [k \in Levels |-> IF k = 0 THEN n
                                        ELSE IF a[k - 1] = None THEN None ELSE c[a[k - 1]]]
<1>7. f = Body(f)
  BY <1>6, <1>d DEF Levels
<1>8. chain = CHOOSE a : a = Body(a)
  BY Zenon
<1>9. chain = Body(chain)
  <2> HIDE DEF Body
  <2> QED
    BY <1>7, <1>8
<1> DEFINE Wrong == {k \in 1 .. Depth : chain[k] \notin S}
<1>10. /\ chain[0] = n
       /\ \A k \in 1 .. Depth : chain[k] = After(chain[k - 1])
  <2>1. \A k \in 1 .. Depth : k \in Levels /\ k # 0 /\ 0 \in Levels
    BY <1>d DEF Levels
  <2>2. \A k \in Levels : chain[k] = IF k = 0 THEN n ELSE After(chain[k - 1])
    BY <1>9
  <2> HIDE DEF Body, After
  <2> QED
    BY <1>d, <2>1, <2>2 DEF Levels
<1>11. Wrong = {}
  <2>1. SUFFICES ASSUME Wrong # {} PROVE FALSE
    OBVIOUS
  <2>2. PICK m \in Wrong : \A k \in Wrong : m <= k
    <3>1. Wrong \subseteq Nat
      BY <1>d
    <3> QED
      BY <2>1, <3>1, LeastNatural
  <2>3. m - 1 \in 0 .. Depth /\ m - 1 \notin Wrong
    BY <2>2, <1>d
  <2>4. chain[m - 1] \in S
    BY <2>3, <1>10, <1>d
  <2>5. chain[m] = After(chain[m - 1])
    BY <2>2, <1>10
  <2>6. After(chain[m - 1]) \in S
    BY <2>4, <1>1
  <2> QED
    BY <2>2, <2>5, <2>6
<1>12. \A k \in Levels : chain[k] \in S
  <2>1. \A k \in Levels : k = 0 \/ k \in 1 .. Depth
    BY <1>d DEF Levels
  <2> QED
    BY <2>1, <1>10, <1>11
<1>13. chain \in [Levels -> S]
  <2> HIDE DEF S
  <2> QED
    BY <1>9, <1>12
<1> QED
  BY <1>10, <1>13

\* The recursive function has a value.
LEMMA ChainIs ==
    ASSUME NEW n \in AllNodes, child \in [AllNodes -> Nodes \cup {None}]
    PROVE  /\ Chain(n) \in [Levels -> AllNodes \cup {None}]
           /\ Chain(n)[0] = n
           /\ \A k \in 1 .. Depth :
                Chain(n)[k] = IF Chain(n)[k - 1] = None THEN None ELSE child[Chain(n)[k - 1]]
BY ChainOf DEF Chain

LEMMA ChainWillBe ==
    ASSUME NEW n \in AllNodes, child' \in [AllNodes -> Nodes \cup {None}]
    PROVE  /\ Chain(n)' \in [Levels -> AllNodes \cup {None}]
           /\ Chain(n)'[0] = n
           /\ \A k \in 1 .. Depth :
                Chain(n)'[k] = IF Chain(n)'[k - 1] = None THEN None ELSE child'[Chain(n)'[k - 1]]
BY ChainOf DEF Chain

\* A directory of the path was not removed.
LEMMA PathExists ==
    ASSUME Types, ForestInv, NEW l \in Levels
    PROVE  DirAt(l) \in ((AllNodes \ gone) \cup {None})
<1>1. Top \in AllNodes /\ Top \notin gone
  BY DiskAssumption DEF AllNodes, Types
<1>2. /\ Chain(Top) \in [Levels -> AllNodes \cup {None}]
      /\ Chain(Top)[0] = Top
      /\ \A k \in 1 .. Depth :
           Chain(Top)[k] = IF Chain(Top)[k - 1] = None THEN None ELSE child[Chain(Top)[k - 1]]
  BY <1>1, ChainIs DEF Types
<1>3. CASE l = 0
  BY <1>1, <1>2, <1>3 DEF DirAt
<1>4. CASE l # 0
  <2>1. l \in 1 .. Depth /\ l - 1 \in Levels
    BY <1>4, DiskAssumption DEF Levels
  <2>2. Chain(Top)[l - 1] \in AllNodes \cup {None}
    BY <1>2, <2>1
  <2> QED
    BY <1>2, <2>1, <2>2 DEF DirAt, ForestInv, Types, AllNodes
<1> QED
  BY <1>3, <1>4

\* Beyond the end of the path there is nothing.
LEMMA PathEnds ==
    ASSUME NEW chain, NEW c, NEW m \in Levels, chain[m] = None,
           \A k \in 1 .. Depth :
              chain[k] = IF chain[k - 1] = None THEN None ELSE c[chain[k - 1]]
    PROVE  \A l \in Levels : l >= m => chain[l] = None
<1> DEFINE Wrong == {l \in Levels : l >= m /\ chain[l] # None}
<1>d. Depth \in Nat \ {0}
  BY DiskAssumption
<1>1. SUFFICES ASSUME Wrong # {} PROVE FALSE
  OBVIOUS
<1>2. Wrong \subseteq Nat
  BY <1>d DEF Levels
<1>3. PICK l \in Wrong : \A k \in Wrong : l <= k
  <2> HIDE DEF Wrong
  <2> QED
    BY <1>1, <1>2, LeastNatural
<1>4. l \in 1 .. Depth /\ l - 1 \in Levels /\ l - 1 >= m /\ ~(l <= l - 1)
  BY <1>3, <1>d DEF Levels
<1>5. chain[l - 1] = None
  BY <1>3, <1>4
<1>6. chain[l] = None
  BY <1>4, <1>5
<1> QED
  BY <1>3, <1>6

\* A directory on the path gets, or loses, the next one of the path: the path is
\* the same up to that directory.
LEMMA PathChanges ==
    ASSUME Types, NEW n \in AllNodes, OnPath(n), NEW i \in Nodes \cup {None},
           child' = [child EXCEPT ![n] = i]
    PROVE  \E m \in Levels :
             /\ DirAt(m) = n
             /\ \A l \in Levels : l <= m => DirAt(l)' = DirAt(l)
             /\ m + 1 \in Levels => DirAt(m + 1) = child[n]
             /\ child[n] = None => \A l \in Levels : l > m => DirAt(l) = None
             /\ i = None => \A l \in Levels : l > m => DirAt(l)' = None
<1> DEFINE p == Chain(Top)
           q == Chain(Top)'
           S == {m \in Levels : p[m] = n}
<1>d. Depth \in Nat \ {0} /\ Top \in AllNodes /\ None \notin AllNodes /\ Levels = 0 .. Depth
  BY DiskAssumption DEF AllNodes, Levels
<1>1. child \in [AllNodes -> Nodes \cup {None}] /\ child' \in [AllNodes -> Nodes \cup {None}]
  BY DEF Types
<1>2. /\ p[0] = Top
      /\ \A k \in 1 .. Depth : p[k] = IF p[k - 1] = None THEN None ELSE child[p[k - 1]]
      /\ \A k \in Levels : p[k] \in AllNodes \cup {None}
  BY <1>1, <1>d, ChainIs
<1>3. /\ q[0] = Top
      /\ \A k \in 1 .. Depth : q[k] = IF q[k - 1] = None THEN None ELSE child'[q[k - 1]]
  BY <1>1, <1>d, ChainWillBe
<1>4. S # {} /\ S \subseteq Nat
  BY <1>d DEF OnPath, Subtree
<1> HIDE DEF p, q
<1>5. PICK m \in S : \A k \in S : m <= k
  <2> HIDE DEF S
  <2> QED
    BY <1>4, LeastNatural
<1>6. \A l \in Levels : l <= m => q[l] = p[l]
  <2> DEFINE Wrong == {l \in Levels : l <= m /\ q[l] # p[l]}
  <2>1. SUFFICES ASSUME Wrong # {} PROVE FALSE
    OBVIOUS
  <2>2. Wrong \subseteq Nat
    BY <1>d
  <2>3. PICK l \in Wrong : \A k \in Wrong : l <= k
    <3> HIDE DEF Wrong
    <3> QED
      BY <2>1, <2>2, LeastNatural
  <2>4. l \in 1 .. Depth /\ l - 1 \in Levels /\ l - 1 <= m /\ ~(l <= l - 1) /\ ~(m <= l - 1)
    BY <2>3, <1>2, <1>3, <1>4, <1>5, <1>d
  <2>5. q[l - 1] = p[l - 1] /\ p[l - 1] # n
    BY <2>3, <2>4, <1>5
  <2>6. q[l] = p[l]
    BY <2>4, <2>5, <1>1, <1>2, <1>3, <1>d
  <2> QED
    BY <2>3, <2>6
<1>7. m \in Levels /\ p[m] = n /\ q[m] = n
  BY <1>5, <1>6, <1>d
<1>8. m + 1 \in Levels => p[m + 1] = child[n] /\ q[m + 1] = i
  <2>1. m + 1 \in Levels => m + 1 \in 1 .. Depth /\ (m + 1) - 1 = m
    BY <1>7, <1>d
  <2>2. child'[n] = i
    BY <1>1
  <2> QED
    BY <2>1, <2>2, <1>2, <1>3, <1>7, <1>d
<1>9. \A l \in Levels : l > m => m + 1 \in Levels /\ l >= m + 1
  BY <1>7, <1>d
<1>10. child[n] = None => \A l \in Levels : l > m => p[l] = None
  BY <1>2, <1>8, <1>9, PathEnds
<1>11. i = None => \A l \in Levels : l > m => q[l] = None
  <2>1. SUFFICES ASSUME i = None, NEW l \in Levels, l > m PROVE q[l] = None
    OBVIOUS
  <2>2. m + 1 \in Levels /\ l >= m + 1 /\ q[m + 1] = None
    BY <2>1, <1>8, <1>9
  <2> DEFINE c == child'
  <2>3. \A k \in 1 .. Depth : q[k] = IF q[k - 1] = None THEN None ELSE c[q[k - 1]]
    BY <1>3
  <2> HIDE DEF c
  <2> QED
    BY <2>2, <2>3, PathEnds
<1> QED
  BY <1>6, <1>7, <1>8, <1>10, <1>11 DEF DirAt, p, q

\* What is further down the path is in the subtree.
LEMMA PathInSubtree ==
    ASSUME Types, NEW m \in Levels, NEW l \in Levels, m <= l, DirAt(l) # None
    PROVE  DirAt(m) \in AllNodes /\ DirAt(l) \in Subtree(DirAt(m))
<1> DEFINE p == Chain(Top)
           n == p[m]
           q == Chain(n)
           Wrong == {k \in 0 .. l - m : q[k] # p[m + k]}
<1>d. Depth \in Nat \ {0} /\ Top \in AllNodes /\ None \notin AllNodes /\ Levels = 0 .. Depth
  BY DiskAssumption DEF AllNodes, Levels
<1>1. child \in [AllNodes -> Nodes \cup {None}]
  BY DEF Types
<1>2. /\ \A k \in 1 .. Depth : p[k] = IF p[k - 1] = None THEN None ELSE child[p[k - 1]]
      /\ \A k \in Levels : p[k] \in AllNodes \cup {None}
  BY <1>1, <1>d, ChainIs
<1> HIDE DEF p
<1>3. n \in AllNodes
  <2>1. ASSUME p[m] = None PROVE p[l] = None
    BY <2>1, <1>2, PathEnds
  <2> QED
    BY <2>1, <1>2, <1>d DEF DirAt, p
<1>4. /\ q[0] = n
      /\ \A k \in 1 .. Depth : q[k] = IF q[k - 1] = None THEN None ELSE child[q[k - 1]]
  BY <1>1, <1>3, ChainIs
<1> HIDE DEF q, n
<1>5. Wrong = {}
  <2>1. SUFFICES ASSUME Wrong # {} PROVE FALSE
    OBVIOUS
  <2>2. Wrong \subseteq Nat
    BY <1>d
  <2>3. PICK k \in Wrong : \A j \in Wrong : k <= j
    <3> HIDE DEF Wrong
    <3> QED
      BY <2>1, <2>2, LeastNatural
  <2>4. k # 0
    BY <2>3, <1>4, <1>d DEF n
  <2>5. /\ k \in 1 .. Depth /\ k - 1 \in 0 .. l - m /\ ~(k <= k - 1)
        /\ m + k \in 1 .. Depth /\ (m + k) - 1 = m + (k - 1)
    BY <2>3, <2>4, <1>d
  <2>6. q[k - 1] = p[m + (k - 1)]
    BY <2>3, <2>5
  <2>7. q[k] = p[m + k]
    BY <2>5, <2>6, <1>2, <1>4
  <2> QED
    BY <2>3, <2>7
<1>6. l - m \in Levels /\ m + (l - m) = l /\ l - m \in 0 .. l - m
  BY <1>d
<1>7. q[l - m] = p[l]
  BY <1>5, <1>6
<1> QED
  BY <1>3, <1>6, <1>7 DEF DirAt, Subtree, p, q, n

-----------------------------------------------------------------------------
(* The completion port. *)

\* What is posted comes after what waits, once for each object.
LEMMA Posted ==
    ASSUME port \in Seq(Packets), NEW S, S \subseteq Objects, NEW aborted \in BOOLEAN,
           Post(S, aborted)
    PROVE  /\ port' \in Seq(Packets) /\ Len(port) \in Nat /\ Len(port') \in Nat
           /\ Len(port) <= Len(port')
           /\ \A k \in 1 .. Len(port) : port'[k] = port[k]
           /\ \A k \in Len(port) + 1 .. Len(port') :
                port'[k].object \in S /\ port'[k].aborted = aborted
           /\ \A j, k \in Len(port) + 1 .. Len(port') :
                port'[j].object = port'[k].object => j = k
           /\ \A o \in S : \E k \in Len(port) + 1 .. Len(port') : port'[k].object = o
<1> DEFINE n == Cardinality(S)
           q == [k \in 1 .. n |-> Packet(SetToSeq(S)[k], aborted)]
<1>1. IsFiniteSet(S)
  BY BackendAssumption, FS_Subset
<1>2. n \in Nat /\ ExistsBijection(1 .. n, S)
  BY <1>1, FS_CardinalityType
<1>3. SetToSeq(S) \in [1 .. n -> S] /\ IsInjective(SetToSeq(S))
  <2>1. PICK f \in [1 .. n -> S] : IsInjective(f)
    BY <1>2 DEF ExistsBijection, Bijection, Injection
  <2> QED
    BY <2>1 DEF SetToSeq
<1>3a. \A o \in S : \E k \in 1 .. n : SetToSeq(S)[k] = o
  <2>1. SetToSeq(S) \in Injection(1 .. n, S)
    BY <1>3 DEF Injection
  <2>2. IsFiniteSet(1 .. n) /\ Cardinality(1 .. n) = Cardinality(S)
    BY <1>2, FS_Interval
  <2>3. SetToSeq(S) \in Surjection(1 .. n, S)
    <3> HIDE DEF n
    <3> QED
      BY <1>1, <2>1, <2>2, FS_Injection
  <2> QED
    BY <2>3 DEF Surjection
<1> HIDE DEF n
<1>4. q \in [1 .. n -> Packets]
  BY <1>3 DEF Packet, Packets
<1>5. q \in Seq(Packets) /\ Len(q) = n
  <2>1. q \in Seq(Packets)
    BY <1>2, <1>4, SeqDef
  <2>2. DOMAIN q = 1 .. Len(q) /\ Len(q) \in Nat
    BY <2>1, LenProperties
  <2>3. DOMAIN q = 1 .. n
    OBVIOUS
  <2> QED
    BY ONLY <1>2, <2>1, <2>2, <2>3
<1>6. port' = port \o q
  BY DEF Post, n
<1>7. \A k \in 1 .. n : q[k].object = SetToSeq(S)[k] /\ q[k].aborted = aborted
  BY DEF Packet
<1>8. \A j, k \in 1 .. n : q[j].object = q[k].object => j = k
  BY <1>3, <1>7 DEF IsInjective
<1> HIDE DEF q
<1>9. /\ port' \in Seq(Packets) /\ Len(port) \in Nat
      /\ Len(port') = Len(port) + n
      /\ \A k \in 1 .. Len(port) + n :
           port'[k] = IF k <= Len(port) THEN port[k] ELSE q[k - Len(port)]
  BY <1>5, <1>6, ConcatProperties, LenProperties
<1>10. ASSUME NEW k \in Len(port) + 1 .. Len(port')
       PROVE  k - Len(port) \in 1 .. n /\ port'[k] = q[k - Len(port)]
  BY <1>2, <1>9
<1>11. \A k \in Len(port) + 1 .. Len(port') :
          port'[k].object \in S /\ port'[k].aborted = aborted
  BY <1>3, <1>7, <1>10
<1>12. ASSUME NEW j \in Len(port) + 1 .. Len(port'), NEW k \in Len(port) + 1 .. Len(port'),
              port'[j].object = port'[k].object
       PROVE  j = k
  <2>1. j - Len(port) = k - Len(port)
    BY <1>8, <1>10, <1>12
  <2> QED
    BY <2>1, <1>9
<1>13. ASSUME NEW o \in S
       PROVE  \E k \in Len(port) + 1 .. Len(port') : port'[k].object = o
  <2>1. PICK k \in 1 .. n : q[k].object = o
    BY <1>3a, <1>7
  <2>2. /\ Len(port) + k \in Len(port) + 1 .. Len(port')
        /\ (Len(port) + k) - Len(port) = k
    BY <1>2, <1>9
  <2>3. port'[Len(port) + k] = q[k]
    BY <1>10, <2>2
  <2> QED
    BY <2>1, <2>2, <2>3
<1> QED
  BY <1>2, <1>9, <1>11, <1>12, <1>13

\* A request that is pending may end, and its object stays, with its watch or
\* waiting for the packet.
LEMMA PostStep ==
    ASSUME Types, OplockInv, PortInv, NEW S, S \subseteq oplocks, NEW aborted \in BOOLEAN,
           Post(S, aborted),
           \A o \in Objects : directory_id[o] # None => directory_id'[o] # None,
           \A o \in S : directory_id[o] # None,
           cancelling \subseteq cancelling',
           \A o \in Objects : Entry(o) => Entry(o)' \/ o \in cancelling',
           \A o \in oplocks \ S : Entry(o)',
           \A o \in S : o \in cancelling' \/ (~aborted /\ Entry(o)')
    PROVE  /\ oplocks' = oplocks \ S /\ port' \in Seq(Packets)
           /\ OplockInv' /\ PortInv'
           /\ \A o \in Objects \ S : InPort(o)' => InPort(o)
<1>1. S \subseteq Objects /\ port \in Seq(Packets)
  BY DEF Types
<1>2. /\ port' \in Seq(Packets) /\ Len(port) \in Nat /\ Len(port') \in Nat
      /\ Len(port) <= Len(port')
      /\ \A k \in 1 .. Len(port) : port'[k] = port[k]
      /\ \A k \in Len(port) + 1 .. Len(port') :
           port'[k].object \in S /\ port'[k].aborted = aborted
      /\ \A j, k \in Len(port) + 1 .. Len(port') :
           port'[j].object = port'[k].object => j = k
  BY <1>1, Posted
<1>3. DOMAIN port = 1 .. Len(port) /\ DOMAIN port' = 1 .. Len(port')
  BY <1>1, <1>2, LenProperties
<1>4. oplocks' = oplocks \ S
  BY DEF Post
<1>5. \A k \in DOMAIN port' : \/ k \in DOMAIN port /\ port'[k] = port[k]
                              \/ k \in Len(port) + 1 .. Len(port')
  BY <1>2, <1>3
<1>6. \A o \in Objects \ S : InPort(o)' => InPort(o)
  BY <1>2, <1>5 DEF InPort
<1>7. OplockInv'
  BY <1>1, <1>4, <1>6 DEF OplockInv, Types
<1>8. ASSUME NEW k \in DOMAIN port
      PROVE  port[k].object \in Objects /\ port[k].object \notin S
  <2>1. port[k] \in Packets
    BY <1>1, <1>3, ElementOfSeq
  <2>2. port[k].object \notin oplocks
    BY DEF OplockInv, InPort
  <2> QED
    BY <2>1, <2>2 DEF Packets
<1>9. ASSUME NEW k \in DOMAIN port', NEW o, port'[k].object = o
      PROVE  /\ directory_id'[o] # None
             /\ o \in cancelling' \/ (~port'[k].aborted /\ Entry(o)')
  <2>1. CASE k \in DOMAIN port /\ port'[k] = port[k]
    <3>1. /\ directory_id[o] # None
          /\ o \in cancelling \/ (~port[k].aborted /\ Entry(o))
      BY <2>1, <1>9 DEF PortInv
    <3>2. o \in Objects
      BY <2>1, <1>8, <1>9
    <3> HIDE DEF Entry
    <3> QED
      BY <2>1, <3>1, <3>2
  <2>2. CASE k \in Len(port) + 1 .. Len(port')
    <3>1. o \in S /\ port'[k].aborted = aborted
      BY <2>2, <1>2, <1>9
    <3> QED
      BY <3>1, <1>1
  <2> QED
    BY <1>5, <2>1, <2>2
<1>10. ASSUME NEW j \in DOMAIN port', NEW k \in DOMAIN port', port'[j].object = port'[k].object
       PROVE  j = k
  <2>1. CASE j \in DOMAIN port /\ k \in DOMAIN port
    BY <2>1, <1>2, <1>3, <1>10 DEF PortInv
  <2>2. CASE j \in Len(port) + 1 .. Len(port') /\ k \in Len(port) + 1 .. Len(port')
    BY <2>2, <1>2, <1>10
  <2> QED
    BY <2>1, <2>2, <1>2, <1>3, <1>5, <1>8, <1>10
<1>11. PortInv'
  BY <1>9, <1>10 DEF PortInv
<1> QED
  BY <1>2, <1>4, <1>6, <1>7, <1>11
-----------------------------------------------------------------------------
(* The steps. *)

LEMMA Initial == Init => IInv
<1> SUFFICES ASSUME Init PROVE IInv
  OBVIOUS
<1>d. Depth \in Nat \ {0} /\ 0 \in Levels
  BY DiskAssumption DEF Levels
<1>1. child \in [AllNodes -> Nodes \cup {None}] /\ ForestInv
  <2>1. CASE child = NoChild
    BY <2>1 DEF NoChild, ForestInv, Init, DiskInit
  <2>2. CASE child # NoChild
    <3>1. PICK path \in Paths : child = Along(path)
      BY <2>2, DiskAssumption DEF Init, DiskInit
    <3>2. /\ path \in [Levels -> AllNodes] /\ path[0] = Top
          /\ \A k, l \in Levels : path[k] = path[l] => k = l
      BY <3>1 DEF Paths
    <3>3. ASSUME NEW k \in 1 .. Depth PROVE path[k] \in Nodes /\ k \in Levels /\ k - 1 \in Levels
      <4>1. k \in Levels /\ k - 1 \in Levels /\ k # 0
        BY <1>d DEF Levels
      <4> QED
        BY <4>1, <3>2, <1>d DEF AllNodes
    <3>4. ASSUME NEW n \in AllNodes, Along(path)[n] # None
          PROVE  \E k \in 1 .. Depth : path[k - 1] = n /\ Along(path)[n] = path[k]
      <4>1. \E k \in 1 .. Depth : path[k - 1] = n
        BY <3>4 DEF Along
      <4> QED
        BY <4>1 DEF Along
    <3>5. Along(path) \in [AllNodes -> Nodes \cup {None}]
      <4>1. \A n \in AllNodes : Along(path)[n] \in Nodes \cup {None}
        BY <3>3, <3>4
      <4>2. Along(path) = [n \in AllNodes |-> Along(path)[n]]
        BY DEF Along
      <4> HIDE DEF Along
      <4> QED
        BY <4>1, <4>2
    <3>6. ASSUME NEW m \in AllNodes, NEW n \in AllNodes,
                 Along(path)[m] = Along(path)[n], Along(path)[n] # None
          PROVE  m = n
      <4>1. PICK j \in 1 .. Depth : path[j - 1] = m /\ Along(path)[m] = path[j]
        BY <3>4, <3>6
      <4>2. PICK k \in 1 .. Depth : path[k - 1] = n /\ Along(path)[n] = path[k]
        BY <3>4, <3>6
      <4>3. j = k
        BY <4>1, <4>2, <3>2, <3>3, <3>6
      <4> QED
        BY <4>1, <4>2, <4>3
    <3> QED
      BY <3>1, <3>5, <3>6 DEF ForestInv, Init, DiskInit
  <2> QED
    BY <2>1, <2>2
<1>2. Types
  BY <1>1, <1>d, EmptySeq DEF Types, Init, DiskInit
<1>3. InotifyInv /\ ObjectsInv /\ OplockInv /\ PortInv
  BY DEF Init, InotifyInv, ObjectsInv, OplockInv, PortInv
<1>4. HandleInv
  BY DEF Init, HandleInv, FirstStep
<1> QED
  BY <1>1, <1>2, <1>3, <1>4 DEF IInv

\* Steps that change no watch and no packet.
LEMMA QuietStep ==
    ASSUME IInv, UNCHANGED <<child, gone, backend, inotifyVars, win32Vars>>, at' \in Levels,
           pc' = "register" /\ backend = "win32" => UNCHANGED <<pc, at, handle>>
    PROVE  IInv'
<1>1. UNCHANGED <<inotifyWatches, inotifyQueue, watch_descriptors, directory_id, oplocks,
                  watched_directories, cancelling, port>>
  BY DEF inotifyVars, win32Vars
<1>2. Types' /\ ForestInv' /\ InotifyInv' /\ ObjectsInv'
  BY <1>1 DEF IInv, Types, ForestInv, InotifyInv, ObjectsInv
<1>3. OplockInv' /\ PortInv'
  BY <1>1 DEF IInv, OplockInv, PortInv, InPort, Entry
<1>4. HandleInv'
  BY <1>1 DEF IInv, HandleInv, InPort
<1> QED
  BY <1>2, <1>3, <1>4 DEF IInv

\* The disk breaks oplocks.
LEMMA BreakStep ==
    ASSUME IInv, NEW S, S \subseteq oplocks, Post(S, FALSE),
           UNCHANGED <<backend, directory_id, watched_directories, cancelling, lookVars>>
    PROVE  /\ oplocks' \subseteq Objects /\ port' \in Seq(Packets)
           /\ ObjectsInv' /\ OplockInv' /\ PortInv' /\ HandleInv'
<1>1. \A o : Entry(o)' <=> Entry(o)
  BY DEF Entry
<1>2. \A o \in oplocks : Entry(o) /\ directory_id[o] # None
  BY BackendAssumption DEF IInv, Types, OplockInv, ObjectsInv, Entry
<1>3. /\ oplocks' = oplocks \ S /\ port' \in Seq(Packets) /\ OplockInv' /\ PortInv'
      /\ \A o \in Objects \ S : InPort(o)' => InPort(o)
  <2> HIDE DEF Entry, InPort
  <2> QED
    BY <1>1, <1>2, PostStep DEF IInv
<1>4. ObjectsInv'
  BY DEF IInv, ObjectsInv
<1>5. HandleInv'
  BY <1>3 DEF IInv, HandleInv, lookVars
<1> QED
  BY <1>3, <1>4, <1>5 DEF IInv, Types

\* The kernels hear of a change of the disk that leaves a forest.
LEMMA TellStep ==
    ASSUME IInv, NEW events, NEW cut, NEW removed, Tell(events, cut, removed),
           child' \in [AllNodes -> Nodes \cup {None}], gone' \subseteq Nodes,
           gone' = gone \cup removed, ForestInv'
    PROVE  IInv'
<1>1. /\ oplocks' \subseteq Objects /\ port' \in Seq(Packets)
      /\ ObjectsInv' /\ OplockInv' /\ PortInv' /\ HandleInv'
  BY BreakStep DEF Tell
<1>2. UNCHANGED <<at, directory_id, watched_directories, cancelling, watch_descriptors>>
  BY DEF Tell, lookVars
<1>3. Types'
  BY <1>1, <1>2 DEF Tell, IInv, Types
<1>4. InotifyInv'
  BY <1>2 DEF Tell, IInv, InotifyInv
<1> QED
  BY <1>1, <1>3, <1>4 DEF IInv

LEMMA DiskStep == IInv /\ DiskNext => IInv'
<1> SUFFICES ASSUME IInv, DiskNext PROVE IInv'
  OBVIOUS
<1>t. /\ child \in [AllNodes -> Nodes \cup {None}] /\ gone \subseteq Nodes /\ ForestInv
      /\ None \notin Nodes
  BY DiskAssumption DEF IInv, Types, AllNodes
<1>1. ASSUME NEW events, NEW cut, Tell(events, cut, {}), UNCHANGED <<child, gone>> PROVE IInv'
  BY <1>1, <1>t, TellStep DEF ForestInv
<1>2. ASSUME NEW n \in AllNodes, NEW events, NEW cut, NEW removed, Tell(events, cut, removed),
             child' = [child EXCEPT ![n] = None], gone' = gone \cup removed,
             removed = {} \/ removed = {child[n]}, child[n] # None
      PROVE  IInv'
  <2>1. child[n] \in Nodes
    BY <1>2, <1>t
  <2>2. \A m \in AllNodes : child'[m] = IF m = n THEN None ELSE child[m]
    BY <1>2, <1>t
  <2>3. ForestInv'
    <3>1. \A m \in AllNodes : child'[m] \notin gone'
      BY <1>2, <1>t, <2>1, <2>2 DEF ForestInv
    <3> QED
      BY <1>t, <2>2, <3>1 DEF ForestInv
  <2>4. child' \in [AllNodes -> Nodes \cup {None}] /\ gone' \subseteq Nodes
    BY <1>2, <1>t, <2>1
  <2> QED
    BY <1>2, <2>3, <2>4, TellStep
<1>3. ASSUME NEW n \in AllNodes, NEW i \in Nodes, AddDirectory(n, i),
             NEW events, Tell(events, None, {})
      PROVE  IInv'
  <2>1. \A m \in AllNodes : child'[m] = IF m = n THEN i ELSE child[m]
    BY <1>3, <1>t DEF AddDirectory
  <2>2. ForestInv'
    BY <1>3, <1>t, <2>1 DEF ForestInv, AddDirectory
  <2>3. child' \in [AllNodes -> Nodes \cup {None}] /\ gone' = gone
    BY <1>3, <1>t DEF AddDirectory
  <2> QED
    BY <1>3, <1>t, <2>2, <2>3, TellStep
<1>4. CASE CloseFile /\ Tell({<<writing, "close">>}, None, {})
  BY <1>1, <1>4 DEF CloseFile
<1>5. ASSUME NEW n \in AllNodes, NEW c \in Contents,
             \/ WriteFile(n, c) /\ Tell({<<n, "write">>}, None, {})
             \/ CreateFile(n, c) /\ Tell({<<n, "create">>}, None, {})
             \/ MoveFileIn(n, c) /\ Tell({<<n, "moved to">>}, n, {})
      PROVE  IInv'
  BY <1>1, <1>5 DEF WriteFile, CreateFile, MoveFileIn
<1>6. ASSUME NEW n \in AllNodes, LoseFile(n), NEW events, Tell(events, n, {}) PROVE IInv'
  BY <1>1, <1>6 DEF LoseFile
<1>7. ASSUME NEW n \in AllNodes, RemoveDirectory(n), NEW events, Tell(events, None, {child[n]})
      PROVE  IInv'
  BY <1>2, <1>7 DEF RemoveDirectory
<1>8. ASSUME NEW n \in AllNodes, MoveDirectoryOut(n), NEW events, Tell(events, None, {})
      PROVE  IInv'
  BY <1>2, <1>8 DEF MoveDirectoryOut
<1> QED
  BY <1>3, <1>4, <1>5, <1>6, <1>7, <1>8 DEF DiskNext

LEMMA AskStep == ASSUME IInv, NEW n \in Nodes, AskForDirectory(n) PROVE IInv'
<1>1. /\ oplocks' \subseteq Objects /\ port' \in Seq(Packets)
      /\ ObjectsInv' /\ OplockInv' /\ PortInv' /\ HandleInv'
  BY BreakStep DEF AskForDirectory
<1>2. Types' /\ ForestInv' /\ InotifyInv'
  BY <1>1 DEF AskForDirectory, inotifyVars, lookVars, IInv, Types, ForestInv, InotifyInv
<1> QED
  BY <1>1, <1>2 DEF IInv

\* What is done next, and where, when no watch changes.
LEMMA LookStep ==
    ASSUME IInv,
           \/ CannotWatch \/ KqueueOpen \/ KqueueWatch \/ Win32RequestFails
           \/ Stat \/ ReadFile \/ KqueueOpenFile \/ KqueueReadFile \/ HandleKqueueEvents
    PROVE  IInv'
<1>t. at \in Levels /\ 0 \in Levels
  BY DiskAssumption DEF IInv, Types, Levels
<1>1. \A p, b : FirstStep(p, b) # "register"
  BY DEF FirstStep
<1>2. AfterWatch => pc' # "register"
  BY DEF AfterWatch
<1>3. at + 1 \in Levels \/ ~(at < Depth)
  BY <1>t, DiskAssumption DEF Levels
<1>4. at - 1 \in Levels \/ ~(at > 0)
  BY <1>t, DiskAssumption DEF Levels
<1>5. CASE CannotWatch \/ KqueueOpen \/ KqueueWatch \/ Win32RequestFails
  BY <1>5, <1>t, <1>2, QuietStep
     DEF CannotWatch, KqueueOpen, KqueueWatch, Win32RequestFails, FailedWatch, Watched, Watching,
         kernelVars, diskVars
<1>6. ASSUME NEW content, HasRead(content), UNCHANGED <<child, gone, backend, inotifyVars, win32Vars>>
      PROVE  IInv'
  <2>1. at' \in Levels /\ pc' # "register"
    BY <1>6, <1>t, <1>1, <1>4 DEF HasRead, GoTo
  <2> QED
    BY <1>6, <2>1, QuietStep
<1>7. CASE Stat
  BY <1>7, <1>t, <1>1, <1>3, QuietStep DEF Stat, GoTo, LookUnchanged, kernelVars, diskVars
<1>8. CASE ReadFile
  BY <1>8, <1>6 DEF ReadFile, LookUnchanged, kernelVars, diskVars
<1>9. CASE KqueueOpenFile
  BY <1>9, <1>t, QuietStep DEF KqueueOpenFile, diskVars
<1>10. CASE KqueueReadFile
  BY <1>10, <1>6 DEF KqueueReadFile, diskVars
<1>11. CASE HandleKqueueEvents
  BY <1>11, <1>t, <1>1, QuietStep DEF HandleKqueueEvents, Refresh, GoTo, diskVars
<1> QED
  BY <1>5, <1>7, <1>8, <1>9, <1>10, <1>11

\* inotify: a directory that is there is watched; what was ignored is forgotten.
LEMMA InotifyStep == ASSUME IInv, InotifyWatch \/ ReadInotify PROVE IInv'
<1>t. at \in Levels /\ 0 \in Levels
  BY DiskAssumption DEF IInv, Types, Levels
<1>u. UNCHANGED <<child, gone, backend, directory_id, oplocks, watched_directories, cancelling, port>>
  BY DEF InotifyWatch, ReadInotify, Watched, diskVars, win32Vars
<1>1. at' \in Levels /\ pc' # "register"
  BY <1>t DEF InotifyWatch, ReadInotify, Watched, AfterWatch, Refresh, GoTo, FirstStep
<1>2. CASE InotifyWatch
  <2>1. DirAt(at) \in AllNodes \ gone
    BY <1>2, <1>t, PathExists DEF InotifyWatch, IInv
  <2> QED
    BY <1>2, <1>u, <1>1, <2>1 DEF InotifyWatch, IInv, Types, ForestInv, InotifyInv, ObjectsInv,
       OplockInv, PortInv, HandleInv, InPort, Entry
<1>3. CASE ReadInotify
  <2>1. inotifyWatches' = inotifyWatches /\ inotifyQueue' = {}
        /\ watch_descriptors' = watch_descriptors \ inotifyQueue
    BY <1>3 DEF ReadInotify
  <2>2. inotifyWatches \cap inotifyQueue = {}
    BY BackendAssumption DEF IInv, Types, InotifyInv
  <2> QED
    BY <1>u, <1>1, <2>1, <2>2 DEF IInv, Types, ForestInv, InotifyInv, ObjectsInv,
       OplockInv, PortInv, HandleInv, InPort, Entry
<1> QED
  BY <1>2, <1>3

\* Windows: a directory is watched by a new object; the old one waits for the
\* end of its request.
LEMMA OpenStep == ASSUME IInv, Win32Open PROVE IInv'
<1>t. at \in Levels /\ None \notin Objects
  BY BackendAssumption DEF IInv, Types
<1>u. UNCHANGED <<child, gone, backend, inotifyWatches, inotifyQueue, watch_descriptors, at>>
  BY DEF Win32Open, diskVars, inotifyVars
<1> DEFINE old == watched_directories[at]
<1>1. CASE old # None /\ directory_id[old] = DirAt(at)
  BY <1>1, <1>t, QuietStep DEF Win32Open, AfterWatch, diskVars
<1>2. CASE ~(old # None /\ directory_id[old] = DirAt(at))
  <2>1. PICK o \in Objects :
            /\ directory_id[o] = None
            /\ directory_id' = [directory_id EXCEPT ![o] = DirAt(at)]
            /\ watched_directories' = [watched_directories EXCEPT ![at] = o]
            /\ IF old = None THEN UNCHANGED <<cancelling, oplocks, port>> ELSE CancelWatch(old)
            /\ handle' = o
            /\ pc' = "register"
    BY <1>2 DEF Win32Open
  <2>2. DirAt(at) \in AllNodes
    BY <1>t, PathExists DEF Win32Open, IInv
  <2>3. directory_id' \in [Objects -> AllNodes \cup {None}]
        /\ \A p \in Objects : directory_id'[p] = IF p = o THEN DirAt(at) ELSE directory_id[p]
    BY <2>1, <2>2 DEF IInv, Types
  <2>4. watched_directories' \in [Levels -> Objects \cup {None}]
        /\ \A l \in Levels : watched_directories'[l] = IF l = at THEN o ELSE watched_directories[l]
    BY <2>1, <1>t DEF IInv, Types
  <2>5. o \notin cancelling /\ o # old /\ \A l \in Levels : watched_directories[l] # o
    BY <2>1, <1>t DEF IInv, ObjectsInv
  <2>6. o \notin oplocks /\ ~InPort(o) /\ ~Entry(o)
    BY <2>1, <2>5 DEF IInv, OplockInv, PortInv, Entry, InPort
  <2>7. /\ \A p \in Objects : Entry(p) => p = old \/ Entry(p)'
        /\ Entry(o)'
    BY <2>4, <1>t DEF Entry
  <2>8. old # None => old \in Objects /\ directory_id[old] # None
    BY <1>t DEF IInv, Types, ObjectsInv
  <2>9. cancelling' = cancelling \cup ({old} \ {None})
    BY <2>1 DEF CancelWatch
  <2>10. ObjectsInv'
    <3>1. ASSUME NEW l \in Levels, watched_directories'[l] # None
          PROVE  /\ directory_id'[watched_directories'[l]] # None
                 /\ watched_directories'[l] \notin cancelling'
      <4>1. CASE l = at
        BY <4>1, <2>2, <2>3, <2>4, <2>5, <2>9 DEF Win32Open, IInv
      <4>2. CASE l # at
        <5>1. watched_directories'[l] = watched_directories[l] /\ watched_directories[l] # old
          BY <4>2, <3>1, <2>4, <1>t DEF IInv, ObjectsInv
        <5>2. watched_directories[l] \in Objects /\ directory_id[watched_directories[l]] # None
              /\ watched_directories[l] \notin cancelling
          BY <5>1, <3>1 DEF IInv, Types, ObjectsInv
        <5> QED
          BY <5>1, <5>2, <2>1, <2>3, <2>9
      <4> QED
        BY <4>1, <4>2
    <3>2. \A l, m \in Levels : watched_directories'[l] = watched_directories'[m]
                                 /\ watched_directories'[l] # None => l = m
      BY <2>4, <2>5 DEF IInv, ObjectsInv
    <3>3. \A p \in cancelling' : directory_id'[p] # None
      BY <2>3, <2>5, <2>8, <2>9, <2>1 DEF IInv, Types, ObjectsInv
    <3> QED
      BY <3>1, <3>2, <3>3 DEF ObjectsInv
  <2>11. /\ oplocks' \subseteq oplocks /\ port' \in Seq(Packets)
         /\ OplockInv' /\ PortInv' /\ ~InPort(o)'
    <3>1. CASE old = None
      <4>1. UNCHANGED <<oplocks, port, cancelling>>
        BY <2>1, <3>1
      <4>2. \A p : InPort(p)' <=> InPort(p)
        BY <4>1 DEF InPort
      <4>3. OplockInv'
        BY <4>1, <4>2, <2>7, <3>1, <1>t DEF IInv, Types, OplockInv
      <4>4. ASSUME NEW k \in DOMAIN port, NEW p, p = port[k].object
            PROVE  /\ directory_id'[p] # None
                   /\ p \in cancelling \/ (~port[k].aborted /\ Entry(p)')
        <5>1. p \in Objects
          <6>1. port[k] \in Packets
            BY LenProperties, ElementOfSeq DEF IInv, Types
          <6> QED
            BY <4>4, <6>1 DEF Packets
        <5>2. directory_id[p] # None /\ (p \in cancelling \/ (~port[k].aborted /\ Entry(p)))
          BY <4>4 DEF IInv, PortInv
        <5> QED
          BY <5>1, <5>2, <2>1, <2>3, <2>7, <3>1, <1>t
      <4>5. PortInv'
        BY <4>1, <4>4 DEF IInv, PortInv
      <4> QED
        BY <4>1, <4>2, <4>3, <4>5, <2>6 DEF IInv, Types
    <3>2. CASE old # None
      <4> DEFINE S == {old} \cap oplocks
      <4>1. Post(S, TRUE)
        BY <2>1, <3>2 DEF CancelWatch
      <4>2. \A p \in Objects : directory_id[p] # None => directory_id'[p] # None
        BY <2>1, <2>3
      <4>3. \A p \in Objects : Entry(p) => Entry(p)' \/ p \in cancelling'
        BY <2>7, <2>9, <3>2
      <4>4. \A p \in oplocks \ S : Entry(p)'
        BY <2>7 DEF IInv, Types, OplockInv
      <4>5. S \subseteq cancelling' /\ \A p \in S : directory_id[p] # None
        BY <2>8, <2>9, <3>2
      <4>6. cancelling \subseteq cancelling' /\ S \subseteq oplocks
        BY <2>9
      <4> HIDE DEF S, Entry
      <4>7. /\ oplocks' = oplocks \ S /\ port' \in Seq(Packets) /\ OplockInv' /\ PortInv'
            /\ \A p \in Objects \ S : InPort(p)' => InPort(p)
        BY <4>1, <4>2, <4>3, <4>4, <4>5, <4>6, PostStep DEF IInv
      <4> QED
        BY <4>6, <4>7, <2>6
    <3> QED
      BY <3>1, <3>2
  <2>12. Types'
    BY <1>u, <2>3, <2>4, <2>8, <2>9, <2>11 DEF IInv, Types
  <2>13. HandleInv'
    BY <1>t, <1>u, <2>1, <2>4, <2>6, <2>11 DEF HandleInv
  <2>14. ForestInv' /\ InotifyInv'
    BY <1>u DEF IInv, ForestInv, InotifyInv
  <2> QED
    BY <2>10, <2>11, <2>12, <2>13, <2>14 DEF IInv
<1> QED
  BY <1>1, <1>2

\* Its oplock is requested.
LEMMA RequestStep == ASSUME IInv, Win32RequestOplock PROVE IInv'
<1>u. UNCHANGED <<child, gone, backend, inotifyWatches, inotifyQueue, watch_descriptors, at,
                  directory_id, watched_directories, cancelling, port>>
  BY DEF Win32RequestOplock, Watched, diskVars, inotifyVars
<1>1. /\ handle \in Objects /\ watched_directories[at] = handle /\ ~InPort(handle)
      /\ at \in Levels /\ oplocks' = oplocks \cup {handle}
  BY DEF Win32RequestOplock, IInv, Types, HandleInv
<1>2. pc' # "register"
  BY DEF Win32RequestOplock, Watched, AfterWatch
<1>3. OplockInv'
  BY <1>u, <1>1 DEF IInv, OplockInv, Entry, InPort
<1>4. Types' /\ ForestInv' /\ InotifyInv' /\ ObjectsInv' /\ PortInv' /\ HandleInv'
  BY <1>u, <1>1, <1>2 DEF IInv, Types, ForestInv, InotifyInv, ObjectsInv, PortInv, HandleInv, Entry
<1> QED
  BY <1>3, <1>4 DEF IInv

\* A packet is handled: its object is no more.
LEMMA HandleStep == ASSUME IInv, HandleOplockEvent PROVE IInv'
<1>u. UNCHANGED <<child, gone, backend, inotifyWatches, inotifyQueue, watch_descriptors, oplocks>>
  BY DEF HandleOplockEvent, diskVars, inotifyVars
<1> DEFINE o == Head(port).object
<1>t. port \in Seq(Packets) /\ port # << >> /\ None \notin Objects
  BY BackendAssumption DEF IInv, Types, HandleOplockEvent
<1>1. /\ Len(port) \in Nat \ {0} /\ port[1] = Head(port) /\ DOMAIN port = 1 .. Len(port)
      /\ \A k \in DOMAIN port : port[k] \in Packets
  BY <1>t, EmptySeq, LenProperties, ElementOfSeq
<1>2. o \in Objects
  BY <1>1 DEF Packets
<1>3. /\ directory_id' = [directory_id EXCEPT ![o] = None]
      /\ cancelling' = cancelling \ {o}
      /\ watched_directories' = [l \in Levels |->
            IF watched_directories[l] = o THEN None ELSE watched_directories[l]]
      /\ port' = Tail(port)
  BY DEF HandleOplockEvent, Free
<1>4. /\ port' \in Seq(Packets) /\ Len(port') = Len(port) - 1
      /\ \A k \in 1 .. Len(port') : port'[k] = port[k + 1]
  BY <1>t, <1>3, HeadTailProperties
<1>5. ASSUME NEW k \in DOMAIN port'
      PROVE  k + 1 \in DOMAIN port /\ port'[k] = port[k + 1] /\ port'[k].object \in Objects \ {o}
  <2>1. k \in 1 .. Len(port')
    BY <1>4, LenProperties
  <2>2. k + 1 \in DOMAIN port /\ 1 \in DOMAIN port /\ k + 1 # 1 /\ port'[k] = port[k + 1]
    BY <1>1, <1>4, <2>1
  <2>3. port[k + 1].object # o
    BY <1>1, <2>2 DEF IInv, PortInv
  <2> QED
    BY <1>1, <2>2, <2>3 DEF Packets
<1>6. o \notin oplocks
  BY <1>1 DEF IInv, OplockInv, InPort
<1>7. \A p \in Objects \ {o} : Entry(p) => Entry(p)'
  BY <1>3 DEF Entry
<1>8. \A p : InPort(p)' => InPort(p)
  BY <1>5 DEF InPort
<1>9. \A p \in Objects : directory_id'[p] = IF p = o THEN None ELSE directory_id[p]
  BY <1>2, <1>3 DEF IInv, Types
<1>10. OplockInv'
  BY <1>u, <1>6, <1>7, <1>8 DEF IInv, Types, OplockInv
<1>11. PortInv'
  <2>1. ASSUME NEW k \in DOMAIN port', NEW p, p = port'[k].object
        PROVE  /\ directory_id'[p] # None
               /\ p \in cancelling' \/ (~port'[k].aborted /\ Entry(p)')
    <3>1. /\ directory_id[p] # None
          /\ p \in cancelling \/ (~port[k + 1].aborted /\ Entry(p))
      BY <1>5, <2>1 DEF IInv, PortInv
    <3> QED
      BY <1>3, <1>5, <1>7, <1>9, <2>1, <3>1
  <2>2. ASSUME NEW j \in DOMAIN port', NEW k \in DOMAIN port', port'[j].object = port'[k].object
        PROVE  j = k
    <3>1. j + 1 = k + 1
      BY <1>5, <2>2 DEF IInv, PortInv
    <3> QED
      BY <3>1, <1>4, LenProperties
  <2> QED
    BY <2>1, <2>2 DEF PortInv
<1>12. ObjectsInv'
  BY <1>3, <1>9, <1>t DEF IInv, Types, ObjectsInv
<1>13. at' \in Levels /\ pc' # "register"
  BY DiskAssumption DEF HandleOplockEvent, Refresh, GoTo, FirstStep, IInv, Types, Levels
<1>14. Types'
  BY <1>u, <1>3, <1>4, <1>13 DEF IInv, Types
<1>15. ForestInv' /\ InotifyInv' /\ HandleInv'
  BY <1>u, <1>13 DEF IInv, ForestInv, InotifyInv, HandleInv
<1> QED
  BY <1>10, <1>11, <1>12, <1>14, <1>15 DEF IInv

LEMMA NextStep == IInv /\ [Next]_vars => IInv'
<1> SUFFICES ASSUME IInv, [Next]_vars PROVE IInv'
  OBVIOUS
<1>1. CASE DiskNext
  BY <1>1, DiskStep
<1>2. CASE \E n \in Nodes : AskForDirectory(n)
  BY <1>2, AskStep
<1>3. CASE WatchNext
  BY <1>3, LookStep, InotifyStep, OpenStep, RequestStep DEF WatchNext
<1>4. CASE ReadNext
  BY <1>4, LookStep DEF ReadNext
<1>5. CASE EventNext
  BY <1>5, LookStep, InotifyStep, HandleStep DEF EventNext
<1>6. CASE UNCHANGED vars
  BY <1>6, QuietStep DEF vars, diskVars, kernelVars, lookVars, IInv, Types
<1> QED
  BY <1>1, <1>2, <1>3, <1>4, <1>5, <1>6 DEF Next, ServerNext

LEMMA Owned == IInv => WatchesAreOwned
BY DEF IInv, InotifyInv, OplockInv, PortInv, WatchesAreOwned

\* Every watch of the kernel is known to the program: the destructor removes
\* those of inotify, and a packet of the completion port names an object that
\* still exists, and that awaits no other, whatever directories come and go
\* while they are watched.
THEOREM FilesystemWatchesAreOwned == Spec => []WatchesAreOwned
BY Initial, NextStep, Owned, PTL DEF Spec
-----------------------------------------------------------------------------
(* No change is missed.                                                    *)

\* Every change that is made is one of which the backends tell.  Nothing is
\* asked of the disk for kqueue.
Noticed ==
    \A b \in Backends :
        /\ b = "inotify" => "file moved away" \notin Missed
        /\ b = "win32" => "directory appears" \notin Missed

LookTypes ==
    /\ backend \in Backends /\ backend \in {"inotify", "kqueue", "win32"}
    /\ phase \in {"canonicalize", "search", "reload"}
    /\ file \in [AllNodes -> Contents \cup {None}]
    /\ watched_files \in [Keys -> AllNodes \cup {None, Dead}]

\* Nothing that was heard of the directories above level k waits.  (kqueue drops
\* the event of a directory when another takes its path, but then an event of
\* one further up waits.)
Calm(k) ==
    /\ backend = "inotify" => inotifyQueue = {}
    /\ backend = "kqueue" => \A j \in Levels : j < k => <<"directory", j>> \notin fired
    /\ backend = "win32" => \A i \in DOMAIN port : port[i].aborted

\* If there is a directory at this level, it is watched.
Sees(l) ==
    DirAt(l) # None =>
        /\ backend = "inotify" => DirAt(l) \in inotifyWatches
        /\ backend = "kqueue" => watched_files[<<"directory", l>>] = DirAt(l)
        /\ backend = "win32" =>
             /\ watched_directories[l] \in oplocks
             /\ directory_id[watched_directories[l]] = DirAt(l)

\* Levels that this look has watched: downwards with the canonical path, or
\* upwards with the files that are read.
Covered(l) ==
    IF phase = "canonicalize"
    THEN backend # "win32" /\ (l < at \/ (l = at /\ pc = "stat"))
    ELSE backend = "win32" =>
           l > at \/ (l = at /\ (phase = "reload" \/ pc \notin {"watch", "register"}))

\* Levels where this look has found no configuration file.
Passed(l) == phase # "canonicalize" /\ (l > at \/ (pc = "idle" /\ phase = "search"))

WatchInv == \A l \in Levels : Covered(l) /\ Calm(l) => Sees(l)

ReadInv ==
    /\ \A l \in Levels : Passed(l) /\ Calm(l + 1) => ConfigAt(l) = None
    /\ phase = "reload" /\ Calm(at + 1) => ConfigAt(at) # None

\* What was loaded is what is there, or is being written and will be told of.
SeenInv ==
    pc = "idle" /\ phase = "reload" /\ Calm(at + 1)
      /\ (backend = "kqueue" => <<"file", at>> \notin fired)
      => seen = Found(at, ConfigAt(at)) \/ (backend = "inotify" /\ OnPath(writing))

\* kqueue has the file open, from before it is read until the next look.
FileInv ==
    backend = "kqueue" /\ Calm(at + 1) /\ (pc = "contents" \/ (pc = "idle" /\ phase = "reload"))
      => DirAt(at) # None /\ watched_files[<<"file", at>>] = DirAt(at)

\* Between the two calls that watch a directory, it is the one of the path.
RegisterInv ==
    pc = "register" =>
        /\ backend = "kqueue" /\ Calm(at) => handle = DirAt(at)
        /\ backend = "win32" /\ DirAt(at) # None => directory_id[handle] = DirAt(at)

PhaseInv ==
    /\ pc = "stat" => phase = "canonicalize"
    /\ pc \in {"read", "contents", "idle"} => phase # "canonicalize"
    /\ pc = "contents" => backend = "kqueue"
    /\ pc = "register" /\ backend = "kqueue" => handle \in AllNodes
    /\ pc = "idle" /\ phase = "search" => at = 0 /\ seen = NotFound

\* A watch of Windows has its request pending or granted, unless it was refused
\* and the level is known to be blind.
DeafInv ==
    \A l \in Levels :
        LET o == watched_directories[l]
        IN o # None => \/ o \in oplocks \/ InPort(o)
                       \/ (pc = "register" /\ backend = "win32" /\ l = at)
                       \/ l \in blind

Sighted == WatchInv /\ ReadInv /\ SeenInv /\ FileInv /\ RegisterInv

MissInv == IInv /\ LookTypes /\ PhaseInv /\ DeafInv /\ (blind = {} => Sighted)

\* Above fewer levels less may wait.
LEMMA CalmAbove ==
    ASSUME NEW j \in Int, NEW k \in Int, j <= k, Calm(k)
    PROVE  Calm(j)
<1>1. Levels \subseteq Int
  BY DiskAssumption DEF Levels
<1> QED
  BY <1>1 DEF Calm

LEMMA CalmWasAbove ==
    ASSUME NEW j \in Int, NEW k \in Int, j <= k, Calm(k)'
    PROVE  Calm(j)'
<1>1. Levels \subseteq Int
  BY DiskAssumption DEF Levels
<1> QED
  BY <1>1 DEF Calm

\* More waits after the kernels have heard of a change than before, and what is
\* still watched did not hear of it if nothing waits.
LEMMA TellAdds ==
    ASSUME IInv, LookTypes, NEW events, NEW cut, NEW removed, Tell(events, cut, removed)
    PROVE  /\ \A k : Calm(k)' => Calm(k)
           /\ \A k : Calm(k)' =>
                /\ backend = "inotify" =>
                     \A n \in inotifyWatches : ~Happens(events, n, InotifyMask)
                /\ backend = "kqueue" =>
                     \A j \in Levels : j < k =>
                        ~Happens(events, watched_files[<<"directory", j>>], NoteWriteOrRename)
                /\ backend = "win32" =>
                     /\ oplocks' = oplocks
                     /\ \A o \in oplocks : ~Happens(events, directory_id[o], OplockBreaks)
           /\ \A o \in Objects : o \in oplocks \/ InPort(o) => o \in oplocks' \/ InPort(o)'
<1> DEFINE S == {o \in oplocks : Happens(events, directory_id[o], OplockBreaks)}
<1>1. port \in Seq(Packets) /\ S \subseteq Objects /\ S \subseteq oplocks /\ Post(S, FALSE)
  BY DEF Tell, IInv, Types
<1>2. oplocks' = oplocks \ S
  BY <1>1 DEF Post
<1>3. backend' = backend
  BY DEF Tell
<1> HIDE DEF S
<1>4. /\ port' \in Seq(Packets) /\ Len(port) \in Nat /\ Len(port') \in Nat
      /\ Len(port) <= Len(port')
      /\ \A k \in 1 .. Len(port) : port'[k] = port[k]
      /\ \A k \in Len(port) + 1 .. Len(port') :
           port'[k].object \in S /\ port'[k].aborted = FALSE
      /\ \A j, k \in Len(port) + 1 .. Len(port') :
           port'[j].object = port'[k].object => j = k
      /\ \A o \in S : \E k \in Len(port) + 1 .. Len(port') : port'[k].object = o
  BY <1>1, Posted
<1>5. DOMAIN port = 1 .. Len(port) /\ DOMAIN port' = 1 .. Len(port')
  BY <1>1, <1>4, LenProperties
<1>6. ASSUME \A i \in DOMAIN port' : port'[i].aborted
      PROVE  S = {} /\ \A i \in DOMAIN port : port[i].aborted
  <2>1. \A k \in Len(port) + 1 .. Len(port') : k \in DOMAIN port'
    BY <1>4, <1>5
  <2>2. \A k \in 1 .. Len(port) : k \in DOMAIN port'
    BY <1>4, <1>5
  <2> QED
    BY <1>4, <1>5, <1>6, <2>1, <2>2
<1>7. /\ fired \subseteq fired'
      /\ \A j \in Levels :
           Happens(events, watched_files[<<"directory", j>>], NoteWriteOrRename)
             => <<"directory", j>> \in fired'
  BY DEF Tell, Keys
<1>8. /\ inotifyQueue \subseteq inotifyQueue'
      /\ \A n \in inotifyWatches :
           Happens(events, n, InotifyMask) => Changed \in inotifyQueue'
  BY DEF Tell
<1>9. ASSUME NEW k, Calm(k)' PROVE Calm(k)
  BY <1>3, <1>6, <1>7, <1>8, <1>9 DEF Calm
<1>10. ASSUME NEW k, Calm(k)'
       PROVE  /\ backend = "inotify" =>
                   \A n \in inotifyWatches : ~Happens(events, n, InotifyMask)
              /\ backend = "kqueue" =>
                   \A j \in Levels : j < k =>
                      ~Happens(events, watched_files[<<"directory", j>>], NoteWriteOrRename)
              /\ backend = "win32" =>
                   /\ oplocks' = oplocks
                   /\ \A o \in oplocks : ~Happens(events, directory_id[o], OplockBreaks)
  <2>1. CASE backend = "inotify"
    BY <2>1, <1>3, <1>8, <1>10 DEF Calm
  <2>2. CASE backend = "kqueue"
    BY <2>2, <1>3, <1>7, <1>10 DEF Calm
  <2>3. CASE backend = "win32"
    BY <2>3, <1>2, <1>3, <1>6, <1>10 DEF Calm, S
  <2> QED
    BY <2>1, <2>2, <2>3 DEF LookTypes
<1>11. ASSUME NEW o \in Objects, o \in oplocks \/ InPort(o)
       PROVE  o \in oplocks' \/ InPort(o)'
  <2>1. CASE InPort(o)
    <3>1. PICK k \in 1 .. Len(port) : port[k].object = o
      BY <2>1, <1>5 DEF InPort
    <3>2. k \in DOMAIN port' /\ port'[k].object = o
      BY <3>1, <1>4, <1>5
    <3> QED
      BY <3>2 DEF InPort
  <2>2. CASE o \in S
    <3>1. PICK k \in Len(port) + 1 .. Len(port') : port'[k].object = o
      BY <2>2, <1>4
    <3>2. k \in DOMAIN port'
      BY <3>1, <1>4, <1>5
    <3> QED
      BY <3>1, <3>2 DEF InPort
  <2> QED
    BY <2>1, <2>2, <1>2, <1>11
<1> QED
  BY <1>9, <1>10, <1>11

\* What a directory that is watched is asked to tell.
Told(e) ==
    /\ backend = "inotify" => e \in InotifyMask
    /\ backend = "kqueue" => e \in NoteWriteOrRename
    /\ backend = "win32" => e \in OplockBreaks

LEMMA Heard ==
    ASSUME IInv, LookTypes, NEW events, NEW cut, NEW removed, Tell(events, cut, removed),
           NEW m \in Levels, DirAt(m) # None, Sees(m),
           NEW e, Told(e), <<DirAt(m), e>> \in events,
           NEW k \in Int, m < k
    PROVE  ~Calm(k)'
<1> SUFFICES ASSUME Calm(k)' PROVE FALSE
  OBVIOUS
<1> DEFINE n == DirAt(m)
<1>1. \A kinds : e \in kinds => Happens(events, n, kinds)
  BY DEF Happens
<1> HIDE DEF n
<1>2. CASE backend = "inotify"
  BY <1>1, <1>2, TellAdds DEF Sees, Told, n
<1>3. CASE backend = "kqueue"
  BY <1>1, <1>3, TellAdds DEF Sees, Told, n
<1>4. CASE backend = "win32"
  BY <1>1, <1>4, TellAdds DEF Sees, Told, n
<1> QED
  BY <1>2, <1>3, <1>4 DEF LookTypes

\* A directory that stays at its level stays watched, unless something waits.
LEMMA SeesStill ==
    ASSUME IInv, LookTypes, NEW events, NEW cut, NEW removed, Tell(events, cut, removed),
           NEW l \in Levels, NEW k, Calm(k)',
           NEW n, n = DirAt(l), DirAt(l)' = n, n \notin removed, Sees(l)
    PROVE  Sees(l)'
<1>1. /\ UNCHANGED <<backend, watched_directories, directory_id>>
      /\ inotifyWatches' = inotifyWatches \ removed
  BY DEF Tell
<1>2. watched_files'[<<"directory", l>>] = watched_files[<<"directory", l>>]
  BY DEF Tell, Keys
<1>3. backend = "win32" => oplocks' = oplocks
  BY TellAdds
<1> QED
  BY <1>1, <1>2, <1>3 DEF Sees

\* What the loader does is as before.
LEMMA TellFrame ==
    ASSUME NEW events, NEW cut, NEW removed, Tell(events, cut, removed)
    PROVE  /\ UNCHANGED <<backend, pc, phase, at, handle, found, seen, blind,
                          watched_directories, directory_id>>
           /\ \A l : Covered(l)' <=> Covered(l)
           /\ \A l : Passed(l)' <=> Passed(l)
BY DEF Tell, lookVars, Covered, Passed

LEMMA TellKeeps ==
    ASSUME MissInv, NEW events, NEW cut, NEW removed, Tell(events, cut, removed),
           file' \in [AllNodes -> Contents \cup {None}], cut \in AllNodes \cup {None}
    PROVE  LookTypes' /\ PhaseInv' /\ DeafInv'
<1>1. UNCHANGED <<backend, pc, phase, at, handle, found, seen, blind,
                  watched_directories, directory_id>>
  BY TellFrame
<1>2. watched_files' \in [Keys -> AllNodes \cup {None, Dead}]
  <2>1. watched_files' = [k \in Keys |->
           IF k[1] = "file" /\ watched_files[k] = cut /\ cut # None
           THEN Dead ELSE watched_files[k]]
    BY DEF Tell
  <2>2. \A k \in Keys : watched_files[k] \in AllNodes \cup {None, Dead}
    BY DEF MissInv, LookTypes
  <2> QED
    BY <2>1, <2>2
<1>3. LookTypes'
  BY <1>1, <1>2 DEF MissInv, LookTypes
<1>4. PhaseInv'
  BY <1>1 DEF MissInv, PhaseInv
<1>5. DeafInv'
  <2> SUFFICES ASSUME NEW l \in Levels, NEW o, o = watched_directories[l], o # None
               PROVE  \/ o \in oplocks' \/ InPort(o)'
                      \/ (pc = "register" /\ backend = "win32" /\ l = at)
                      \/ l \in blind
    BY <1>1 DEF DeafInv, InPort
  <2>1. o \in Objects
    BY DEF MissInv, IInv, Types
  <2>2. o \in oplocks \/ InPort(o) => o \in oplocks' \/ InPort(o)'
    BY <2>1, TellAdds DEF MissInv
  <2> QED
    BY <1>1, <2>2 DEF MissInv, DeafInv, InPort
<1> QED
  BY <1>3, <1>4, <1>5

\* A directory where the look has found nothing is watched, and so is the one of
\* the configuration file.
LEMMA PassedIsCovered ==
    ASSUME MissInv, NEW l \in Levels, Passed(l) \/ (phase = "reload" /\ l >= at)
    PROVE  Covered(l)
BY DiskAssumption DEF MissInv, IInv, Types, LookTypes, PhaseInv, Passed, Covered, Levels

\* A configuration file changes: whoever watches the directory is told, or else
\* it is open to write and the kernel will tell when it is closed.
LEMMA FileTold ==
    ASSUME MissInv, Sighted, NEW n \in AllNodes, OnPath(n), NEW e, NEW cut \in {None, n},
           Tell({<<n, e>>}, cut, {}), UNCHANGED child,
           NEW c \in Contents \cup {None}, file' = [file EXCEPT ![n] = c],
           \/ /\ e = "write" /\ file[n] # None /\ c # None /\ cut = None /\ writing' = n
           \/ Told(e) /\ writing' \in {n, writing}
    PROVE  Sighted'
<1>l. /\ Levels \subseteq Int /\ at \in Levels /\ \A l \in Levels : l < l + 1 /\ l + 1 \in Int
      /\ None \notin AllNodes
  BY DiskAssumption DEF Levels, MissInv, IInv, Types
<1>t. IInv /\ LookTypes /\ file \in [AllNodes -> Contents \cup {None}]
  BY DEF MissInv, LookTypes
<1>f. /\ UNCHANGED <<backend, pc, phase, at, handle, found, seen, blind,
                     watched_directories, directory_id>>
      /\ \A l : Covered(l)' <=> Covered(l)
      /\ \A l : Passed(l)' <=> Passed(l)
  BY TellFrame
<1>1. \A l \in Levels : DirAt(l)' = DirAt(l)
  BY DEF DirAt, Chain
<1>2. \A l \in Levels : DirAt(l) # n => ConfigAt(l)' = ConfigAt(l)
  BY <1>1, <1>t DEF ConfigAt
<1>3. \A l \in Levels : DirAt(l) = n => ConfigAt(l) = file[n] /\ ConfigAt(l)' = c
  BY <1>1, <1>t, <1>l DEF ConfigAt
<1>4. \A k : Calm(k)' => Calm(k)
  BY <1>t, TellAdds
<1>5. ASSUME Told(e), NEW m \in Levels, DirAt(m) = n, Covered(m), Calm(m + 1)'
      PROVE  FALSE
  <2>1. Calm(m)
    BY <1>l, <1>4, <1>5, CalmAbove
  <2>2. Sees(m)
    BY <1>5, <2>1 DEF Sighted, WatchInv
  <2>3. m + 1 \in Int /\ m < m + 1 /\ DirAt(m) # None
    BY <1>l, <1>5
  <2>4. <<DirAt(m), e>> \in {<<n, e>>}
    BY <1>5
  <2> QED
    BY <1>5, <1>t, <2>2, <2>3, <2>4, Heard
<1>6. WatchInv'
  <2> SUFFICES ASSUME NEW l \in Levels, Covered(l), Calm(l)' PROVE Sees(l)'
    BY <1>f DEF WatchInv
  <2>1. Sees(l)
    BY <1>4 DEF Sighted, WatchInv
  <2> QED
    BY <1>1, <1>t, <2>1, SeesStill
<1>7. ASSUME NEW l \in Levels, Passed(l), Calm(l + 1)' PROVE ConfigAt(l)' = None
  <2>1. Covered(l)
    BY <1>7, PassedIsCovered
  <2>2. ConfigAt(l) = None
    BY <1>4, <1>7 DEF Sighted, ReadInv
  <2> QED
    BY <1>2, <1>3, <1>5, <1>7, <2>1, <2>2
<1>8. ASSUME NEW l, l = at, phase = "reload", Calm(l + 1)'
      PROVE  /\ Covered(l) /\ Calm(l + 1) /\ ConfigAt(l) # None /\ ConfigAt(l)' # None
             /\ DirAt(l) = n => e = "write" /\ file[n] # None /\ c # None /\ writing' = n
  <2>1. Covered(l) /\ l \in Levels
    BY <1>8, <1>l, PassedIsCovered
  <2>2. ConfigAt(l) # None
    BY <1>4, <1>8 DEF Sighted, ReadInv
  <2> QED
    BY <1>2, <1>3, <1>4, <1>5, <1>8, <2>1, <2>2
<1>9. ReadInv'
  BY <1>f, <1>7, <1>8 DEF ReadInv
<1>10. \A m : OnPath(m)' <=> OnPath(m)
  BY DEF OnPath, Subtree, Chain
<1>11. SeenInv'
  <2> SUFFICES ASSUME NEW l, l = at, phase = "reload", pc = "idle", Calm(l + 1)',
                      backend = "kqueue" => <<"file", l>> \notin fired'
               PROVE  seen = Found(l, ConfigAt(l)') \/ (backend = "inotify" /\ OnPath(writing'))
    BY <1>f, <1>10 DEF SeenInv, OnPath, Subtree, Chain
  <2>0. l \in Levels
    BY <1>l
  <2>1. fired \subseteq fired'
    BY DEF Tell
  <2>2. seen = Found(l, ConfigAt(l)) \/ (backend = "inotify" /\ OnPath(writing))
    BY <1>8, <2>1 DEF Sighted, SeenInv
  <2>3. CASE DirAt(l) # n
    BY <1>2, <2>0, <2>2, <2>3
  <2>4. CASE DirAt(l) = n
    <3>1. e = "write" /\ writing' = n /\ Covered(l) /\ Calm(l)
      BY <1>8, <1>l, <2>0, <2>4, CalmAbove
    <3>2. CASE backend = "inotify"
      BY <3>1, <3>2
    <3>3. CASE backend = "kqueue"
      <4>1. watched_files[<<"file", l>>] = n
        BY <1>8, <2>4, <3>3 DEF Sighted, FileInv
      <4>2. <<"file", l>> \in fired'
        BY <2>0, <3>1, <4>1 DEF Tell, Keys, Happens
      <4> QED
        BY <3>3, <4>2
    <3>4. CASE backend = "win32"
      <4>1. Told(e)
        BY <3>1, <3>4 DEF Told, OplockBreaks
      <4> QED
        BY <1>5, <2>0, <2>4, <3>1, <4>1
    <3> QED
      BY <1>t, <3>2, <3>3, <3>4 DEF LookTypes
  <2> QED
    BY <2>3, <2>4
<1>12. FileInv'
  <2> SUFFICES ASSUME NEW l, l = at, backend = "kqueue", Calm(l + 1)',
                      pc = "contents" \/ (pc = "idle" /\ phase = "reload")
               PROVE  DirAt(l)' # None /\ watched_files'[<<"file", l>>] = DirAt(l)'
    BY <1>f DEF FileInv
  <2>0. l \in Levels
    BY <1>l
  <2>1. DirAt(l) # None /\ watched_files[<<"file", l>>] = DirAt(l)
    BY <1>4 DEF Sighted, FileInv
  <2>2. cut # DirAt(l) \/ cut = None
    <3>1. Covered(l)
      BY DEF MissInv, PhaseInv, Covered
    <3> QED
      BY <1>5, <2>0, <3>1
  <2>3. watched_files'[<<"file", l>>] = watched_files[<<"file", l>>]
    BY <2>0, <2>1, <2>2 DEF Tell, Keys
  <2> QED
    BY <1>1, <2>0, <2>1, <2>3
<1>13. RegisterInv'
  <2>1. DirAt(at)' = DirAt(at)
    BY <1>1, <1>f, <1>l
  <2>2. Calm(at)' => Calm(at)
    BY <1>4, <1>f
  <2> QED
    BY <1>f, <2>1, <2>2 DEF Sighted, RegisterInv
<1> QED
  BY <1>6, <1>9, <1>11, <1>12, <1>13 DEF Sighted

\* The file that was open to write is closed.
LEMMA CloseTold ==
    ASSUME MissInv, Sighted, CloseFile, Tell({<<writing, "close">>}, None, {})
    PROVE  Sighted'
<1>l. /\ Levels \subseteq Int /\ at \in Levels /\ \A l \in Levels : l < l + 1 /\ l + 1 \in Int
      /\ None \notin AllNodes
  BY DiskAssumption DEF Levels, MissInv, IInv, Types
<1>t. IInv /\ LookTypes
  BY DEF MissInv
<1>f. /\ UNCHANGED <<backend, pc, phase, at, handle, found, seen, blind,
                     watched_directories, directory_id>>
      /\ \A l : Covered(l)' <=> Covered(l)
      /\ \A l : Passed(l)' <=> Passed(l)
  BY TellFrame
<1>1. \A l \in Levels : DirAt(l)' = DirAt(l) /\ ConfigAt(l)' = ConfigAt(l)
  BY DEF DirAt, ConfigAt, Chain, CloseFile
<1>2. \A k : Calm(k)' => Calm(k)
  BY <1>t, TellAdds
<1>3. WatchInv'
  <2> SUFFICES ASSUME NEW l \in Levels, Covered(l), Calm(l)' PROVE Sees(l)'
    BY <1>f DEF WatchInv
  <2>1. Sees(l)
    BY <1>2 DEF Sighted, WatchInv
  <2> QED
    BY <1>1, <1>t, <2>1, SeesStill
<1>4. ReadInv'
  <2>1. ConfigAt(at)' = ConfigAt(at)
    BY <1>1, <1>f, <1>l
  <2>2. Calm(at + 1)' => Calm(at + 1)
    BY <1>2, <1>f
  <2> QED
    BY <1>1, <1>2, <1>f, <2>1, <2>2 DEF Sighted, ReadInv
<1>5. SeenInv'
  <2> SUFFICES ASSUME NEW l, l = at, phase = "reload", pc = "idle", Calm(l + 1)',
                      backend = "kqueue" => <<"file", l>> \notin fired'
               PROVE  seen = Found(l, ConfigAt(l)')
    BY <1>f DEF SeenInv
  <2>1. fired \subseteq fired'
    BY DEF Tell
  <2>2. seen = Found(l, ConfigAt(l)) \/ (backend = "inotify" /\ OnPath(writing))
    BY <1>2, <2>1 DEF Sighted, SeenInv
  <2>3. ASSUME backend = "inotify", OnPath(writing) PROVE FALSE
    <3>1. PICK m \in Levels : DirAt(m) = writing /\ writing # None
      BY <2>3 DEF OnPath, Subtree, DirAt
    <3>2. Covered(m)
      BY <2>3 DEF Covered
    <3>3. Calm(m)
      BY <1>2, <2>3 DEF Calm
    <3>4. Sees(m)
      BY <3>2, <3>3 DEF Sighted, WatchInv
    <3>5. Told("close")
      BY <2>3 DEF Told, InotifyMask
    <3>6. <<DirAt(m), "close">> \in {<<writing, "close">>} /\ DirAt(m) # None
      BY <3>1
    <3>7. ~Calm(m + 1)'
      BY <1>l, <1>t, <3>4, <3>5, <3>6, Heard
    <3> QED
      BY <1>f, <2>3, <3>7 DEF Calm
  <2> QED
    BY <1>1, <1>l, <2>2, <2>3
<1>6. FileInv'
  <2> SUFFICES ASSUME NEW l, l = at, backend = "kqueue", Calm(l + 1)',
                      pc = "contents" \/ (pc = "idle" /\ phase = "reload")
               PROVE  DirAt(l)' # None /\ watched_files'[<<"file", l>>] = DirAt(l)'
    BY <1>f DEF FileInv
  <2>1. DirAt(l) # None /\ watched_files[<<"file", l>>] = DirAt(l)
    BY <1>2 DEF Sighted, FileInv
  <2>2. watched_files'[<<"file", l>>] = watched_files[<<"file", l>>]
    BY <1>l DEF Tell, Keys
  <2> QED
    BY <1>1, <1>l, <2>1, <2>2
<1>7. RegisterInv'
  <2>1. DirAt(at)' = DirAt(at)
    BY <1>1, <1>f, <1>l
  <2>2. Calm(at)' => Calm(at)
    BY <1>2, <1>f
  <2> QED
    BY <1>f, <2>1, <2>2 DEF Sighted, RegisterInv
<1> QED
  BY <1>3, <1>4, <1>5, <1>6, <1>7 DEF Sighted

LEMMA PathWillExist ==
    ASSUME child' \in [AllNodes -> Nodes \cup {None}], gone' \subseteq Nodes, ForestInv',
           NEW l \in Levels
    PROVE  DirAt(l)' \in ((AllNodes \ gone') \cup {None})
<1>1. Top \in AllNodes /\ Top \notin gone'
  BY DiskAssumption DEF AllNodes
<1>2. /\ Chain(Top)' \in [Levels -> AllNodes \cup {None}]
      /\ Chain(Top)'[0] = Top
      /\ \A k \in 1 .. Depth :
           Chain(Top)'[k] = IF Chain(Top)'[k - 1] = None THEN None
                            ELSE child'[Chain(Top)'[k - 1]]
  BY <1>1, ChainWillBe
<1>3. CASE l = 0
  BY <1>1, <1>2, <1>3 DEF DirAt
<1>4. CASE l # 0
  <2>1. l \in 1 .. Depth /\ l - 1 \in Levels
    BY <1>4, DiskAssumption DEF Levels
  <2>2. Chain(Top)'[l - 1] \in AllNodes \cup {None}
    BY <1>2, <2>1
  <2>3. Chain(Top)'[l] \in ((AllNodes \ gone') \cup {None})
    BY <1>2, <2>1, <2>2 DEF ForestInv, AllNodes
  <2> QED
    BY <2>3 DEF DirAt
<1> QED
  BY <1>3, <1>4

\* Below an empty directory the path has nothing.
LEMMA EmptyEndsPath ==
    ASSUME Types, NEW m \in Levels, DirAt(m) # None, child[DirAt(m)] = None
    PROVE  \A l \in Levels : l > m => DirAt(l) = None
<1> DEFINE p == Chain(Top)
<1>d. Depth \in Nat \ {0} /\ Top \in AllNodes /\ Levels = 0 .. Depth
  BY DiskAssumption DEF AllNodes, Levels
<1>1. \A k \in 1 .. Depth : p[k] = IF p[k - 1] = None THEN None ELSE child[p[k - 1]]
  BY <1>d, ChainIs DEF Types
<1> HIDE DEF p
<1>2. SUFFICES ASSUME NEW l \in Levels, l > m PROVE p[l] = None
  BY DEF DirAt, p
<1>3. m + 1 \in 1 .. Depth /\ m + 1 \in Levels /\ l >= m + 1 /\ (m + 1) - 1 = m
  BY <1>d, <1>2
<1>4. p[m + 1] = None
  <2>1. p[m] # None /\ child[p[m]] = None
    BY DEF DirAt, p
  <2> QED
    BY <1>1, <1>3, <2>1
<1> QED
  BY <1>1, <1>3, <1>4, PathEnds

\* The next directory of the path appears, is removed or is moved away: who has
\* relied on what is below is told, or else it could not happen.
LEMMA PathTold ==
    ASSUME MissInv, Sighted, IInv', UNCHANGED <<file, writing>>,
           NEW n \in AllNodes, OnPath(n), NEW i \in Nodes \cup {None},
           child' = [child EXCEPT ![n] = i],
           NEW events, NEW removed, Tell(events, None, removed), removed \subseteq gone',
           NEW change \in {"appears", "removed", "moved"},
           change # "moved" \/ backend = "kqueue" =>
              \E e : Told(e) /\ <<n, e>> \in events,
           change = "appears" =>
              child[n] = None /\ (backend = "win32" => pc = "idle"),
           change # "appears" => i = None /\ child[n] # None,
           change = "removed" => child[child[n]] = None /\ file[child[n]] = None,
           change = "moved" =>
              /\ backend = "inotify" => \E e : Told(e) /\ <<child[n], e>> \in events
              /\ Unopened(child[n])
    PROVE  Sighted'
<1>d. /\ Levels = 0 .. Depth /\ Depth \in Nat \ {0} /\ None \notin AllNodes
  BY DiskAssumption DEF Levels
<1>l. /\ Levels \subseteq Int /\ at \in Levels /\ \A l \in Levels : l < l + 1 /\ l + 1 \in Int
  BY <1>d DEF MissInv, IInv, Types
<1>t. IInv /\ LookTypes /\ Types
  BY DEF MissInv, IInv
<1>f. /\ UNCHANGED <<backend, pc, phase, at, handle, found, seen, blind,
                     watched_directories, directory_id>>
      /\ \A l : Covered(l)' <=> Covered(l)
      /\ \A l : Passed(l)' <=> Passed(l)
  BY TellFrame
<1>0. PICK m \in Levels :
         /\ DirAt(m) = n
         /\ \A l \in Levels : l <= m => DirAt(l)' = DirAt(l)
         /\ m + 1 \in Levels => DirAt(m + 1) = child[n]
         /\ child[n] = None => \A l \in Levels : l > m => DirAt(l) = None
         /\ i = None => \A l \in Levels : l > m => DirAt(l)' = None
  BY <1>t, PathChanges
<1>1. DirAt(m) # None
  BY <1>0, <1>d
<1>2. \A l \in Levels : l <= m => ConfigAt(l)' = ConfigAt(l)
  BY <1>0 DEF ConfigAt
<1>3. \A k : Calm(k)' => Calm(k)
  BY <1>t, TellAdds
\* Who watches the directory is told, but inotify of what is moved away: that
\* is told by the directory that is moved.
<1>4. ASSUME Covered(m), NEW k \in Int, m < k, Calm(k)',
             \/ change # "moved" \/ backend = "kqueue"
             \/ backend = "inotify" /\ m + 1 \in Levels /\ Covered(m + 1)
      PROVE  FALSE
  <2>1. Calm(m)
    BY <1>3, <1>4, <1>l, CalmAbove
  <2>2. Sees(m)
    BY <1>4, <2>1 DEF Sighted, WatchInv
  <2>3. CASE change # "moved" \/ backend = "kqueue"
    <3>1. \E e : Told(e) /\ <<DirAt(m), e>> \in events
      BY <1>0, <2>3
    <3> QED
      BY <1>1, <1>4, <1>t, <2>2, <3>1, Heard
  <2>4. CASE change = "moved" /\ backend = "inotify" /\ m + 1 \in Levels /\ Covered(m + 1)
    <3>1. Calm(m + 1)
      BY <2>1, <2>4 DEF Calm
    <3>2. Sees(m + 1)
      BY <2>4, <3>1 DEF Sighted, WatchInv
    <3>3. PICK e : Told(e) /\ <<DirAt(m + 1), e>> \in events
      BY <1>0, <2>4
    <3>4. DirAt(m + 1) # None
      BY <1>0, <2>4
    <3>5. (m + 1) + 1 \in Int /\ m + 1 < (m + 1) + 1
      BY <1>l
    <3>6. ~Calm((m + 1) + 1)'
      BY <1>t, <2>4, <3>2, <3>3, <3>4, <3>5, Heard
    <3> QED
      BY <1>4, <1>f, <2>4, <3>6 DEF Calm
  <2> QED
    BY <1>4, <2>3, <2>4
\* Nothing appears below what is watched.
<1>5. ASSUME change = "appears", NEW l \in Levels, l > m, Covered(l), Calm(l)'
      PROVE  FALSE
  <2>1. Covered(m)
    <3>1. CASE backend # "win32"
      BY <1>5, <1>l, <3>1 DEF Covered
    <3>2. CASE backend = "win32" /\ m >= at
      BY <1>5, <1>l, <3>2 DEF Covered, MissInv, PhaseInv
    <3>3. CASE backend = "win32" /\ ~(m >= at)
      <4>1. at # 0 /\ at > m
        BY <1>d, <1>l, <3>3
      <4>2. phase = "reload"
        BY <1>5, <3>3, <4>1 DEF MissInv, PhaseInv, LookTypes
      <4>3. Calm(at + 1)
        BY <1>3, <1>5, <3>3 DEF Calm
      <4>4. ConfigAt(at) # None
        BY <4>2, <4>3 DEF Sighted, ReadInv
      <4>5. DirAt(at) = None
        BY <1>0, <1>5, <1>l, <4>1
      <4> QED
        BY <4>4, <4>5 DEF ConfigAt
    <3> QED
      BY <3>1, <3>2, <3>3
  <2> QED
    BY <1>4, <1>5, <1>l, <2>1
<1>6. WatchInv'
  <2> SUFFICES ASSUME NEW l \in Levels, Covered(l), Calm(l)' PROVE Sees(l)'
    BY <1>f DEF WatchInv
  <2>1. CASE l <= m
    <3>1. Sees(l)
      BY <1>3 DEF Sighted, WatchInv
    <3>2. DirAt(l) \notin removed
      <4>1. DirAt(l)' \in ((AllNodes \ gone') \cup {None})
        <5>1. child' \in [AllNodes -> Nodes \cup {None}] /\ gone' \subseteq Nodes /\ ForestInv'
          BY DEF IInv, Types
        <5> QED
          BY <5>1, PathWillExist
      <4>2. None \notin gone'
        BY <1>d DEF IInv, Types, AllNodes
      <4> QED
        BY <1>0, <2>1, <4>1, <4>2
    <3> QED
      BY <1>0, <1>t, <2>1, <3>1, <3>2, SeesStill
  <2>2. CASE l > m /\ change # "appears"
    BY <1>0, <2>2 DEF Sees
  <2>3. CASE l > m /\ change = "appears"
    BY <1>5, <2>3
  <2> QED
    BY <1>l, <2>1, <2>2, <2>3
<1>7. ASSUME NEW l \in Levels, Passed(l), Calm(l + 1)' PROVE ConfigAt(l)' = None
  <2>1. Covered(l) /\ Calm(l)'
    BY <1>7, <1>l, PassedIsCovered, CalmWasAbove
  <2>2. CASE l <= m
    BY <1>2, <1>3, <1>7, <2>2 DEF Sighted, ReadInv
  <2>3. CASE l > m /\ change # "appears"
    BY <1>0, <2>3 DEF ConfigAt
  <2>4. CASE l > m /\ change = "appears"
    BY <1>5, <2>1, <2>4
  <2> QED
    BY <1>l, <2>2, <2>3, <2>4
\* The configuration file that was found is not below.
<1>8. ASSUME phase = "reload", NEW l, l = at, Calm(l + 1)'
      PROVE  l \in Levels /\ l <= m /\ ConfigAt(l) # None
  <2>1. ConfigAt(l) # None /\ DirAt(l) # None /\ l \in Levels /\ Covered(l)
    <3>1. ConfigAt(l) # None
      BY <1>3, <1>8 DEF Sighted, ReadInv
    <3> QED
      BY <1>8, <1>l, <3>1, PassedIsCovered DEF ConfigAt
  <2>2. SUFFICES ASSUME ~(l <= m) PROVE FALSE
    BY <2>1
  <2>2a. l > m
    BY <2>1, <2>2, <1>l
  <2>3. m + 1 \in Levels /\ m + 1 <= l /\ m < l + 1 /\ l + 1 \in Int
    BY <1>d, <2>1, <2>2a
  <2>4. change # "appears"
    BY <1>0, <2>1, <2>2a
  <2>5. CASE change = "removed"
    <3>1. DirAt(m + 1) # None /\ child[DirAt(m + 1)] = None /\ file[DirAt(m + 1)] = None
      BY <1>0, <2>3, <2>5
    <3>2. l = m + 1
      BY <1>l, <1>t, <2>1, <2>3, <3>1, EmptyEndsPath
    <3> QED
      BY <2>1, <3>1, <3>2 DEF ConfigAt
  <2>6. CASE change = "moved" /\ backend # "win32"
    BY <1>4, <1>8, <2>3, <2>6 DEF Covered, LookTypes, MissInv
  <2>7. CASE change = "moved" /\ backend = "win32"
    <3>1. Calm(l)
      BY <1>3, <1>8, <2>7 DEF Calm
    <3>2. /\ watched_directories[l] \in oplocks
          /\ directory_id[watched_directories[l]] = DirAt(l)
      BY <2>1, <2>7, <3>1 DEF Sighted, WatchInv, Sees
    <3>3. DirAt(l) \in Subtree(DirAt(m + 1))
      BY <1>t, <2>1, <2>3, PathInSubtree
    <3> QED
      BY <1>0, <1>t, <2>3, <2>7, <3>2, <3>3 DEF Unopened, Types
  <2> QED
    BY <2>4, <2>5, <2>6, <2>7
<1>9. ReadInv'
  <2>1. ASSUME phase = "reload", NEW l, l = at, Calm(l + 1)' PROVE ConfigAt(l)' # None
    BY <1>2, <1>8, <2>1
  <2> QED
    BY <1>f, <1>7, <2>1 DEF ReadInv
<1>10. SeenInv'
  <2> SUFFICES ASSUME NEW l, l = at, phase = "reload", pc = "idle", Calm(l + 1)',
                      backend = "kqueue" => <<"file", l>> \notin fired'
               PROVE  \/ seen = Found(l, ConfigAt(l)')
                      \/ (backend = "inotify" /\ \E k \in Levels : DirAt(k)' = writing /\ writing # None)
    BY <1>f DEF SeenInv, OnPath, Subtree, DirAt
  <2>1. fired \subseteq fired'
    BY DEF Tell
  <2>2. seen = Found(l, ConfigAt(l)) \/ (backend = "inotify" /\ OnPath(writing))
    BY <1>3, <2>1 DEF Sighted, SeenInv
  <2>3. ASSUME backend = "inotify", OnPath(writing)
        PROVE  \E k \in Levels : DirAt(k)' = writing /\ writing # None
    <3>1. PICK k \in Levels : DirAt(k) = writing /\ writing # None
      BY <2>3 DEF OnPath, Subtree, DirAt
    <3>2. SUFFICES ASSUME k > m PROVE FALSE
      BY <1>0, <1>l, <3>1
    <3>3. m + 1 \in Levels /\ Covered(m) /\ Covered(m + 1)
      BY <1>d, <2>3, <3>2 DEF Covered
    <3>4. Calm(m + 1)'
      BY <1>f, <2>3 DEF Calm
    <3> QED
      BY <1>4, <1>l, <2>3, <3>3, <3>4
  <2> QED
    BY <1>2, <1>8, <2>2, <2>3
<1>11. ASSUME backend = "kqueue", NEW l \in Levels, NEW k \in Int, l <= k, Calm(k)', Covered(m)
       PROVE  l <= m \/ k = l
  <2>1. SUFFICES ASSUME l > m PROVE FALSE
    BY <1>l
  <2>2. m < k
    BY <1>l, <1>11, <2>1
  <2> QED
    BY <1>4, <1>11, <2>2
<1>12. FileInv'
  <2> SUFFICES ASSUME NEW l, l = at, backend = "kqueue", Calm(l + 1)',
                      pc = "contents" \/ (pc = "idle" /\ phase = "reload")
               PROVE  DirAt(l)' # None /\ watched_files'[<<"file", l>>] = DirAt(l)'
    BY <1>f DEF FileInv
  <2>1. DirAt(l) # None /\ watched_files[<<"file", l>>] = DirAt(l)
    BY <1>3 DEF Sighted, FileInv
  <2>2. watched_files'[<<"file", l>>] = watched_files[<<"file", l>>]
    BY <1>l DEF Tell, Keys
  <2>3. Covered(m)
    BY DEF MissInv, PhaseInv, Covered
  <2>4. l \in Levels /\ l + 1 \in Int /\ l <= l + 1 /\ l + 1 # l
    BY <1>l
  <2>5. l <= m
    BY <1>11, <2>3, <2>4
  <2> QED
    BY <1>0, <2>1, <2>2, <2>4, <2>5
<1>13. RegisterInv'
  <2>1. ASSUME pc = "register", backend = "kqueue", NEW l, l = at, Calm(l)'
        PROVE  handle = DirAt(l)'
    <3>1. handle = DirAt(l)
      BY <1>3, <2>1 DEF Sighted, RegisterInv
    <3>2. SUFFICES ASSUME l > m PROVE FALSE
      BY <1>0, <1>l, <2>1, <3>1
    <3>3. Covered(m)
      BY <2>1, <3>2 DEF Covered
    <3> QED
      BY <1>4, <1>l, <2>1, <3>2, <3>3
  <2>2. ASSUME pc = "register", backend = "win32", NEW l, l = at, DirAt(l)' # None
        PROVE  directory_id[handle] = DirAt(l)'
    <3>1. l <= m
      BY <1>0, <1>l, <2>2
    <3> QED
      BY <1>0, <1>l, <2>2, <3>1 DEF Sighted, RegisterInv
  <2> QED
    BY <1>f, <2>1, <2>2 DEF Sighted, RegisterInv
<1> QED
  BY <1>6, <1>9, <1>10, <1>12, <1>13 DEF Sighted

LEMMA EventsTold ==
    /\ Told("create") /\ Told("moved to") /\ Told("delete")
    /\ backend # "inotify" => Told("moved from")
    /\ backend = "inotify" => Told("move self")
<1>1. backend = "inotify" =>
        Told("create") /\ Told("moved to") /\ Told("delete") /\ Told("move self")
  BY Zenon DEF Told, InotifyMask
<1>2. backend = "kqueue" =>
        Told("create") /\ Told("moved to") /\ Told("delete") /\ Told("moved from")
  BY Zenon DEF Told, NoteWriteOrRename
<1>3. backend = "win32" =>
        Told("create") /\ Told("moved to") /\ Told("delete") /\ Told("moved from")
  BY Zenon DEF Told, OplockBreaks
<1>4. backend \notin {"inotify", "kqueue", "win32"} => \A e : Told(e)
  BY Zenon DEF Told
<1> QED
  BY Zenon, <1>1, <1>2, <1>3, <1>4

LEMMA FileChanges ==
    ASSUME MissInv, IInv', NEW n \in AllNodes, OnPath(n), NEW e, NEW cut \in {None, n},
           Tell({<<n, e>>}, cut, {}), UNCHANGED child,
           NEW c \in Contents \cup {None}, file' = [file EXCEPT ![n] = c],
           \/ /\ e = "write" /\ file[n] # None /\ c # None /\ cut = None /\ writing' = n
           \/ Told(e) /\ writing' \in {n, writing}
    PROVE  MissInv'
<1>1. file' \in [AllNodes -> Contents \cup {None}]
  BY DEF MissInv, LookTypes
<1>2. LookTypes' /\ PhaseInv' /\ DeafInv' /\ blind' = blind
  BY <1>1, TellKeeps, TellFrame
<1>3. blind = {} => Sighted'
  <2>1. SUFFICES ASSUME Sighted PROVE Sighted'
    BY DEF MissInv
  <2> QED
    BY <2>1, FileTold
<1> QED
  BY <1>2, <1>3 DEF MissInv

LEMMA Appears ==
    ASSUME MissInv, Sighted, Noticed, IInv', NEW n \in AllNodes, OnPath(n), NEW i \in Nodes,
           MayAppear, AddDirectory(n, i), NEW e, Told(e), Tell({<<n, e>>}, None, {})
    PROVE  Sighted'
<1> DEFINE events == {<<n, e>>}
           removed == {}
<1>1. backend = "win32" => pc = "idle"
  BY DEF MayAppear, Noticed, MissInv, LookTypes
<1>2. /\ UNCHANGED <<file, writing>> /\ child[n] = None
      /\ child' = [child EXCEPT ![n] = i] /\ i \in Nodes \cup {None}
  BY DEF AddDirectory
<1>3. Tell(events, None, removed) /\ removed \subseteq gone' /\ <<n, e>> \in events
  OBVIOUS
<1> HIDE DEF events, removed
<1> QED
  BY <1>1, <1>2, <1>3, PathTold

LEMMA Removed ==
    ASSUME MissInv, Sighted, IInv', NEW n \in AllNodes, OnPath(n), RemoveDirectory(n),
           NEW events, NEW e, Told(e), <<n, e>> \in events, Tell(events, None, {child[n]})
    PROVE  Sighted'
<1> DEFINE removed == {child[n]}
<1>1. /\ UNCHANGED <<file, writing>> /\ child[n] # None
      /\ child[child[n]] = None /\ file[child[n]] = None
      /\ child' = [child EXCEPT ![n] = None]
  BY DEF RemoveDirectory
<1>2. Tell(events, None, removed) /\ removed \subseteq gone'
  BY DEF RemoveDirectory
<1> HIDE DEF removed
<1> QED
  BY <1>1, <1>2, PathTold

LEMMA Moved ==
    ASSUME MissInv, Sighted, IInv', NEW n \in AllNodes, OnPath(n), MoveDirectoryOut(n),
           Unopened(child[n]), NEW events, Tell(events, None, {}),
           backend = "kqueue" => \E e : Told(e) /\ <<n, e>> \in events,
           backend = "inotify" => \E e : Told(e) /\ <<child[n], e>> \in events
    PROVE  Sighted'
<1> DEFINE removed == {}
<1>1. /\ UNCHANGED <<file, writing>> /\ child[n] # None
      /\ child' = [child EXCEPT ![n] = None]
  BY DEF MoveDirectoryOut
<1>2. Tell(events, None, removed) /\ removed \subseteq gone'
  OBVIOUS
<1> HIDE DEF removed
<1> QED
  BY <1>1, <1>2, PathTold

\* What is left to show of a change of the disk.
LEMMA DiskKeeps ==
    ASSUME MissInv, IInv', UNCHANGED file, NEW events, NEW removed,
           Tell(events, None, removed), Sighted => Sighted'
    PROVE  MissInv'
<1>1. file' \in [AllNodes -> Contents \cup {None}] /\ None \in AllNodes \cup {None}
  BY DEF MissInv, LookTypes
<1>2. LookTypes' /\ PhaseInv' /\ DeafInv' /\ blind' = blind
  BY <1>1, TellKeeps, TellFrame
<1> QED
  BY <1>2 DEF MissInv

LEMMA DiskIsNoticed ==
    ASSUME MissInv, Noticed, DiskNext
    PROVE  MissInv'
<1>i. IInv'
  BY DiskStep DEF MissInv
<1>c. None \notin Contents
  BY DiskAssumption
<1>e. /\ Told("create") /\ Told("moved to") /\ Told("delete")
      /\ backend # "inotify" => Told("moved from")
      /\ backend = "inotify" => Told("move self")
  BY Zenon, EventsTold
<1>1. CASE CloseFile /\ Tell({<<writing, "close">>}, None, {})
  <2>1. UNCHANGED file
    BY <1>1 DEF CloseFile
  <2>2. Sighted => Sighted'
    BY <1>1, CloseTold
  <2> QED
    BY <1>1, <1>i, <2>1, <2>2, DiskKeeps
<1>2. ASSUME NEW n \in AllNodes, OnPath(n), NEW c \in Contents,
             WriteFile(n, c), Tell({<<n, "write">>}, None, {})
      PROVE  MissInv'
  BY <1>2, <1>c, <1>i, FileChanges DEF WriteFile
<1>3. ASSUME NEW n \in AllNodes, OnPath(n), NEW c \in Contents, NEW e, Told(e),
             \/ CreateFile(n, c) /\ Tell({<<n, e>>}, None, {})
             \/ MoveFileIn(n, c) /\ Tell({<<n, e>>}, n, {})
      PROVE  MissInv'
  BY <1>3, <1>i, FileChanges DEF CreateFile, MoveFileIn
<1>4. ASSUME NEW n \in AllNodes, OnPath(n), NEW e, Told(e), LoseFile(n), Tell({<<n, e>>}, n, {})
      PROVE  MissInv'
  BY <1>4, <1>i, FileChanges DEF LoseFile
<1>5. ASSUME NEW n \in AllNodes, OnPath(n), NEW i \in Nodes, MayAppear, AddDirectory(n, i),
             NEW e, Told(e), Tell({<<n, e>>}, None, {})
      PROVE  MissInv'
  <2>1. UNCHANGED file
    BY <1>5 DEF AddDirectory
  <2>2. Sighted => Sighted'
    BY <1>5, <1>i, Appears
  <2> QED
    BY <1>5, <1>i, <2>1, <2>2, DiskKeeps
<1>6. ASSUME NEW n \in AllNodes, OnPath(n), RemoveDirectory(n), NEW events, NEW e, Told(e),
             <<n, e>> \in events, Tell(events, None, {child[n]})
      PROVE  MissInv'
  <2>1. UNCHANGED file
    BY <1>6 DEF RemoveDirectory
  <2>2. Sighted => Sighted'
    BY <1>6, <1>i, Removed
  <2> QED
    BY <1>6, <1>i, <2>1, <2>2, DiskKeeps
<1>7. ASSUME NEW n \in AllNodes, OnPath(n), MoveDirectoryOut(n), Unopened(child[n]),
             NEW events, Tell(events, None, {}),
             backend = "kqueue" => \E e : Told(e) /\ <<n, e>> \in events,
             backend = "inotify" => \E e : Told(e) /\ <<child[n], e>> \in events
      PROVE  MissInv'
  <2>1. UNCHANGED file
    BY <1>7 DEF MoveDirectoryOut
  <2>2. Sighted => Sighted'
    BY <1>7, <1>i, Moved
  <2> QED
    BY <1>7, <1>i, <2>1, <2>2, DiskKeeps
<1>8. MayMoveAway => Told("moved from")
  <2>1. backend = "inotify" => "file moved away" \notin Missed
    BY DEF Noticed, MissInv, LookTypes
  <2> QED
    BY Zenon, <1>e, <2>1 DEF MayMoveAway
<1>9. ASSUME NEW n \in AllNodes, OnPath(n), MoveDirectoryOut(n), Unopened(child[n]),
             Tell({<<n, "moved from">>, <<child[n], "move self">>}, None, {})
      PROVE  MissInv'
  <2> DEFINE events == {<<n, "moved from">>, <<child[n], "move self">>}
  <2>1. backend = "kqueue" => \E e : Told(e) /\ <<n, e>> \in events
    BY Zenon, <1>e
  <2>2. backend = "inotify" => \E e : Told(e) /\ <<child[n], e>> \in events
    BY Zenon, <1>e
  <2>3. Tell(events, None, {})
    BY Zenon, <1>9
  <2> HIDE DEF events
  <2> QED
    BY Zenon, <1>7, <1>9, <2>1, <2>2, <2>3
<1>10. ASSUME NEW n \in AllNodes, OnPath(n), NEW c \in Contents,
              \/ WriteFile(n, c) /\ Tell({<<n, "write">>}, None, {})
              \/ CreateFile(n, c) /\ Tell({<<n, "create">>}, None, {})
              \/ MoveFileIn(n, c) /\ Tell({<<n, "moved to">>}, n, {})
       PROVE  MissInv'
  BY Zenon, <1>e, <1>2, <1>3, <1>10
<1>11. ASSUME NEW n \in AllNodes, OnPath(n), LoseFile(n),
              \/ Tell({<<n, "delete">>}, n, {})
              \/ MayMoveAway /\ Tell({<<n, "moved from">>}, n, {})
       PROVE  MissInv'
  BY Zenon, <1>e, <1>4, <1>8, <1>11
<1>12. ASSUME NEW n \in AllNodes, OnPath(n), NEW i \in Nodes, MayAppear, AddDirectory(n, i),
              Tell({<<n, IF file[i] = None /\ child[i] = None THEN "create"
                         ELSE "moved to">>}, None, {})
       PROVE  MissInv'
  <2> DEFINE e == IF file[i] = None /\ child[i] = None THEN "create" ELSE "moved to"
  <2>1. Told(e)
    BY Zenon, <1>e
  <2>2. Tell({<<n, e>>}, None, {})
    BY Zenon, <1>12
  <2> HIDE DEF e
  <2> QED
    BY Zenon, <1>5, <1>12, <2>1, <2>2
<1>13. ASSUME NEW n \in AllNodes, OnPath(n), RemoveDirectory(n),
              NEW self \in SUBSET {<<child[n], "delete self">>},
              Tell({<<n, "delete">>} \cup self, None, {child[n]})
       PROVE  MissInv'
  <2> DEFINE events == {<<n, "delete">>} \cup self
  <2>1. <<n, "delete">> \in events
    BY Zenon
  <2>2. Tell(events, None, {child[n]})
    BY Zenon, <1>13
  <2> HIDE DEF events
  <2> QED
    BY Zenon, <1>e, <1>6, <1>13, <2>1, <2>2
<1> QED
  BY Zenon, <1>1, <1>9, <1>10, <1>11, <1>12, <1>13 DEF DiskNext

\* The disk is as it was.
LEMMA SameDisk ==
    ASSUME UNCHANGED <<child, file>>
    PROVE  \A l \in Levels : DirAt(l)' = DirAt(l) /\ ConfigAt(l)' = ConfigAt(l)
BY DEF DirAt, ConfigAt, Chain

LEMMA NothingMissedYet == Init => MissInv
<1> SUFFICES ASSUME Init PROVE MissInv
  OBVIOUS
<1>l. \A l \in Levels : ~(l < 0)
  BY DiskAssumption DEF Levels
<1>1. IInv
  BY Initial
<1>2. watched_files \in [Keys -> AllNodes \cup {None, Dead}]
  BY DEF Init
<1>3. file \in [AllNodes -> Contents \cup {None}]
  BY DiskAssumption DEF Init, DiskInit
<1>4. LookTypes
  BY <1>2, <1>3, BackendAssumption DEF Init, LookTypes
<1>5. phase = "canonicalize" /\ pc \in {"stat", "watch"} /\ at = 0
      /\ (pc = "stat" => backend = "win32")
  BY DEF Init, FirstStep
<1>6. PhaseInv
  BY <1>5 DEF PhaseInv
<1>7. DeafInv
  BY DEF Init, DeafInv
<1>8. WatchInv
  BY <1>l, <1>5 DEF WatchInv, Covered
<1>9. ReadInv /\ SeenInv /\ FileInv /\ RegisterInv
  BY <1>5 DEF ReadInv, SeenInv, FileInv, RegisterInv, Passed
<1> QED
  BY <1>1, <1>4, <1>6, <1>7, <1>8, <1>9 DEF MissInv, Sighted

\* What is before the end of the completion port stays there.
LEMMA PostAdds ==
    ASSUME port \in Seq(Packets), NEW S, S \subseteq Objects, NEW aborted \in BOOLEAN,
           Post(S, aborted)
    PROVE  /\ \A o : InPort(o) => InPort(o)'
           /\ \A o \in S : InPort(o)'
           /\ (\A i \in DOMAIN port' : port'[i].aborted) =>
                (\A i \in DOMAIN port : port[i].aborted) /\ (S = {} \/ aborted)
<1>1. /\ port' \in Seq(Packets) /\ Len(port) \in Nat /\ Len(port') \in Nat
      /\ Len(port) <= Len(port')
      /\ \A k \in 1 .. Len(port) : port'[k] = port[k]
      /\ \A k \in Len(port) + 1 .. Len(port') :
           port'[k].object \in S /\ port'[k].aborted = aborted
      /\ \A j, k \in Len(port) + 1 .. Len(port') :
           port'[j].object = port'[k].object => j = k
      /\ \A o \in S : \E k \in Len(port) + 1 .. Len(port') : port'[k].object = o
  BY Posted
<1>2. DOMAIN port = 1 .. Len(port) /\ DOMAIN port' = 1 .. Len(port')
  BY <1>1, LenProperties
<1>3. \A k \in 1 .. Len(port) : k \in DOMAIN port'
  BY <1>1, <1>2
<1>4. \A k \in Len(port) + 1 .. Len(port') : k \in DOMAIN port'
  BY <1>1, <1>2
<1>5. \A o : InPort(o) => InPort(o)'
  BY <1>1, <1>2, <1>3 DEF InPort
<1>6. \A o \in S : InPort(o)'
  BY <1>1, <1>4 DEF InPort
<1>7. ASSUME \A i \in DOMAIN port' : port'[i].aborted
      PROVE  (\A i \in DOMAIN port : port[i].aborted) /\ (S = {} \/ aborted)
  BY <1>1, <1>2, <1>3, <1>4, <1>7
<1> QED
  BY <1>5, <1>6, <1>7

\* Windows breaks oplocks of watches: their packets wait.
LEMMA AskIsNoticed ==
    ASSUME MissInv, NEW n \in Nodes, AskForDirectory(n)
    PROVE  MissInv'
<1> DEFINE S == {o \in oplocks : directory_id[o] \in Subtree(n)}
<1>i. IInv'
  BY AskStep DEF MissInv
<1>u. /\ UNCHANGED <<child, file, writing, backend, inotifyQueue, inotifyWatches, watched_files,
                     fired, directory_id, watched_directories, cancelling, pc, phase, at, handle,
                     found, seen, blind>>
      /\ Post(S, FALSE) /\ S # {}
  BY DEF AskForDirectory, inotifyVars, kqueueVars, lookVars
<1>1. port \in Seq(Packets) /\ S \subseteq Objects /\ S \subseteq oplocks
  BY DEF MissInv, IInv, Types
<1>2. oplocks' = oplocks \ S
  BY <1>u DEF Post
<1> HIDE DEF S
<1>3. /\ \A o : InPort(o) => InPort(o)'
      /\ \A o \in S : InPort(o)'
      /\ ~(\A i \in DOMAIN port' : port'[i].aborted)
  BY <1>u, <1>1, PostAdds
<1>4. \A l \in Levels : DirAt(l)' = DirAt(l) /\ ConfigAt(l)' = ConfigAt(l)
  BY <1>u, SameDisk
<1>5. \A k : Calm(k)' => Calm(k) /\ backend # "win32"
  BY <1>u, <1>3 DEF Calm
<1>6. LookTypes' /\ PhaseInv'
  BY <1>u DEF MissInv, LookTypes, PhaseInv
<1>7. DeafInv'
  <2> SUFFICES ASSUME NEW l \in Levels, NEW o, o = watched_directories[l], o # None
               PROVE  \/ o \in oplocks' \/ InPort(o)'
                      \/ (pc = "register" /\ backend = "win32" /\ l = at)
                      \/ l \in blind
    BY <1>u DEF DeafInv, InPort
  <2> QED
    BY <1>2, <1>3 DEF MissInv, DeafInv
<1>8. \A l \in Levels : /\ Covered(l)' <=> Covered(l)
                        /\ Passed(l)' <=> Passed(l)
                        /\ backend # "win32" => (Sees(l)' <=> Sees(l))
  BY <1>u, <1>4 DEF Covered, Passed, Sees
<1>9. ASSUME Sighted PROVE Sighted'
  <2>1. at \in Levels
    BY DEF MissInv, IInv, Types
  <2>2. OnPath(writing)' <=> OnPath(writing)
    BY <1>u DEF OnPath, Subtree, Chain
  <2>3. WatchInv'
    BY <1>5, <1>8, <1>9 DEF Sighted, WatchInv
  <2>4. ReadInv'
    BY <1>u, <1>4, <1>5, <1>8, <1>9, <2>1 DEF Sighted, ReadInv
  <2>5. SeenInv'
    BY <1>u, <1>4, <1>5, <1>9, <2>1, <2>2 DEF Sighted, SeenInv
  <2>6. FileInv' /\ RegisterInv'
    BY <1>u, <1>4, <1>5, <1>9, <2>1 DEF Sighted, FileInv, RegisterInv
  <2> QED
    BY <2>3, <2>4, <2>5, <2>6 DEF Sighted
<1> QED
  BY <1>i, <1>u, <1>6, <1>7, <1>9 DEF MissInv

\* The directory `at' is watched, or is not there.
LEMMA WatchDone ==
    ASSUME MissInv, Sighted, AfterWatch,
           UNCHANGED <<child, file, writing, backend, phase, at, found, seen>>,
           \A k \in Int : Calm(k)' => Calm(k) \/ (phase = "canonicalize" /\ k > at),
           \A l \in Levels \ {at} : Calm(l)' /\ Covered(l) /\ Sees(l) => Sees(l)',
           Calm(at)' => Sees(at)'
    PROVE  Sighted'
<1>l. Levels \subseteq Int /\ at \in Levels /\ \A l \in Levels : l + 1 \in Int
  BY DiskAssumption DEF Levels, MissInv, IInv, Types
<1>1. \A l \in Levels : DirAt(l)' = DirAt(l) /\ ConfigAt(l)' = ConfigAt(l)
  BY SameDisk
<1>2. pc' \in {"stat", "read"}
  BY DEF AfterWatch
<1>3. \A l \in Levels : Covered(l)' => l = at \/ Covered(l)
  BY <1>l DEF Covered
<1>4. \A l \in Levels : Covered(l) /\ phase = "canonicalize" => ~(l > at)
  BY <1>l DEF Covered
<1>5. WatchInv'
  <2> SUFFICES ASSUME NEW l \in Levels, Covered(l)', Calm(l)' PROVE Sees(l)'
    BY DEF WatchInv
  <2>1. CASE l = at
    <3>1. \A k \in Levels : k = at /\ Calm(k)' => Calm(at)'
      OBVIOUS
    <3>2. \A k \in Levels : k = at /\ Sees(at)' => Sees(k)'
      OBVIOUS
    <3> QED
      BY <2>1, <3>1, <3>2
  <2>2. CASE l # at
    <3>1. Covered(l) /\ Calm(l)
      BY <2>2, <1>l, <1>3, <1>4
    <3>2. Sees(l)
      BY <3>1 DEF Sighted, WatchInv
    <3> QED
      BY <2>2, <3>1, <3>2
  <2> QED
    BY <2>1, <2>2
<1>6. \A l \in Levels : Passed(l)' => Passed(l) /\ phase # "canonicalize"
  BY <1>2 DEF Passed
<1>7. ReadInv'
  BY <1>l, <1>1, <1>6 DEF Sighted, ReadInv
<1>8. SeenInv' /\ FileInv' /\ RegisterInv'
  BY <1>2 DEF SeenInv, FileInv, RegisterInv
<1> QED
  BY <1>5, <1>7, <1>8 DEF Sighted

\* What is left to show of such a step.
LEMMA WatchKeeps ==
    ASSUME MissInv, IInv', pc \in {"watch", "register"}, AfterWatch,
           UNCHANGED <<file, backend, phase, watched_directories>>,
           watched_files' \in [Keys -> AllNodes \cup {None, Dead}],
           oplocks \subseteq oplocks', UNCHANGED port, blind \subseteq blind',
           pc = "register" /\ backend = "win32" =>
              watched_directories[at] \in oplocks' \/ at \in blind',
           blind' = {} /\ Sighted => Sighted'
    PROVE  MissInv'
<1>1. LookTypes'
  BY DEF MissInv, LookTypes
<1>2. PhaseInv'
  BY DEF MissInv, PhaseInv, AfterWatch
<1>3. DeafInv'
  BY DEF MissInv, DeafInv, InPort
<1>4. blind' = {} => Sighted'
  BY DEF MissInv
<1> QED
  BY <1>1, <1>2, <1>3, <1>4 DEF MissInv

LEMMA CannotWatchIsNoticed == ASSUME MissInv, CannotWatch PROVE MissInv'
<1>i. IInv'
  BY LookStep DEF MissInv
<1>u. /\ UNCHANGED <<child, file, writing, backend, inotifyQueue, inotifyWatches, watched_files,
                     fired, directory_id, oplocks, port, watched_directories, phase, at, found,
                     seen>>
      /\ pc = "watch" /\ AfterWatch
      /\ blind \subseteq blind' /\ (blind' = {} => DirAt(at) = None)
  BY DEF CannotWatch, FailedWatch, kernelVars, inotifyVars, kqueueVars, win32Vars, diskVars
<1>1. at \in Levels
  BY DEF MissInv, IInv, Types
<1>2. \A l \in Levels : DirAt(l)' = DirAt(l)
  BY <1>u, SameDisk
<1>3. \A l \in Levels : Sees(l) => Sees(l)'
  BY <1>u, <1>2 DEF Sees
<1>4. \A k : Calm(k)' <=> Calm(k)
  BY <1>u DEF Calm
<1>5. ASSUME blind' = {}, Sighted PROVE Sighted'
  <2>1. Sees(at)'
    BY <1>u, <1>1, <1>2, <1>5 DEF Sees
  <2> QED
    BY <1>u, <1>3, <1>4, <1>5, <2>1, WatchDone
<1>6. watched_files' \in [Keys -> AllNodes \cup {None, Dead}]
  BY <1>u DEF MissInv, LookTypes
<1> QED
  BY <1>i, <1>u, <1>5, <1>6, WatchKeeps

LEMMA InotifyWatchIsNoticed == ASSUME MissInv, InotifyWatch PROVE MissInv'
<1>i. IInv'
  BY InotifyStep DEF MissInv
<1>u. /\ UNCHANGED <<child, file, writing, backend, inotifyQueue, watched_files, fired,
                     directory_id, oplocks, port, watched_directories, phase, at, found, seen,
                     blind>>
      /\ pc = "watch" /\ backend = "inotify" /\ AfterWatch
      /\ inotifyWatches' = inotifyWatches \cup {DirAt(at)}
  BY DEF InotifyWatch, Watching, Watched, kqueueVars, win32Vars, diskVars
<1>1. at \in Levels
  BY DEF MissInv, IInv, Types
<1>2. \A l \in Levels : DirAt(l)' = DirAt(l)
  BY <1>u, SameDisk
<1>3. \A l \in Levels : Sees(l) => Sees(l)'
  BY <1>u, <1>2 DEF Sees
<1>4. \A k : Calm(k)' <=> Calm(k)
  BY <1>u DEF Calm
<1>5. Sees(at)'
  BY <1>u, <1>1, <1>2 DEF Sees
<1>6. Sighted => Sighted'
  BY <1>u, <1>3, <1>4, <1>5, WatchDone
<1>7. watched_files' \in [Keys -> AllNodes \cup {None, Dead}]
  BY <1>u DEF MissInv, LookTypes
<1> QED
  BY <1>i, <1>u, <1>6, <1>7, WatchKeeps

LEMMA KqueueWatchIsNoticed == ASSUME MissInv, KqueueWatch PROVE MissInv'
<1> DEFINE key == <<"directory", at>>
<1>i. IInv'
  BY LookStep DEF MissInv
<1>u. /\ UNCHANGED <<child, file, writing, backend, inotifyQueue, inotifyWatches,
                     directory_id, oplocks, port, watched_directories, phase, at, found, seen,
                     blind>>
      /\ pc = "register" /\ backend = "kqueue" /\ AfterWatch
      /\ \/ watched_files[key] = handle /\ UNCHANGED <<watched_files, fired>>
         \/ /\ watched_files[key] # handle
            /\ watched_files' = [watched_files EXCEPT ![key] = handle]
            /\ fired' = fired \ {key}
  BY DEF KqueueWatch, KqueueRegister, Register, Watched, inotifyVars, win32Vars, diskVars
<1>l. Levels \subseteq Int /\ at \in Levels /\ key \in Keys
      /\ \A l \in Levels : <<"directory", l>> \in Keys
  BY DiskAssumption DEF Levels, MissInv, IInv, Types, Keys
<1>t. watched_files \in [Keys -> AllNodes \cup {None, Dead}] /\ handle \in AllNodes
  BY <1>u DEF MissInv, LookTypes, PhaseInv
<1>2. \A l \in Levels : DirAt(l)' = DirAt(l)
  BY <1>u, SameDisk
<1>3. \A l \in Levels : l # at =>
         watched_files'[<<"directory", l>>] = watched_files[<<"directory", l>>]
  BY <1>u, <1>l, <1>t
<1>4. \A l \in Levels : l # at /\ Sees(l) => Sees(l)'
  BY <1>u, <1>2, <1>3 DEF Sees
<1>5. \A k \in Int : k <= at /\ Calm(k)' => Calm(k)
  BY <1>u, <1>l DEF Calm
<1>6. ASSUME Sighted PROVE Sighted'
  <2>h. Calm(at) => handle = DirAt(at)
    BY <1>6, <1>u DEF Sighted, RegisterInv
  <2>1. Calm(at)' => Sees(at)'
    <3>1. watched_files'[key] = handle
      BY <1>u, <1>l, <1>t
    <3>2. SUFFICES ASSUME Calm(at)', NEW l, l = at PROVE Sees(l)'
      BY <1>u
    <3>3. Calm(at)
      <4>1. at' = at /\ at \in Int /\ at <= at
        BY <1>u, <1>l
      <4>2. \A k : k = at' /\ Calm(at)' => Calm(k)'
        OBVIOUS
      <4> QED
        BY <1>5, <3>2, <4>1, <4>2
    <3> QED
      BY <1>u, <1>l, <1>2, <2>h, <3>1, <3>2, <3>3 DEF Sees
  <2>2. ASSUME NEW k \in Int, Calm(k)', k > at, phase # "canonicalize" PROVE Calm(k)
    <3>1. at \in Int /\ at <= k
      BY <1>l, <2>2
    <3>2. Calm(at)
      <4>1. \A j \in Int : j <= k => Calm(j)'
        BY <2>2, CalmWasAbove
      <4> QED
        BY <3>1, <4>1, <1>5
    <3>3. Covered(at)
      BY <1>u, <2>2 DEF Covered
    <3>4. Sees(at) /\ handle = DirAt(at)
      BY <1>6, <1>l, <2>h, <3>2, <3>3 DEF Sighted, WatchInv
    <3>5. watched_files[key] = handle
      BY <1>u, <1>t, <3>4, DiskAssumption DEF Sees
    <3>6. UNCHANGED <<watched_files, fired>>
      BY <1>u, <3>5
    <3> QED
      BY <1>u, <2>2, <3>6 DEF Calm
  <2>3. \A k \in Int : Calm(k)' => Calm(k) \/ (phase = "canonicalize" /\ k > at)
    BY <1>l, <1>5, <2>2
  <2> QED
    BY <1>6, <1>u, <1>4, <2>1, <2>3, WatchDone
<1>7. watched_files' \in [Keys -> AllNodes \cup {None, Dead}]
  BY <1>u, <1>t, <1>l
<1> QED
  BY <1>i, <1>u, <1>6, <1>7, WatchKeeps

LEMMA OpeningIsNoticed == ASSUME MissInv, KqueueOpen PROVE MissInv'
<1>i. IInv'
  BY LookStep DEF MissInv
<1>u. /\ UNCHANGED <<child, file, writing, backend, inotifyQueue, inotifyWatches, watched_files,
                     fired, directory_id, oplocks, port, watched_directories, phase, at, found,
                     seen, blind>>
      /\ pc = "watch" /\ backend = "kqueue" /\ pc' = "register" /\ handle' = DirAt(at)
  BY DEF KqueueOpen, Watching, kernelVars, inotifyVars, kqueueVars, win32Vars, diskVars
<1>1. at \in Levels
  BY DEF MissInv, IInv, Types
<1>2. \A l \in Levels : DirAt(l)' = DirAt(l) /\ ConfigAt(l)' = ConfigAt(l)
  BY <1>u, SameDisk
<1>3. \A l \in Levels : /\ Sees(l) => Sees(l)'
                        /\ Covered(l)' => Covered(l)
                        /\ Passed(l)' => Passed(l)
  BY <1>u, <1>2 DEF Sees, Covered, Passed
<1>4. \A k : Calm(k)' <=> Calm(k)
  BY <1>u DEF Calm
<1>5. DirAt(at) \in AllNodes
  BY <1>1, PathExists DEF KqueueOpen, MissInv, IInv
<1>6. LookTypes' /\ PhaseInv' /\ DeafInv'
  BY <1>u, <1>5 DEF MissInv, LookTypes, PhaseInv, DeafInv, InPort
<1>7. ASSUME Sighted PROVE Sighted'
  <2>1. WatchInv'
    BY <1>3, <1>4, <1>7 DEF Sighted, WatchInv
  <2>2. ReadInv'
    BY <1>u, <1>1, <1>2, <1>3, <1>4, <1>7 DEF Sighted, ReadInv
  <2>3. SeenInv' /\ FileInv'
    BY <1>u DEF SeenInv, FileInv
  <2>4. RegisterInv'
    BY <1>u, <1>1, <1>2 DEF RegisterInv
  <2> QED
    BY <2>1, <2>2, <2>3, <2>4 DEF Sighted
<1> QED
  BY <1>i, <1>u, <1>6, <1>7 DEF MissInv

\* Windows: the directory is watched already, and its oplock is not broken.
LEMMA StaysOpen ==
    ASSUME MissInv, Win32Open, NEW old, old = watched_directories[at], old # None,
           directory_id[old] = DirAt(at)
    PROVE  MissInv'
<1>i. IInv'
  BY OpenStep DEF MissInv
<1>u. /\ UNCHANGED <<child, file, writing, backend, inotifyQueue, inotifyWatches, watched_files,
                     fired, directory_id, oplocks, port, watched_directories, cancelling, handle,
                     phase, at, found, seen, blind>>
      /\ pc = "watch" /\ backend = "win32" /\ AfterWatch
  BY DEF Win32Open, Watching, inotifyVars, kqueueVars, win32Vars, diskVars
<1>1. at \in Levels
  BY DEF MissInv, IInv, Types
<1>2. \A l \in Levels : DirAt(l)' = DirAt(l)
  BY <1>u, SameDisk
<1>3. \A l \in Levels : Sees(l) => Sees(l)'
  BY <1>u, <1>2 DEF Sees
<1>4. \A k : Calm(k)' <=> Calm(k)
  BY <1>u DEF Calm
<1>5. ASSUME blind = {}, Calm(at) PROVE old \in oplocks
  <2>1. old \in oplocks \/ InPort(old)
    BY <1>u, <1>1, <1>5 DEF MissInv, DeafInv
  <2>2. old \notin cancelling
    BY <1>1 DEF MissInv, IInv, ObjectsInv
  <2>3. ASSUME NEW k \in DOMAIN port, port[k].object = old PROVE ~port[k].aborted
    BY <2>2, <2>3 DEF MissInv, IInv, PortInv
  <2> QED
    BY <1>u, <1>5, <2>1, <2>3 DEF InPort, Calm
<1>6. ASSUME blind' = {}, Sighted PROVE Sighted'
  <2>1. Calm(at)' => Sees(at)'
    <3>1. Calm(at)' => Calm(at)
      BY <1>u DEF Calm
    <3> QED
      BY <1>u, <1>1, <1>2, <1>5, <1>6, <3>1 DEF Sees
  <2> QED
    BY <1>u, <1>3, <1>4, <1>6, <2>1, WatchDone
<1>7. watched_files' \in [Keys -> AllNodes \cup {None, Dead}]
  BY <1>u DEF MissInv, LookTypes
<1> QED
  BY <1>i, <1>u, <1>6, <1>7, WatchKeeps

\* Windows: another directory is opened; the oplock of the one that was there is
\* cancelled, which tells the loader nothing.
LEMMA OpensAnother ==
    ASSUME MissInv, Win32Open, NEW old, old = watched_directories[at],
           ~(old # None /\ directory_id[old] = DirAt(at))
    PROVE  MissInv'
<1>i. IInv'
  BY OpenStep DEF MissInv
<1>u. /\ UNCHANGED <<child, file, writing, backend, inotifyQueue, inotifyWatches, watched_files,
                     fired, phase, at, found, seen, blind>>
      /\ pc = "watch" /\ backend = "win32" /\ DirAt(at) # None
  BY DEF Win32Open, Watching, inotifyVars, kqueueVars, diskVars
<1>1. PICK o \in Objects :
          /\ directory_id[o] = None
          /\ directory_id' = [directory_id EXCEPT ![o] = DirAt(at)]
          /\ watched_directories' = [watched_directories EXCEPT ![at] = o]
          /\ IF old = None THEN UNCHANGED <<cancelling, oplocks, port>> ELSE CancelWatch(old)
          /\ handle' = o
          /\ pc' = "register"
  BY DEF Win32Open
<1>n. None \notin Objects
  BY BackendAssumption
<1>l. Levels \subseteq Int /\ at \in Levels /\ \A l \in Levels : l + 1 \in Int
  BY DiskAssumption DEF Levels, MissInv, IInv, Types
<1>t. /\ watched_directories \in [Levels -> Objects \cup {None}]
      /\ directory_id \in [Objects -> AllNodes \cup {None}]
      /\ oplocks \subseteq Objects /\ port \in Seq(Packets)
      /\ \A l \in Levels : watched_directories[l] # None
                             => directory_id[watched_directories[l]] # None
      /\ \A l \in Levels : l # at /\ watched_directories[l] # None => watched_directories[l] # old
  BY <1>l DEF MissInv, IInv, Types, ObjectsInv
<1>2. \A l \in Levels : DirAt(l)' = DirAt(l) /\ ConfigAt(l)' = ConfigAt(l)
  BY <1>u, SameDisk
<1>3. /\ \A p : InPort(p) => InPort(p)'
      /\ (\A i \in DOMAIN port' : port'[i].aborted) => (\A i \in DOMAIN port : port[i].aborted)
      /\ oplocks \ {old} \subseteq oplocks'
  <2>1. CASE old = None
    BY <1>1, <2>1 DEF InPort
  <2>2. CASE old # None
    <3> DEFINE S == {old} \cap oplocks
    <3>1. Post(S, TRUE) /\ S \subseteq Objects
      BY <1>1, <1>t, <2>2 DEF CancelWatch
    <3>2. oplocks' = oplocks \ S
      BY <3>1 DEF Post
    <3>3. /\ \A p : InPort(p) => InPort(p)'
          /\ (\A i \in DOMAIN port' : port'[i].aborted)
               => (\A i \in DOMAIN port : port[i].aborted)
      <4> HIDE DEF S
      <4> QED
        BY <1>t, <3>1, PostAdds
    <3> QED
      BY <3>2, <3>3
  <2> QED
    BY <2>1, <2>2
<1>4. \A k : Calm(k)' => Calm(k)
  BY <1>u, <1>3 DEF Calm
<1>5. \A l \in Levels : (Covered(l)' => Covered(l)) /\ (Passed(l)' => Passed(l))
  BY <1>u, <1>1 DEF Covered, Passed
<1>6. ASSUME NEW l \in Levels, Sees(l), DirAt(l) # None
      PROVE  l # at /\ Sees(l)'
  <2>1. watched_directories[l] \in oplocks /\ directory_id[watched_directories[l]] = DirAt(l)
    BY <1>u, <1>6 DEF Sees
  <2>2. watched_directories[l] # None
    BY <1>n, <1>t, <2>1
  <2>3. l # at
    BY <2>1, <2>2
  <2>4. watched_directories[l] # old /\ watched_directories[l] # o
    BY <1>1, <1>t, <2>2, <2>3
  <2>5. watched_directories'[l] = watched_directories[l]
        /\ watched_directories[l] \in oplocks'
        /\ directory_id'[watched_directories[l]] = directory_id[watched_directories[l]]
    BY <1>1, <1>3, <1>t, <2>1, <2>3, <2>4
  <2> QED
    BY <1>u, <1>2, <2>1, <2>3, <2>5 DEF Sees
<1>7. LookTypes' /\ PhaseInv'
  BY <1>u, <1>1 DEF MissInv, LookTypes, PhaseInv
<1>8. DeafInv'
  <2> SUFFICES ASSUME NEW l \in Levels, NEW w, w = watched_directories'[l], w # None, l # at
               PROVE  w \in oplocks' \/ InPort(w)' \/ l \in blind
    BY <1>u, <1>1 DEF DeafInv, InPort
  <2>1. w = watched_directories[l] /\ w # old
    BY <1>1, <1>t
  <2>2. w \in oplocks \/ InPort(w) \/ l \in blind
    BY <1>u, <2>1 DEF MissInv, DeafInv
  <2> QED
    BY <1>3, <2>1, <2>2
<1>9. ASSUME Sighted PROVE Sighted'
  <2>1. WatchInv'
    <3> SUFFICES ASSUME NEW l \in Levels, Covered(l), Calm(l) PROVE Sees(l)'
      BY <1>4, <1>5 DEF WatchInv
    <3>1. Sees(l)
      BY <1>9 DEF Sighted, WatchInv
    <3>2. DirAt(l) = None => Sees(l)'
      BY <1>2 DEF Sees
    <3> QED
      BY <1>6, <3>1, <3>2
  <2>2. ReadInv'
    BY <1>u, <1>l, <1>2, <1>4, <1>5, <1>9 DEF Sighted, ReadInv
  <2>3. SeenInv' /\ FileInv'
    BY <1>u, <1>1 DEF SeenInv, FileInv
  <2>4. RegisterInv'
    BY <1>u, <1>1, <1>l, <1>t, <1>2 DEF RegisterInv
  <2> QED
    BY <2>1, <2>2, <2>3, <2>4 DEF Sighted
<1> QED
  BY <1>i, <1>u, <1>7, <1>8, <1>9 DEF MissInv

LEMMA RequestIsNoticed == ASSUME MissInv, Win32RequestOplock PROVE MissInv'
<1>i. IInv'
  BY RequestStep DEF MissInv
<1>u. /\ UNCHANGED <<child, file, writing, backend, inotifyQueue, inotifyWatches, watched_files,
                     fired, directory_id, port, watched_directories, phase, at, found, seen,
                     blind>>
      /\ pc = "register" /\ backend = "win32" /\ AfterWatch
      /\ oplocks' = oplocks \cup {handle}
  BY DEF Win32RequestOplock, Watched, inotifyVars, kqueueVars, diskVars
<1>1. at \in Levels /\ watched_directories[at] = handle
  BY <1>u DEF MissInv, IInv, Types, HandleInv
<1>2. \A l \in Levels : DirAt(l)' = DirAt(l)
  BY <1>u, SameDisk
<1>3. \A l \in Levels : Sees(l) => Sees(l)'
  BY <1>u, <1>2 DEF Sees
<1>4. \A k : Calm(k)' <=> Calm(k)
  BY <1>u DEF Calm
<1>5. ASSUME Sighted PROVE Sighted'
  <2>1. Sees(at)'
    BY <1>u, <1>1, <1>2, <1>5 DEF Sees, Sighted, RegisterInv
  <2> QED
    BY <1>u, <1>3, <1>4, <1>5, <2>1, WatchDone
<1>6. watched_files' \in [Keys -> AllNodes \cup {None, Dead}]
  BY <1>u DEF MissInv, LookTypes
<1> QED
  BY <1>i, <1>u, <1>1, <1>5, <1>6, WatchKeeps

LEMMA RefusalIsNoticed == ASSUME MissInv, Win32RequestFails PROVE MissInv'
<1>i. IInv'
  BY LookStep DEF MissInv
<1>u. /\ UNCHANGED <<file, backend, watched_files, oplocks, port, watched_directories, phase, at>>
      /\ pc = "register" /\ AfterWatch /\ blind' = blind \cup {at}
  BY DEF Win32RequestFails, kernelVars, kqueueVars, win32Vars, diskVars
<1>1. watched_files' \in [Keys -> AllNodes \cup {None, Dead}]
  BY <1>u DEF MissInv, LookTypes
<1> QED
  BY <1>i, <1>u, <1>1, WatchKeeps

\* The path ends at this directory, or goes on.
LEMMA StatIsNoticed == ASSUME MissInv, Stat PROVE MissInv'
<1> DEFINE more == at < Depth /\ DirAt(at + 1) # None
<1>i. IInv'
  BY LookStep DEF MissInv
<1>u. /\ UNCHANGED <<child, file, writing, backend, inotifyQueue, inotifyWatches, watched_files,
                     fired, directory_id, oplocks, port, watched_directories, handle, found, seen,
                     blind>>
      /\ pc = "stat" /\ phase = "canonicalize"
  BY DEF Stat, LookUnchanged, kernelVars, inotifyVars, kqueueVars, win32Vars, diskVars,
         MissInv, PhaseInv
<1>g. IF more THEN GoTo("canonicalize", at + 1) ELSE GoTo("search", at)
  BY DEF Stat
<1>1. /\ at' = (IF more THEN at + 1 ELSE at)
      /\ phase' = (IF more THEN "canonicalize" ELSE "search")
      /\ pc' \in {"watch", "stat"}
      /\ pc' = "stat" => more /\ backend = "win32"
  BY <1>g DEF GoTo, FirstStep
<1>l. /\ Levels \subseteq Int /\ at \in Levels /\ \A l \in Levels : l + 1 \in Int
      /\ Depth \in Nat /\ Levels = 0 .. Depth
  BY DiskAssumption DEF Levels, MissInv, IInv, Types
<1>2. \A l \in Levels : DirAt(l)' = DirAt(l) /\ ConfigAt(l)' = ConfigAt(l)
  BY <1>u, SameDisk
<1>3. \A l \in Levels : Sees(l) => Sees(l)'
  BY <1>u, <1>2 DEF Sees
<1>4. \A k : Calm(k)' <=> Calm(k)
  BY <1>u DEF Calm
<1>5. ASSUME ~more, NEW l \in Levels, l > at PROVE DirAt(l) = None
  <2> DEFINE p == Chain(Top)
  <2>1. at + 1 \in Levels /\ l >= at + 1
    BY <1>l, <1>5
  <2>2. DirAt(at + 1) = None
    BY <1>l, <1>5, <2>1
  <2>3. Top \in AllNodes /\ child \in [AllNodes -> Nodes \cup {None}]
    BY DEF AllNodes, MissInv, IInv, Types
  <2>4. \A k \in 1 .. Depth : p[k] = IF p[k - 1] = None THEN None ELSE child[p[k - 1]]
    BY <2>3, ChainIs
  <2>5. p[at + 1] = None
    BY <2>2 DEF DirAt
  <2> HIDE DEF p
  <2>6. p[l] = None
    BY <2>1, <2>4, <2>5, PathEnds
  <2> QED
    BY <2>6 DEF DirAt, p
<1> HIDE DEF more
<1>6. LookTypes' /\ PhaseInv' /\ DeafInv'
  BY <1>u, <1>1 DEF MissInv, LookTypes, PhaseInv, DeafInv, InPort
<1>7. ASSUME NEW l \in Levels, Covered(l)' PROVE Covered(l) \/ (~more /\ l > at)
  BY <1>7, <1>u, <1>1, <1>l DEF Covered
<1>8. \A l \in Levels : DirAt(l) = None => ConfigAt(l) = None /\ Sees(l)'
  BY <1>2 DEF ConfigAt, Sees
<1>9. ASSUME Sighted PROVE Sighted'
  <2>1. WatchInv'
    <3> SUFFICES ASSUME NEW l \in Levels, Covered(l)', Calm(l) PROVE Sees(l)'
      BY <1>4 DEF WatchInv
    <3>1. CASE Covered(l)
      BY <3>1, <1>3, <1>9 DEF Sighted, WatchInv
    <3>2. CASE ~more /\ l > at
      BY <3>2, <1>5, <1>8
    <3> QED
      BY <1>7, <3>1, <3>2
  <2>2. ASSUME NEW l \in Levels, Passed(l)' PROVE ConfigAt(l)' = None
    <3>1. ~more /\ l > at
      BY <2>2, <1>1 DEF Passed
    <3> QED
      BY <3>1, <1>2, <1>5, <1>8
  <2>3. ReadInv'
    BY <2>2, <1>1 DEF ReadInv
  <2>4. SeenInv' /\ FileInv' /\ RegisterInv'
    BY <1>1 DEF SeenInv, FileInv, RegisterInv
  <2> QED
    BY <2>1, <2>3, <2>4 DEF Sighted
<1> QED
  BY <1>i, <1>u, <1>6, <1>9 DEF MissInv

\* What was read is what is there, unless something of the directories above it,
\* or of its own, waits.
LEMMA ReadIsNoticed ==
    ASSUME MissInv, IInv', pc \in {"read", "contents"}, NEW content, HasRead(content),
           UNCHANGED <<child, file, writing, backend, inotifyQueue, inotifyWatches, watched_files,
                       fired, directory_id, oplocks, port, watched_directories, handle, blind>>,
           blind = {} =>
              /\ Calm(at + 1) => content = ConfigAt(at)
              /\ backend = "kqueue" /\ phase = "reload" /\ Calm(at + 1)
                   => DirAt(at) # None /\ watched_files[<<"file", at>>] = DirAt(at)
    PROVE  MissInv'
<1>l. /\ Levels \subseteq Int /\ at \in Levels /\ \A l \in Levels : l + 1 \in Int
      /\ \A l \in Levels : l >= 0
  BY DiskAssumption DEF Levels, MissInv, IInv, Types
<1>p. phase \in {"search", "reload"}
  BY DEF MissInv, LookTypes, PhaseInv
<1>1. \/ /\ phase = "search" /\ content # None
         /\ phase' = "reload" /\ at' = at /\ pc' = "watch"
      \/ /\ phase = "search" /\ content = None /\ at > 0
         /\ phase' = "search" /\ at' = at - 1 /\ pc' = "watch"
      \/ /\ phase = "search" /\ content = None /\ at = 0
         /\ pc' = "idle" /\ seen' = NotFound /\ UNCHANGED <<phase, at>>
      \/ /\ phase = "reload" /\ pc' = "idle" /\ UNCHANGED <<phase, at>>
         /\ seen' = IF content = None THEN found ELSE Found(at, content)
  BY <1>l, <1>p DEF HasRead, GoTo, FirstStep
<1>2. \A l \in Levels : DirAt(l)' = DirAt(l) /\ ConfigAt(l)' = ConfigAt(l)
  BY SameDisk
<1>3. \A l \in Levels : Sees(l) => Sees(l)'
  BY <1>2 DEF Sees
<1>4. \A k : Calm(k)' <=> Calm(k)
  BY DEF Calm
<1>5. LookTypes' /\ PhaseInv' /\ DeafInv'
  BY <1>1 DEF MissInv, LookTypes, PhaseInv, DeafInv, InPort
<1>6. \A l \in Levels : Covered(l)' => Covered(l)
  <2> SUFFICES ASSUME NEW l \in Levels, Covered(l)' PROVE Covered(l)
    OBVIOUS
  <2>1. l \in Int /\ at \in Int
    BY <1>l
  <2>2. pc \notin {"watch", "register"} /\ phase # "canonicalize" /\ phase' # "canonicalize"
    BY <1>1, <1>p
  <2>3. l >= at \/ backend # "win32"
    BY <1>1, <2>1, <2>2 DEF Covered
  <2> QED
    BY <2>1, <2>2, <2>3 DEF Covered
<1>7. \A l \in Levels : Passed(l)' => Passed(l) \/ (l = at /\ phase = "search" /\ content = None)
  <2> SUFFICES ASSUME NEW l \in Levels, Passed(l)'
               PROVE  Passed(l) \/ (l = at /\ phase = "search" /\ content = None)
    OBVIOUS
  <2>1. l \in Int /\ at \in Int /\ l >= 0
    BY <1>l
  <2>2. phase # "canonicalize" /\ (l > at' \/ (pc' = "idle" /\ phase' = "search"))
    BY <1>p DEF Passed
  <2>3. l > at \/ (l = at /\ phase = "search" /\ content = None)
    BY <1>1, <2>1, <2>2
  <2> QED
    BY <2>2, <2>3 DEF Passed
<1>8. ASSUME Sighted, blind = {} PROVE Sighted'
  <2>c. /\ Calm(at + 1) => content = ConfigAt(at)
        /\ backend = "kqueue" /\ phase = "reload" /\ Calm(at + 1)
             => DirAt(at) # None /\ watched_files[<<"file", at>>] = DirAt(at)
    BY <1>8
  <2>r. /\ \A l \in Levels : Passed(l) /\ Calm(l + 1) => ConfigAt(l) = None
        /\ phase = "reload" /\ Calm(at + 1) => ConfigAt(at) # None
    BY <1>8 DEF Sighted, ReadInv
  <2>1. WatchInv'
    BY <1>3, <1>4, <1>6, <1>8 DEF Sighted, WatchInv
  <2>2. ASSUME NEW l \in Levels, Passed(l)', Calm(l + 1) PROVE ConfigAt(l) = None
    BY <2>2, <1>7, <2>c, <2>r
  <2>3. phase' = "reload" => at' = at /\ (Calm(at + 1) => ConfigAt(at) # None)
    BY <1>1, <2>c, <2>r
  <2>4. ReadInv'
    BY <1>2, <1>4, <1>l, <2>2, <2>3 DEF ReadInv
  <2>5. pc' # "contents" /\ (pc' = "idle" /\ phase' = "reload" => at' = at /\ phase = "reload")
    BY <1>1
  <2>6. ASSUME pc' = "idle", phase' = "reload", Calm(at + 1) PROVE seen' = Found(at, ConfigAt(at))
    BY <1>1, <2>c, <2>r, <2>6
  <2>7. SeenInv'
    BY <1>2, <1>4, <1>l, <2>5, <2>6 DEF SeenInv
  <2>8. FileInv'
    BY <1>2, <1>4, <1>l, <2>c, <2>5 DEF FileInv
  <2>9. RegisterInv'
    BY <1>1 DEF RegisterInv
  <2> QED
    BY <2>1, <2>4, <2>7, <2>8, <2>9 DEF Sighted
<1> QED
  BY <1>5, <1>8 DEF MissInv

LEMMA ReadFileIsNoticed == ASSUME MissInv, ReadFile PROVE MissInv'
<1>i. IInv'
  BY LookStep DEF MissInv
<1>u. /\ UNCHANGED <<child, file, writing, backend, inotifyQueue, inotifyWatches, watched_files,
                     fired, directory_id, oplocks, port, watched_directories, handle, blind>>
      /\ pc = "read" /\ HasRead(ConfigAt(at)) /\ (backend = "kqueue" => ConfigAt(at) = None)
  BY DEF ReadFile, LookUnchanged, kernelVars, inotifyVars, kqueueVars, win32Vars, diskVars
<1>1. blind = {} => ~(backend = "kqueue" /\ phase = "reload" /\ Calm(at + 1))
  BY <1>u DEF MissInv, Sighted, ReadInv
<1> DEFINE content == ConfigAt(at)
<1>2. HasRead(content) /\ (Calm(at + 1) => content = ConfigAt(at))
  BY <1>u
<1> HIDE DEF content
<1> QED
  BY <1>i, <1>u, <1>1, <1>2, ReadIsNoticed

LEMMA KqueueReadIsNoticed == ASSUME MissInv, KqueueReadFile PROVE MissInv'
<1> DEFINE node == watched_files[<<"file", at>>]
           content == IF node = Dead THEN opened ELSE file[node]
<1>i. IInv'
  BY LookStep DEF MissInv
<1>u. /\ UNCHANGED <<child, file, writing, backend, inotifyQueue, inotifyWatches, watched_files,
                     fired, directory_id, oplocks, port, watched_directories, handle, blind>>
      /\ pc = "contents" /\ HasRead(content)
  BY DEF KqueueReadFile, inotifyVars, win32Vars, diskVars
<1>1. at \in Levels /\ backend = "kqueue"
  BY <1>u DEF MissInv, IInv, Types, PhaseInv
<1>2. DirAt(at) \in AllNodes \cup {None} /\ Dead \notin AllNodes
  BY <1>1, PathExists, BackendAssumption DEF MissInv, IInv
<1>3. ASSUME blind = {}, Calm(at + 1)
      PROVE  DirAt(at) # None /\ node = DirAt(at) /\ content = ConfigAt(at)
  <2>1. DirAt(at) # None /\ node = DirAt(at)
    BY <1>u, <1>1, <1>3 DEF MissInv, Sighted, FileInv
  <2> QED
    BY <1>2, <2>1 DEF ConfigAt
<1> HIDE DEF content
<1> QED
  BY <1>i, <1>u, <1>3, ReadIsNoticed

\* kqueue: the file is open, and its changes will be heard of.
LEMMA KqueueOpenIsNoticed == ASSUME MissInv, KqueueOpenFile PROVE MissInv'
<1> DEFINE key == <<"file", at>>
<1>i. IInv'
  BY LookStep DEF MissInv
<1>u. /\ UNCHANGED <<child, file, writing, backend, inotifyQueue, inotifyWatches,
                     directory_id, oplocks, port, watched_directories, handle, phase, at, found,
                     seen, blind>>
      /\ pc = "read" /\ backend = "kqueue" /\ ConfigAt(at) # None /\ pc' = "contents"
      /\ watched_files' = [watched_files EXCEPT ![key] = DirAt(at)]
      /\ fired' = fired \ {key}
  BY DEF KqueueOpenFile, Register, inotifyVars, win32Vars, diskVars
<1>l. /\ Levels \subseteq Int /\ at \in Levels /\ key \in Keys
      /\ \A l \in Levels : l + 1 \in Int
      /\ \A l \in Levels : <<"directory", l>> \in Keys
  BY DiskAssumption DEF Levels, MissInv, IInv, Types, Keys
<1>t. watched_files \in [Keys -> AllNodes \cup {None, Dead}] /\ phase # "canonicalize"
  BY <1>u DEF MissInv, LookTypes, PhaseInv
<1>1. DirAt(at) \in AllNodes
  BY <1>u, <1>l, PathExists DEF MissInv, IInv, ConfigAt
<1>2. \A l \in Levels : DirAt(l)' = DirAt(l) /\ ConfigAt(l)' = ConfigAt(l)
  BY <1>u, SameDisk
<1>3. /\ watched_files' \in [Keys -> AllNodes \cup {None, Dead}]
      /\ watched_files'[key] = DirAt(at)
      /\ \A l \in Levels :
           watched_files'[<<"directory", l>>] = watched_files[<<"directory", l>>]
  BY <1>u, <1>l, <1>t, <1>1
<1>4. \A l \in Levels : <<"directory", l>> \in fired' <=> <<"directory", l>> \in fired
  BY <1>u
<1> HIDE DEF key
<1>5. \A k : Calm(k)' <=> Calm(k)
  BY <1>u, <1>4 DEF Calm
<1>6. \A l \in Levels : /\ Sees(l) => Sees(l)'
                        /\ Covered(l)' => Covered(l)
                        /\ Passed(l)' => Passed(l)
  BY <1>u, <1>2, <1>3 DEF Sees, Covered, Passed
<1>7. LookTypes' /\ PhaseInv' /\ DeafInv'
  BY <1>u, <1>t, <1>3 DEF MissInv, LookTypes, PhaseInv, DeafInv, InPort
<1>8. ASSUME Sighted PROVE Sighted'
  <2>1. WatchInv'
    BY <1>5, <1>6, <1>8 DEF Sighted, WatchInv
  <2>2. ReadInv'
    BY <1>u, <1>l, <1>2, <1>5, <1>6, <1>8 DEF Sighted, ReadInv
  <2>3. SeenInv' /\ RegisterInv'
    BY <1>u DEF SeenInv, RegisterInv
  <2>4. DirAt(at) # None
    BY <1>u DEF ConfigAt
  <2>5. FileInv'
    BY <1>u, <1>l, <1>2, <1>3, <2>4 DEF FileInv, key
  <2> QED
    BY <2>1, <2>2, <2>3, <2>5 DEF Sighted
<1> QED
  BY <1>i, <1>u, <1>7, <1>8 DEF MissInv

\* The loader looks at everything again: it relies on nothing.
LEMMA RefreshIsNoticed ==
    ASSUME MissInv, IInv', Refresh, UNCHANGED <<file, backend, watched_files>>,
           \A l \in Levels : \A o : o = watched_directories'[l] /\ o # None =>
              /\ o = watched_directories[l]
              /\ o \in oplocks => o \in oplocks'
              /\ InPort(o) => InPort(o)'
    PROVE  MissInv'
<1>l. \A l \in Levels : ~(l < 0)
  BY DiskAssumption DEF Levels
<1>1. /\ phase' = "canonicalize" /\ at' = 0 /\ pc' \in {"watch", "stat"}
      /\ pc' = "stat" => backend = "win32"
      /\ blind' = {l \in Levels : Deaf(watched_directories[l])}
  BY DEF Refresh, GoTo, FirstStep
<1>2. LookTypes' /\ PhaseInv'
  BY <1>1 DEF MissInv, LookTypes, PhaseInv
<1>3. DeafInv'
  <2> SUFFICES ASSUME NEW l \in Levels, NEW o, o = watched_directories'[l], o # None
               PROVE  o \in oplocks' \/ InPort(o)' \/ l \in blind'
    BY DEF DeafInv, InPort
  <2>1. o = watched_directories[l] /\ (o \in oplocks => o \in oplocks') /\ (InPort(o) => InPort(o)')
    OBVIOUS
  <2>2. o \in oplocks \/ InPort(o) \/ Deaf(o)
    BY <2>1 DEF Deaf, InPort
  <2> QED
    BY <1>1, <2>1, <2>2
<1>4. WatchInv'
  BY <1>l, <1>1 DEF WatchInv, Covered
<1>5. ReadInv' /\ SeenInv' /\ FileInv' /\ RegisterInv'
  BY <1>1 DEF ReadInv, SeenInv, FileInv, RegisterInv, Passed
<1> QED
  BY <1>2, <1>3, <1>4, <1>5 DEF MissInv, Sighted

LEMMA EventsAreNoticed ==
    ASSUME MissInv, ReadInotify \/ HandleKqueueEvents
    PROVE  MissInv'
<1>1. IInv'
  BY InotifyStep, LookStep DEF MissInv
<1>2. Refresh /\ UNCHANGED <<file, backend, watched_files, watched_directories, oplocks, port>>
  BY DEF ReadInotify, HandleKqueueEvents, kqueueVars, win32Vars, diskVars
<1>3. \A o : InPort(o) => InPort(o)'
  BY <1>2 DEF InPort
<1> QED
  BY <1>1, <1>2, <1>3, RefreshIsNoticed

LEMMA OplockIsNoticed == ASSUME MissInv, HandleOplockEvent PROVE MissInv'
<1> DEFINE o == Head(port).object
<1>i. IInv'
  BY HandleStep DEF MissInv
<1>u. UNCHANGED <<child, file, writing, backend, inotifyQueue, inotifyWatches, watched_files,
                  fired, oplocks, handle, found, seen>>
  BY DEF HandleOplockEvent, inotifyVars, kqueueVars, diskVars
<1>1. /\ pc = "idle" /\ port # << >> /\ port' = Tail(port)
      /\ directory_id' = [directory_id EXCEPT ![o] = None]
      /\ watched_directories' = [l \in Levels |->
            IF watched_directories[l] = o THEN None ELSE watched_directories[l]]
      /\ IF Head(port).aborted THEN UNCHANGED <<pc, phase, at, blind>> ELSE Refresh
  BY DEF HandleOplockEvent, Free
<1>t. /\ port \in Seq(Packets)
      /\ watched_directories \in [Levels -> Objects \cup {None}]
      /\ directory_id \in [Objects -> AllNodes \cup {None}]
  BY DEF MissInv, IInv, Types
<1>2. Len(port) \in Nat \ {0} /\ port[1] = Head(port) /\ DOMAIN port = 1 .. Len(port)
      /\ 1 \in DOMAIN port
  BY <1>t, <1>1, EmptySeq, LenProperties
<1>3. Len(port') = Len(port) - 1 /\ \A k \in 1 .. Len(port') : port'[k] = port[k + 1]
      /\ DOMAIN port' = 1 .. Len(port')
  BY <1>t, <1>1, HeadTailProperties, LenProperties
<1>4. ASSUME NEW k \in DOMAIN port, k # 1
      PROVE  k - 1 \in DOMAIN port' /\ port'[k - 1] = port[k]
  <2>1. k - 1 \in 1 .. Len(port') /\ (k - 1) + 1 = k
    BY <1>2, <1>3, <1>4
  <2> QED
    BY <1>3, <2>1
<1>5. ASSUME NEW p, p # o, InPort(p) PROVE InPort(p)'
  <2>1. PICK k \in DOMAIN port : port[k].object = p
    BY <1>5 DEF InPort
  <2>2. k # 1
    BY <1>2, <1>5, <2>1
  <2> QED
    BY <1>4, <2>1, <2>2 DEF InPort
<1>6. ASSUME NEW l \in Levels, watched_directories'[l] # None
      PROVE  watched_directories'[l] = watched_directories[l] /\ watched_directories[l] # o
  BY <1>1, <1>6
<1>7. CASE ~Head(port).aborted
  <2>1. Refresh
    BY <1>1, <1>7
  <2> HIDE DEF o
  <2> QED
    BY <1>i, <1>u, <1>5, <1>6, <2>1, RefreshIsNoticed
<1>8. CASE Head(port).aborted
  <2>u. UNCHANGED <<pc, phase, at, blind>>
    BY <1>1, <1>8
  <2>1. o \in cancelling
    BY <1>2, <1>8 DEF MissInv, IInv, PortInv
  <2>2. \A l \in Levels : watched_directories[l] # None => watched_directories[l] # o
    BY <2>1 DEF MissInv, IInv, ObjectsInv
  <2>3. \A l \in Levels : watched_directories'[l] = watched_directories[l]
    BY <1>1, <1>t, <2>2
  <2>4. ASSUME \A i \in DOMAIN port' : port'[i].aborted, NEW i \in DOMAIN port
        PROVE  port[i].aborted
    BY <1>2, <1>4, <1>8, <2>4
  <2>5. \A k : Calm(k)' => Calm(k)
    BY <1>u, <2>4 DEF Calm
  <2>6. \A l \in Levels : DirAt(l)' = DirAt(l) /\ ConfigAt(l)' = ConfigAt(l)
    BY <1>u, SameDisk
  <2>7. \A p \in Objects : p # o => directory_id'[p] = directory_id[p]
    BY <1>1, <1>t
  <2>8. None \notin oplocks
    BY BackendAssumption DEF MissInv, IInv, Types
  <2>9. ASSUME NEW l \in Levels, Sees(l) PROVE Sees(l)'
    <3>1. CASE DirAt(l) # None /\ backend = "win32"
      <4>1. watched_directories[l] \in oplocks /\ directory_id[watched_directories[l]] = DirAt(l)
        BY <3>1, <2>9 DEF Sees
      <4>2. watched_directories[l] \in Objects /\ watched_directories[l] # o
        BY <1>t, <2>2, <2>8, <4>1
      <4> QED
        BY <1>u, <3>1, <2>3, <2>6, <2>7, <4>1, <4>2 DEF Sees
    <3>2. CASE ~(DirAt(l) # None /\ backend = "win32")
      BY <1>u, <3>2, <2>6, <2>9 DEF Sees
    <3> QED
      BY <3>1, <3>2
  <2>10. \A l \in Levels : (Covered(l)' <=> Covered(l)) /\ (Passed(l)' <=> Passed(l))
    BY <1>u, <2>u DEF Covered, Passed
  <2>11. LookTypes' /\ PhaseInv'
    BY <1>u, <1>1, <2>u DEF MissInv, LookTypes, PhaseInv
  <2>12. DeafInv'
    <3> SUFFICES ASSUME NEW l \in Levels, NEW p, p = watched_directories[l], p # None
                 PROVE  p \in oplocks \/ InPort(p)' \/ l \in blind
      BY <1>u, <2>u, <2>3 DEF DeafInv, InPort
    <3> QED
      BY <1>1, <1>5, <2>2 DEF MissInv, DeafInv
  <2>13. ASSUME Sighted PROVE Sighted'
    <3>1. at \in Levels /\ (OnPath(writing)' <=> OnPath(writing))
      BY <1>u DEF MissInv, IInv, Types, OnPath, Subtree, Chain
    <3>2. WatchInv'
      BY <2>5, <2>9, <2>10, <2>13 DEF Sighted, WatchInv
    <3>3. ReadInv'
      BY <2>u, <2>5, <2>6, <2>10, <2>13, <3>1 DEF Sighted, ReadInv
    <3>4. SeenInv'
      BY <1>u, <2>u, <2>5, <2>6, <2>13, <3>1 DEF Sighted, SeenInv
    <3>5. FileInv' /\ RegisterInv'
      BY <1>u, <1>1, <2>u, <2>5, <2>6, <2>13, <3>1 DEF Sighted, FileInv, RegisterInv
    <3> QED
      BY <3>2, <3>3, <3>4, <3>5 DEF Sighted
  <2> QED
    BY <1>i, <2>u, <2>11, <2>12, <2>13 DEF MissInv
<1> QED
  BY <1>7, <1>8

LEMMA StutterIsNoticed == ASSUME MissInv, UNCHANGED vars PROVE MissInv'
<1>1. IInv'
  BY NextStep DEF MissInv
<1>u. UNCHANGED <<child, file, writing, backend, inotifyQueue, inotifyWatches, watched_files,
                  fired, directory_id, oplocks, port, watched_directories, pc, phase, at, handle,
                  found, seen, blind>>
  BY DEF vars, kernelVars, inotifyVars, kqueueVars, win32Vars, diskVars, lookVars
<1>2. \A l \in Levels : DirAt(l)' = DirAt(l) /\ ConfigAt(l)' = ConfigAt(l)
  BY <1>u, SameDisk
<1>3. \A k : Calm(k)' <=> Calm(k)
  BY <1>u DEF Calm
<1>4. at \in Levels /\ (OnPath(writing)' <=> OnPath(writing))
  BY <1>u DEF MissInv, IInv, Types, OnPath, Subtree, Chain
<1>5. \A l \in Levels : /\ Sees(l)' <=> Sees(l)
                        /\ Covered(l)' <=> Covered(l)
                        /\ Passed(l)' <=> Passed(l)
  BY <1>u, <1>2 DEF Sees, Covered, Passed
<1>6. LookTypes' /\ PhaseInv' /\ DeafInv'
  BY <1>u DEF MissInv, LookTypes, PhaseInv, DeafInv, InPort
<1>7. ASSUME Sighted PROVE Sighted'
  <2>1. WatchInv' /\ ReadInv'
    BY <1>u, <1>2, <1>3, <1>4, <1>5, <1>7 DEF Sighted, WatchInv, ReadInv
  <2>2. SeenInv' /\ FileInv' /\ RegisterInv'
    BY <1>u, <1>2, <1>3, <1>4, <1>7 DEF Sighted, SeenInv, FileInv, RegisterInv
  <2> QED
    BY <2>1, <2>2 DEF Sighted
<1> QED
  BY <1>1, <1>u, <1>6, <1>7 DEF MissInv

LEMMA EveryStepIsNoticed == MissInv /\ Noticed /\ [Next]_vars => MissInv'
<1> SUFFICES ASSUME MissInv, Noticed, [Next]_vars PROVE MissInv'
  OBVIOUS
<1>1. CASE DiskNext
  BY <1>1, DiskIsNoticed
<1>2. CASE \E n \in Nodes : AskForDirectory(n)
  BY <1>2, AskIsNoticed
<1>3. CASE Win32Open
  BY <1>3, StaysOpen, OpensAnother
<1>4. CASE WatchNext
  BY <1>3, <1>4, CannotWatchIsNoticed, InotifyWatchIsNoticed, OpeningIsNoticed,
     KqueueWatchIsNoticed, RequestIsNoticed, RefusalIsNoticed DEF WatchNext
<1>5. CASE ReadNext
  BY <1>5, StatIsNoticed, ReadFileIsNoticed, KqueueOpenIsNoticed, KqueueReadIsNoticed DEF ReadNext
<1>6. CASE EventNext
  BY <1>6, EventsAreNoticed, OplockIsNoticed DEF EventNext
<1>7. CASE UNCHANGED vars
  BY <1>7, StutterIsNoticed
<1> QED
  BY <1>1, <1>2, <1>4, <1>5, <1>6, <1>7 DEF Next, ServerNext

\* When no event waits, all that the look has found is there.
LEMMA NothingIsMissed == MissInv => NoChangeIsMissed
<1> SUFFICES ASSUME MissInv, pc = "idle", NoEvents, writing = None, blind = {}
             PROVE  seen = Fresh
  BY DEF NoChangeIsMissed
<1>l. Levels \subseteq Int /\ at \in Levels
  BY DiskAssumption DEF Levels, MissInv, IInv, Types
<1>1. \A k : Calm(k)
  BY DEF NoEvents, Calm
<1>2. \A l \in Levels : Passed(l) => ConfigAt(l) = None
  BY <1>1 DEF MissInv, Sighted, ReadInv
<1>3. CASE phase = "search"
  <2>1. \A l \in Levels : ConfigAt(l) = None
    BY <1>2, <1>3 DEF Passed
  <2>2. {l \in Levels : ConfigAt(l) # None} = {}
    BY <2>1
  <2>3. Fresh = NotFound
    BY <2>2 DEF Fresh
  <2> QED
    BY <1>3, <2>3 DEF MissInv, PhaseInv
<1>4. CASE phase = "reload"
  <2>1. ConfigAt(at) # None
    BY <1>1, <1>4 DEF MissInv, Sighted, ReadInv
  <2>2. \A l \in Levels : l > at => ConfigAt(l) = None
    BY <1>2, <1>4 DEF Passed
  <2> DEFINE levels == {l \in Levels : ConfigAt(l) # None}
             nearest == CHOOSE l \in levels : \A k \in levels : k <= l
  <2>3. at \in levels /\ \A k \in levels : k <= at
    BY <1>l, <2>1, <2>2
  <2>4. nearest \in levels /\ \A k \in levels : k <= nearest
    BY <2>3
  <2>5. nearest = at
    <3>1. nearest \in Int /\ at \in Int
      BY <1>l, <2>4
    <3>2. at <= nearest /\ nearest <= at
      <4> HIDE DEF nearest, levels
      <4> QED
        BY <2>3, <2>4
    <3> HIDE DEF nearest
    <3> QED
      BY <3>1, <3>2
  <2>6. Fresh = Found(at, ConfigAt(at))
    BY <2>3, <2>5 DEF Fresh
  <2>7. ~OnPath(writing)
    BY DEF OnPath, Subtree
  <2> QED
    BY <1>1, <1>4, <2>6, <2>7 DEF MissInv, Sighted, SeenInv, NoEvents
<1> QED
  BY <1>3, <1>4 DEF MissInv, LookTypes, PhaseInv

\* Whatever changes while the loader looks, and at whatever moment, it has the
\* configuration file that is there once it has heard of everything: for any
\* path, contents and number of changes.  Of what may happen to the disk only
\* the two changes are excluded of which inotify and Windows do not tell.
THEOREM FilesystemNoChangeIsMissed ==
    ASSUME Noticed PROVE Spec => []NoChangeIsMissed
<1>1. MissInv /\ [Next]_vars => MissInv'
  BY EveryStepIsNoticed
<1> QED
  BY NothingMissedYet, <1>1, NothingIsMissed, PTL DEF Spec
=============================================================================
