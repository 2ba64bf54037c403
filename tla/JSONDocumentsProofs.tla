------------------------ MODULE JSONDocumentsProofs -------------------------
(***************************************************************************)
(* The restore patch that Sleep saves undoes what Sleep did, for all       *)
(* documents and patches.                                                  *)
(***************************************************************************)
EXTENDS JSONDocuments, WellFoundedInduction, TLAPS

(***************************************************************************)
(* Documents.                                                              *)
(***************************************************************************)

\* Two functions with the same values are the same.
LEMMA SameFunction ==
    ASSUME NEW f, NEW g, f = [x \in DOMAIN f |-> f[x]], g = [x \in DOMAIN g |-> g[x]],
           DOMAIN f = DOMAIN g, \A x \in DOMAIN f : f[x] = g[x]
    PROVE  f = g
OBVIOUS

\* The paths that lead to a path, and to those, are in one line.
LEMMA PathsOrder ==
    \A p \in Paths : /\ p \notin Above[p] /\ Above[p] \subseteq Paths
                     /\ \A q \in Above[p] : \A r \in Above[q] : r \in Above[p]
                     /\ \A q, r \in Above[p] : q = r \/ q \in Above[r] \/ r \in Above[q]
BY PathsAssumption

\* What makes a function a document.
LEMMA DocumentShape ==
    ASSUME NEW d \in Documents
    PROVE  /\ d = [p \in DOMAIN d |-> d[p]]
           /\ DOMAIN d \subseteq Paths
           /\ \A p \in DOMAIN d : /\ d[p] # Null
                                  /\ \A q \in Above[p] : q \in DOMAIN d /\ d[q] = Object
<1>1. PICK S \in SUBSET Paths : d \in [S -> Leaves \cup {Object}]
  BY DEF Documents
<1>2. QED
  BY <1>1, PathsAssumption DEF Documents

\* The converse.
LEMMA DocumentIs ==
    ASSUME NEW d, d = [p \in DOMAIN d |-> d[p]], DOMAIN d \subseteq Paths,
           \A p \in DOMAIN d : /\ d[p] \in Leaves \cup {Object}
                               /\ \A q \in Above[p] : q \in DOMAIN d /\ d[q] = Object
    PROVE  d \in Documents
<1>1. d \in [DOMAIN d -> Leaves \cup {Object}]
  OBVIOUS
<1>2. QED
  BY <1>1 DEF Documents

-----------------------------------------------------------------------------
(***************************************************************************)
(* Exec.  What it computes is proved by induction on the operations: the   *)
(* numbers of operations for which a fact holds are all natural numbers.   *)
(***************************************************************************)

\* A non-empty set of natural numbers has a least element.
LEMMA LeastNatural ==
    ASSUME NEW T \in SUBSET Nat, T # {}
    PROVE  \E x \in T : \A y \in T : x <= y
<1>1. PICK x \in T : \A y \in T : ~ (<<y, x>> \in OpToRel(<, Nat))
  BY NatLessThanWellFounded, WFMin
<1>2. \A y \in T : ~ (y < x)
  BY <1>1 DEF OpToRel
<1>3. QED
  BY <1>2

\* Induction, over a set.
LEMMA NaturalsAll ==
    ASSUME NEW T \in SUBSET Nat, 0 \in T, \A n \in T : n + 1 \in T
    PROVE  T = Nat
<1>1. SUFFICES ASSUME Nat \ T # {} PROVE FALSE
  OBVIOUS
<1>2. PICK x \in Nat \ T : \A y \in Nat \ T : x <= y
  BY <1>1, LeastNatural
<1>3. x - 1 \in T
  BY <1>2
<1>4. QED
  BY <1>2, <1>3

\* The documents between two operations of a patch.
Run(f, ops, d) ==
    f = [n \in 0 .. Len(ops) |->
           IF n = 0 THEN d ELSE ApplyOperation(f[n - 1], ops[n])]

\* The recursive function of Exec is defined, for patches of every length.
LEMMA RunExists ==
    ASSUME NEW S, NEW ops \in Seq(S), NEW d
    PROVE  \E f : Run(f, ops, d)
<1> DEFINE Upto(m) == \E f : f = [n \in 0 .. m |-> IF n = 0 THEN d
                                  ELSE ApplyOperation(f[n - 1], ops[n])]
           T == {m \in Nat : Upto(m)}
<1>1. Upto(0)
  <2> DEFINE f == [n \in 0 .. 0 |-> d]
  <2>1. f = [n \in 0 .. 0 |-> IF n = 0 THEN d ELSE ApplyOperation(f[n - 1], ops[n])]
    OBVIOUS
  <2>2. QED
    BY <2>1
<1>2. ASSUME NEW m \in Nat, Upto(m) PROVE Upto(m + 1)
  <2>1. PICK f : f = [n \in 0 .. m |-> IF n = 0 THEN d
                        ELSE ApplyOperation(f[n - 1], ops[n])]
    BY <1>2
  <2> DEFINE last == ApplyOperation(f[m], ops[m + 1])
             g == [n \in 0 .. (m + 1) |-> IF n = m + 1 THEN last ELSE f[n]]
  <2>2. \A n \in 0 .. m : g[n] = f[n]
    OBVIOUS
  <2>3. g[m + 1] = last
    OBVIOUS
  <2>4. \A n \in 0 .. m : f[n] = IF n = 0 THEN d ELSE ApplyOperation(f[n - 1], ops[n])
    BY <2>1, Zenon
  <2> HIDE DEF g
  <2>5. ASSUME NEW n \in 0 .. (m + 1)
        PROVE  g[n] = IF n = 0 THEN d ELSE ApplyOperation(g[n - 1], ops[n])
    <3>1. CASE n = 0
      BY <2>2, <2>4, <3>1
    <3>2. CASE n \in 1 .. m
      <4>1. n - 1 \in 0 .. m /\ n \in 0 .. m /\ n # 0
        BY <3>2
      <4>2. g[n] = f[n] /\ g[n - 1] = f[n - 1]
        BY <2>2, <4>1
      <4>3. QED
        BY <2>4, <4>1, <4>2, Zenon
    <3>3. CASE n = m + 1
      <4>1. n # 0 /\ n - 1 = m /\ g[m] = f[m]
        BY <2>2, <3>3
      <4>2. QED
        BY <2>3, <3>3, <4>1
    <3>4. QED
      BY <3>1, <3>2, <3>3
  <2>6. g = [n \in 0 .. (m + 1) |-> g[n]]
    BY DEF g
  <2>7. g = [n \in 0 .. (m + 1) |-> IF n = 0 THEN d ELSE ApplyOperation(g[n - 1], ops[n])]
    BY <2>5, <2>6, Zenon
  <2>8. QED
    BY <2>7
<1>3. T = Nat
  <2> HIDE DEF Upto
  <2>1. 0 \in T /\ \A n \in T : n + 1 \in T
    BY <1>1, <1>2
  <2> HIDE DEF T
  <2>2. T \in SUBSET Nat
    BY DEF T
  <2>3. QED
    BY <2>1, <2>2, NaturalsAll
<1>4. QED
  BY <1>3 DEF Run

\* Exec applies one operation after the other.
LEMMA ExecRun ==
    ASSUME NEW S, NEW ops \in Seq(S), NEW d
    PROVE  \E f : /\ f[0] = d /\ Exec(ops, d) = f[Len(ops)]
                  /\ \A n \in 1 .. Len(ops) : f[n] = ApplyOperation(f[n - 1], ops[n])
<1> DEFINE after == CHOOSE f : Run(f, ops, d)
<1>1. Run(after, ops, d)
  BY RunExists
<1>2. Exec(ops, d) = after[Len(ops)]
  BY DEF Exec, Run
<1> HIDE DEF after
<1>3. \A n \in 0 .. Len(ops) :
        after[n] = IF n = 0 THEN d ELSE ApplyOperation(after[n - 1], ops[n])
  BY <1>1, Zenon DEF Run
<1>4. after[0] = d /\ \A n \in 1 .. Len(ops) :
                        after[n] = ApplyOperation(after[n - 1], ops[n])
  <2>1. 0 \in 0 .. Len(ops) /\ \A n \in 1 .. Len(ops) : n \in 0 .. Len(ops) /\ n # 0
    OBVIOUS
  <2>2. QED
    BY <1>3, <2>1, Zenon
<1>5. QED
  BY <1>2, <1>4

\* How two documents that every operation keeps related are after the patch.
LEMMA ExecRelated ==
    ASSUME NEW S, NEW ops \in Seq(S), NEW R, NEW d, NEW e, <<d, e>> \in R,
           \A x, y : <<x, y>> \in R => \A i \in 1 .. Len(ops) :
             <<ApplyOperation(x, ops[i]), ApplyOperation(y, ops[i])>> \in R
    PROVE  <<Exec(ops, d), Exec(ops, e)>> \in R
<1>1. PICK f : /\ f[0] = d /\ Exec(ops, d) = f[Len(ops)]
               /\ \A n \in 1 .. Len(ops) : f[n] = ApplyOperation(f[n - 1], ops[n])
  BY ExecRun
<1>2. PICK g : /\ g[0] = e /\ Exec(ops, e) = g[Len(ops)]
               /\ \A n \in 1 .. Len(ops) : g[n] = ApplyOperation(g[n - 1], ops[n])
  BY ExecRun
<1>3. Len(ops) \in Nat
  OBVIOUS
<1> DEFINE T == {n \in Nat : n <= Len(ops) => <<f[n], g[n]>> \in R}
<1>4. 0 \in T
  BY <1>1, <1>2
<1>5. ASSUME NEW n \in T PROVE n + 1 \in T
  <2>1. SUFFICES ASSUME n + 1 <= Len(ops) PROVE <<f[n + 1], g[n + 1]>> \in R
    OBVIOUS
  <2>2. n \in 0 .. Len(ops) /\ n + 1 \in 1 .. Len(ops) /\ <<f[n], g[n]>> \in R
    BY <1>3, <2>1
  <2>3. /\ f[n + 1] = ApplyOperation(f[n], ops[n + 1])
        /\ g[n + 1] = ApplyOperation(g[n], ops[n + 1])
    BY <1>1, <1>2, <2>2
  <2>4. QED
    BY <2>2, <2>3
<1>6. T = Nat
  <2> HIDE DEF T
  <2>1. T \in SUBSET Nat
    BY DEF T
  <2>2. QED
    BY <1>4, <1>5, <2>1, NaturalsAll
<1>7. <<f[Len(ops)], g[Len(ops)]>> \in R
  BY <1>3, <1>6
<1>8. QED
  BY <1>1, <1>2, <1>7

\* What every operation of a patch keeps, the patch keeps.
LEMMA ExecWithin ==
    ASSUME NEW S, NEW ops \in Seq(S), NEW R, NEW d \in R,
           \A x \in R : \A i \in 1 .. Len(ops) : ApplyOperation(x, ops[i]) \in R
    PROVE  Exec(ops, d) \in R
<1> DEFINE Same == {<<x, x>> : x \in R}
<1>1. <<d, d>> \in Same
  OBVIOUS
<1>2. \A x, y : <<x, y>> \in Same => \A i \in 1 .. Len(ops) :
        <<ApplyOperation(x, ops[i]), ApplyOperation(y, ops[i])>> \in Same
  OBVIOUS
<1> HIDE DEF Same
<1>3. <<Exec(ops, d), Exec(ops, d)>> \in Same
  BY <1>1, <1>2, ExecRelated
<1>4. QED
  BY <1>3 DEF Same

-----------------------------------------------------------------------------
(***************************************************************************)
(* Merge patches.                                                          *)
(***************************************************************************)

(***************************************************************************)
(* Whatever a has and b lacks, the merge patch from a to b removes, or it  *)
(* replaces something above.                                               *)
(***************************************************************************)
LEMMA MissingIsChanged ==
    ASSUME NEW a \in Documents, NEW b \in Documents,
           NEW p \in DOMAIN a, p \notin DOMAIN b
    PROVE  \E q \in Changed(a, b) : /\ q = p \/ q \in Above[p]
                                    /\ q \in DOMAIN b => b[q] # Object
<1>1. p \in Paths /\ \A q \in Above[p] : q \in DOMAIN a /\ a[q] = Object
  BY DocumentShape
<1>2. CASE \A q \in Above[p] : q \in DOMAIN b /\ b[q] = Object
  BY <1>2 DEF Changed
<1>3. CASE \E q \in Above[p] : q \in DOMAIN b /\ b[q] # Object
  BY <1>1, <1>3 DEF Changed
<1>4. CASE /\ \A q \in Above[p] : q \in DOMAIN b => b[q] = Object
           /\ \E q \in Above[p] : q \notin DOMAIN b
  <2> DEFINE missing == {q \in Above[p] : q \notin DOMAIN b}
  <2>1. missing \in SUBSET Above[p] /\ missing # {}
    BY <1>4
  <2>2. PICK q \in missing : Above[q] \cap missing = {}
    BY <1>1, <2>1, PathsAssumption
  <2>3. Above[q] \subseteq Above[p]
    BY <1>1, <2>2, PathsAssumption
  <2>4. \A r \in Above[q] : r \in DOMAIN b /\ b[r] = Object
    BY <1>4, <2>2, <2>3
  <2>5. q \in Changed(a, b)
    BY <1>1, <2>2, <2>4 DEF Changed
  <2>6. QED
    BY <2>2, <2>5
<1>5. QED
  BY <1>2, <1>3, <1>4

\* What the merge patch from a to b has at a path: the value of b, and only
\* objects along the paths of b.
LEMMA PatchFollows ==
    ASSUME NEW a \in Documents, NEW b \in Documents
    PROVE  /\ Changed(a, b) \subseteq DOMAIN CreateMergePatch(a, b)
           /\ \A p \in DOMAIN CreateMergePatch(a, b) :
                /\ CreateMergePatch(a, b)[p] = IF p \in DOMAIN b THEN b[p] ELSE Null
                /\ p \notin Changed(a, b) =>
                     /\ p \in DOMAIN b /\ b[p] = Object
                     /\ \E q \in Changed(a, b) : p \in Above[q]
           /\ \A p \in DOMAIN b : p \notin Changed(a, b) =>
                p \in DOMAIN a /\ a[p] = b[p]
           /\ \A p \in DOMAIN b : \A q \in Above[p] :
                q \notin Replaced(CreateMergePatch(a, b))
<1> DEFINE patch == CreateMergePatch(a, b)
           all == Changed(a, b) \cup UNION {Above[q] : q \in Changed(a, b)}
<1>1. patch = [p \in all |-> IF p \in DOMAIN b THEN b[p] ELSE Null]
  BY DEF CreateMergePatch
<1>2. \A q \in Changed(a, b) : \A p \in Above[q] : p \in DOMAIN b /\ b[p] = Object
  BY DocumentShape DEF Changed
<1>3. \A p \in DOMAIN b : p \notin Changed(a, b) => p \in DOMAIN a /\ a[p] = b[p]
  BY DEF Changed
<1> HIDE DEF patch
<1>4. \A p \in DOMAIN patch :
        /\ patch[p] = IF p \in DOMAIN b THEN b[p] ELSE Null
        /\ p \notin Changed(a, b) => /\ p \in DOMAIN b /\ b[p] = Object
                                     /\ \E q \in Changed(a, b) : p \in Above[q]
  BY <1>1, <1>2
<1>5. \A p \in DOMAIN b : \A q \in Above[p] : q \notin Replaced(patch)
  BY <1>4, DocumentShape DEF Replaced
<1>6. Changed(a, b) \subseteq DOMAIN patch
  BY <1>1
<1>7. QED
  BY <1>3, <1>4, <1>5, <1>6 DEF patch

\* What a has and b lacks does not survive the merge.
LEMMA MissingIsReplaced ==
    ASSUME NEW a \in Documents, NEW b \in Documents,
           NEW p \in DOMAIN a, p \notin DOMAIN b
    PROVE  \E q \in Replaced(CreateMergePatch(a, b)) : q = p \/ q \in Above[p]
<1>1. PICK q \in Changed(a, b) : /\ q = p \/ q \in Above[p]
                                 /\ q \in DOMAIN b => b[q] # Object
  BY MissingIsChanged
<1>2. Null # Object
  BY PathsAssumption
<1>3. QED
  BY <1>1, <1>2, PatchFollows DEF Replaced

(***************************************************************************)
(* The restore patch CreateMergePatch(modified, original) of Sleep, merged *)
(* into the modified document by WakeUp, gives the original back: fields   *)
(* that the patch added, with the objects it had to create for them, are   *)
(* removed, and those it replaced have their old values.                   *)
(***************************************************************************)
THEOREM RestoreExact ==
    ASSUME NEW modified \in Documents, NEW original \in Documents
    PROVE  MergePatch(modified, CreateMergePatch(modified, original)) = original
<1> DEFINE patch == CreateMergePatch(modified, original)
           written == {p \in DOMAIN patch : patch[p] # Null}
           kept == {p \in DOMAIN modified : \A q \in Replaced(patch) :
                                              p # q /\ q \notin Above[p]}
<1>1. /\ \A p \in DOMAIN patch :
           patch[p] = IF p \in DOMAIN original THEN original[p] ELSE Null
      /\ \A p \in DOMAIN original : p \notin DOMAIN patch =>
           p \in DOMAIN modified /\ modified[p] = original[p]
      /\ \A p \in DOMAIN original : \A q \in Above[p] : q \notin Replaced(patch)
  BY PatchFollows
<1>2. \A p \in DOMAIN modified : p \notin DOMAIN original =>
        \E q \in Replaced(patch) : q = p \/ q \in Above[p]
  BY MissingIsReplaced
<1>3. MergePatch(modified, patch) =
        [p \in kept \cup written |-> IF p \in written THEN patch[p] ELSE modified[p]]
  BY DEF MergePatch
<1> HIDE DEF patch
<1>4. \A p \in DOMAIN original : original[p] # Null
  BY DocumentShape
<1>5. kept \cup written = DOMAIN original
  <2>1. written \subseteq DOMAIN original
    BY <1>1
  <2>2. kept \subseteq DOMAIN original
    BY <1>2
  <2>3. ASSUME NEW p \in DOMAIN original
        PROVE  p \in kept \cup written
    BY <1>1, <1>4 DEF Replaced
  <2>4. QED
    BY <2>1, <2>2, <2>3
<1>6. \A p \in DOMAIN original :
        (IF p \in written THEN patch[p] ELSE modified[p]) = original[p]
  BY <1>1, <1>4
<1>7. QED
  BY <1>3, <1>5, <1>6, DocumentShape DEF patch

\* The merge patch has nothing to do with the path: it only goes through
\* objects that lead there.
Clear(m, p) ==
    /\ p \notin DOMAIN m
    /\ \A q \in DOMAIN m : p \notin Above[q] /\ (q \in Above[p] => m[q] = Object)

\* A path that a merge patch has nothing to do with may as well be set later.
LEMMA MergeCommutesWithPut ==
    ASSUME NEW d, NEW m, NEW p \in Paths, NEW v,
           DOMAIN d \subseteq Paths, DOMAIN m \subseteq Paths, Clear(m, p)
    PROVE  MergePatch(Put(d, p, v), m) = Put(MergePatch(d, m), p, v)
<1> DEFINE put == Put(d, p, v)
           merged == MergePatch(d, m)
           left == MergePatch(put, m)
           right == Put(merged, p, v)
<1>1. /\ DOMAIN put = {q \in DOMAIN d : p \notin Above[q]} \cup {p} \cup Above[p]
      /\ \A q \in DOMAIN put :
           put[q] = IF q = p THEN v ELSE IF q \in Above[p] THEN Object ELSE d[q]
  BY DEF Put
<1>2. /\ DOMAIN merged
           = {q \in DOMAIN d : \A r \in Replaced(m) : q # r /\ r \notin Above[q]}
             \cup {q \in DOMAIN m : m[q] # Null}
      /\ \A q \in DOMAIN merged :
           merged[q] = IF q \in DOMAIN m /\ m[q] # Null THEN m[q] ELSE d[q]
  BY DEF MergePatch
<1>3. /\ DOMAIN left
           = {q \in DOMAIN put : \A r \in Replaced(m) : q # r /\ r \notin Above[q]}
             \cup {q \in DOMAIN m : m[q] # Null}
      /\ \A q \in DOMAIN left :
           left[q] = IF q \in DOMAIN m /\ m[q] # Null THEN m[q] ELSE put[q]
      /\ left = [q \in DOMAIN left |-> left[q]]
  BY DEF MergePatch
<1>4. /\ DOMAIN right = {q \in DOMAIN merged : p \notin Above[q]} \cup {p} \cup Above[p]
      /\ \A q \in DOMAIN right :
           right[q] = IF q = p THEN v ELSE IF q \in Above[p] THEN Object ELSE merged[q]
      /\ right = [q \in DOMAIN right |-> right[q]]
  BY DEF Put
<1> HIDE DEF put, merged, left, right
<1>5. \A r \in Replaced(m) : p # r /\ r \notin Above[p]
  BY DEF Clear, Replaced
<1>6. \A q \in Above[p] : \A r \in Replaced(m) : q # r /\ r \notin Above[q]
  BY <1>5, PathsOrder
<1>7. \A q \in DOMAIN m : p # q /\ p \notin Above[q]
  BY DEF Clear
<1>8. DOMAIN left = DOMAIN right
  <2>1. ASSUME NEW q \in DOMAIN left PROVE q \in DOMAIN right
    BY <1>1, <1>2, <1>3, <1>4, <1>7
  <2>2. ASSUME NEW q \in DOMAIN right PROVE q \in DOMAIN left
    BY <1>1, <1>2, <1>3, <1>4, <1>5, <1>6
  <2>3. QED
    BY <2>1, <2>2
<1>9. ASSUME NEW q \in DOMAIN left PROVE left[q] = right[q]
  <2>1. CASE q = p
    BY <1>1, <1>3, <1>4, <1>7, <1>8, <2>1
  <2>2. CASE q \in Above[p] /\ q # p
    <3>1. right[q] = Object
      BY <1>4, <1>8, <2>2
    <3>2. q \in DOMAIN put /\ put[q] = Object
      BY <1>1, <2>2
    <3>3. q \in DOMAIN m => m[q] = Object
      BY <2>2 DEF Clear
    <3>4. QED
      BY <1>3, <3>1, <3>2, <3>3
  <2>3. CASE q \notin Above[p] /\ q # p
    <3>1. q \in DOMAIN merged /\ right[q] = merged[q]
      BY <1>4, <1>8, <2>3
    <3>2. CASE q \in DOMAIN m /\ m[q] # Null
      BY <1>2, <1>3, <3>1, <3>2
    <3>3. CASE ~ (q \in DOMAIN m /\ m[q] # Null)
      BY <1>1, <1>2, <1>3, <2>3, <3>1, <3>3
    <3>4. QED
      BY <3>2, <3>3
  <2>4. QED
    BY <2>1, <2>2, <2>3
<1>10. left = right
  BY <1>3, <1>4, <1>8, <1>9, SameFunction
<1>11. QED
  BY <1>10 DEF left, right, put, merged

\* And it may as well be removed later.
LEMMA MergeCommutesWithWithout ==
    ASSUME NEW d, NEW m, NEW p \in Paths,
           DOMAIN d \subseteq Paths, DOMAIN m \subseteq Paths, Clear(m, p)
    PROVE  MergePatch(Without(d, p), m) = Without(MergePatch(d, m), p)
<1> DEFINE less == Without(d, p)
           merged == MergePatch(d, m)
           left == MergePatch(less, m)
           right == Without(merged, p)
<1>1. /\ DOMAIN less = {q \in DOMAIN d : q # p /\ p \notin Above[q]}
      /\ \A q \in DOMAIN less : less[q] = d[q]
  BY DEF Without
<1>2. /\ DOMAIN merged
           = {q \in DOMAIN d : \A r \in Replaced(m) : q # r /\ r \notin Above[q]}
             \cup {q \in DOMAIN m : m[q] # Null}
      /\ \A q \in DOMAIN merged :
           merged[q] = IF q \in DOMAIN m /\ m[q] # Null THEN m[q] ELSE d[q]
  BY DEF MergePatch
<1>3. /\ DOMAIN left
           = {q \in DOMAIN less : \A r \in Replaced(m) : q # r /\ r \notin Above[q]}
             \cup {q \in DOMAIN m : m[q] # Null}
      /\ \A q \in DOMAIN left :
           left[q] = IF q \in DOMAIN m /\ m[q] # Null THEN m[q] ELSE less[q]
      /\ left = [q \in DOMAIN left |-> left[q]]
  BY DEF MergePatch
<1>4. /\ DOMAIN right = {q \in DOMAIN merged : q # p /\ p \notin Above[q]}
      /\ \A q \in DOMAIN right : right[q] = merged[q]
      /\ right = [q \in DOMAIN right |-> right[q]]
  BY DEF Without
<1> HIDE DEF less, merged, left, right
<1>5. \A q \in DOMAIN m : p # q /\ p \notin Above[q]
  BY DEF Clear
<1>6. DOMAIN left = DOMAIN right
  BY <1>1, <1>2, <1>3, <1>4, <1>5
<1>7. ASSUME NEW q \in DOMAIN left PROVE left[q] = right[q]
  <2>1. q \in DOMAIN merged /\ right[q] = merged[q]
    BY <1>4, <1>6
  <2>2. CASE q \in DOMAIN m /\ m[q] # Null
    BY <1>2, <1>3, <2>1, <2>2
  <2>3. CASE ~ (q \in DOMAIN m /\ m[q] # Null)
    BY <1>1, <1>2, <1>3, <2>1, <2>3
  <2>4. QED
    BY <2>2, <2>3
<1>8. left = right
  BY <1>3, <1>4, <1>6, <1>7, SameFunction
<1>9. QED
  BY <1>8 DEF left, right, less, merged

\* The same for both kinds of edit.
LEMMA MergeCommutes ==
    ASSUME NEW d, NEW m, NEW p \in Paths, NEW v,
           DOMAIN d \subseteq Paths, DOMAIN m \subseteq Paths, Clear(m, p)
    PROVE  MergePatch(Edit(d, p, v), m) = Edit(MergePatch(d, m), p, v)
BY MergeCommutesWithPut, MergeCommutesWithWithout DEF Edit

-----------------------------------------------------------------------------
(***************************************************************************)
(* Documents that differ at some paths, and below them, only.              *)
(***************************************************************************)
AtOrBelow(q, paths) == \E t \in paths : t = q \/ t \in Above[q]

DifferWithin(a, b, paths) ==
    \A q \in DOMAIN a \cup DOMAIN b :
        \/ q \in DOMAIN a /\ q \in DOMAIN b /\ a[q] = b[q]
        \/ AtOrBelow(q, paths)

\* What a merge patch sets or removes is at or below the paths.
StaysWithin(m, paths) ==
    \A q \in DOMAIN m :
        \/ AtOrBelow(q, paths)
        \/ m[q] = Object /\ \E t \in paths : q \in Above[t]

\* The paths of Changed are where two documents differ.
LEMMA DifferWhereChanged ==
    ASSUME NEW a \in Documents, NEW b \in Documents
    PROVE  DifferWithin(a, b, Changed(a, b))
<1>1. ASSUME NEW q \in DOMAIN a, q \notin DOMAIN b
      PROVE  AtOrBelow(q, Changed(a, b))
  BY <1>1, MissingIsChanged DEF AtOrBelow
<1>2. ASSUME NEW q \in DOMAIN b, ~ (q \in DOMAIN a /\ a[q] = b[q])
      PROVE  AtOrBelow(q, Changed(a, b))
  BY <1>2 DEF Changed, AtOrBelow
<1>3. QED
  BY <1>1, <1>2 DEF DifferWithin

\* The merge patch between two documents stays where they differ.
LEMMA MergePatchStays ==
    ASSUME NEW a \in Documents, NEW b \in Documents, NEW paths \in SUBSET Paths,
           DifferWithin(a, b, paths)
    PROVE  StaysWithin(CreateMergePatch(a, b), paths)
<1> DEFINE m == CreateMergePatch(a, b)
<1>1. \A q \in DOMAIN m : /\ m[q] = IF q \in DOMAIN b THEN b[q] ELSE Null
                          /\ q \notin Changed(a, b) =>
                               /\ q \in DOMAIN b /\ b[q] = Object
                               /\ \E r \in Changed(a, b) : q \in Above[r]
  BY PatchFollows
<1>2. \A q \in Changed(a, b) : q \in Paths /\ AtOrBelow(q, paths)
  BY DocumentShape DEF Changed, DifferWithin
<1> HIDE DEF m
<1>3. ASSUME NEW q \in DOMAIN m, q \notin Changed(a, b), ~ AtOrBelow(q, paths)
      PROVE  m[q] = Object /\ \E t \in paths : q \in Above[t]
  <2>1. m[q] = Object
    BY <1>1, <1>3
  <2>2. PICK r \in Changed(a, b) : q \in Above[r]
    BY <1>1, <1>3
  <2>3. PICK t \in paths : t = r \/ t \in Above[r]
    BY <1>2 DEF AtOrBelow
  <2>4. q # t /\ t \notin Above[q]
    BY <1>3 DEF AtOrBelow
  <2>5. q \in Above[t]
    BY <1>2, <2>2, <2>3, <2>4, PathsOrder
  <2>6. QED
    BY <2>1, <2>5
<1>4. QED
  BY <1>2, <1>3 DEF StaysWithin, m

\* A merge patch has nothing to do with what is apart from where it stays.
LEMMA ApartIsClear ==
    ASSUME NEW m, DOMAIN m \subseteq Paths, NEW paths \in SUBSET Paths,
           StaysWithin(m, paths), NEW p \in Paths, Apart(p, paths)
    PROVE  Clear(m, p)
<1>1. \A t \in paths : t # p /\ t \notin Above[p] /\ p \notin Above[t]
  BY DEF Apart
<1>2. ASSUME NEW q \in DOMAIN m, AtOrBelow(q, paths)
      PROVE  q # p /\ p \notin Above[q] /\ q \notin Above[p]
  <2>1. PICK t \in paths : t = q \/ t \in Above[q]
    BY <1>2 DEF AtOrBelow
  <2>2. q \in Paths /\ t \in Paths
    OBVIOUS
  <2>3. QED
    BY <1>1, <2>1, <2>2, PathsOrder
<1>3. ASSUME NEW q \in DOMAIN m, m[q] = Object, NEW t \in paths, q \in Above[t]
      PROVE  q # p /\ p \notin Above[q]
  BY <1>1, <1>3, PathsOrder
<1>4. QED
  BY <1>2, <1>3 DEF StaysWithin, Clear

(***************************************************************************)
(* WakeUp keeps what users changed while the resource slept: a field set   *)
(* or removed apart from the paths that Sleep changed is in the restored   *)
(* document as if it had been set or removed in the original.              *)
(***************************************************************************)
THEOREM RestoreKeepsEdits ==
    ASSUME NEW modified \in Documents, NEW original \in Documents,
           NEW e \in Paths, NEW v \in Leaves \cup {Null},
           Apart(e, Changed(modified, original))
    PROVE  MergePatch(Edit(modified, e, v), CreateMergePatch(modified, original))
           = Edit(original, e, v)
<1> DEFINE m == CreateMergePatch(modified, original)
           paths == Changed(modified, original)
<1>1. DOMAIN modified \subseteq Paths /\ DOMAIN original \subseteq Paths
  BY DocumentShape
<1>2. paths \in SUBSET Paths
  BY <1>1 DEF Changed
<1>3. DOMAIN m \subseteq Paths
  BY <1>2, PathsAssumption DEF CreateMergePatch
<1>4. StaysWithin(m, paths)
  BY <1>2, DifferWhereChanged, MergePatchStays
<1> HIDE DEF m, paths
<1>5. Clear(m, e)
  BY <1>2, <1>3, <1>4, ApartIsClear DEF paths
<1>6. MergePatch(Edit(modified, e, v), m) = Edit(MergePatch(modified, m), e, v)
  BY <1>1, <1>3, <1>5, MergeCommutes
<1>7. QED
  BY <1>6, RestoreExact DEF m

-----------------------------------------------------------------------------
(***************************************************************************)
(* Patches, merges and edits make documents of documents.                  *)
(***************************************************************************)

\* Setting a path.
LEMMA PutDocument ==
    ASSUME NEW d \in Documents, NEW p \in Paths, NEW v \in Leaves
    PROVE  Put(d, p, v) \in Documents
<1> DEFINE e == Put(d, p, v)
<1>1. /\ DOMAIN e = {q \in DOMAIN d : p \notin Above[q]} \cup {p} \cup Above[p]
      /\ \A q \in DOMAIN e :
           e[q] = IF q = p THEN v ELSE IF q \in Above[p] THEN Object ELSE d[q]
      /\ e = [q \in DOMAIN e |-> e[q]]
  BY DEF Put
<1>2. /\ DOMAIN d \subseteq Paths
      /\ \A q \in DOMAIN d : /\ d[q] \in Leaves \cup {Object}
                             /\ \A r \in Above[q] : r \in DOMAIN d /\ d[r] = Object
  BY DocumentShape DEF Documents
<1> HIDE DEF e
<1>3. DOMAIN e \subseteq Paths
  BY <1>1, <1>2, PathsOrder
<1>4. ASSUME NEW q \in DOMAIN e, NEW r \in Above[q]
      PROVE  r \in DOMAIN e /\ e[r] = Object
  <2>1. CASE q = p \/ q \in Above[p]
    BY <1>1, <1>4, <2>1, PathsOrder
  <2>2. CASE q \in DOMAIN d /\ p \notin Above[q]
    <3>1. r \in DOMAIN d /\ d[r] = Object /\ p \notin Above[r] /\ r # p
      BY <1>2, <1>4, <2>2, PathsOrder
    <3>2. QED
      BY <1>1, <3>1
  <2>3. QED
    BY <1>1, <2>1, <2>2
<1>5. \A q \in DOMAIN e : e[q] \in Leaves \cup {Object}
  BY <1>1, <1>2
<1>6. QED
  BY <1>1, <1>3, <1>4, <1>5, DocumentIs DEF e

\* Removing a path.
LEMMA WithoutDocument ==
    ASSUME NEW d \in Documents, NEW p \in Paths
    PROVE  Without(d, p) \in Documents
<1> DEFINE e == Without(d, p)
<1>1. /\ DOMAIN e = {q \in DOMAIN d : q # p /\ p \notin Above[q]}
      /\ \A q \in DOMAIN e : e[q] = d[q]
      /\ e = [q \in DOMAIN e |-> e[q]]
  BY DEF Without
<1>2. /\ DOMAIN d \subseteq Paths
      /\ \A q \in DOMAIN d : /\ d[q] \in Leaves \cup {Object}
                             /\ \A r \in Above[q] : r \in DOMAIN d /\ d[r] = Object
  BY DocumentShape DEF Documents
<1> HIDE DEF e
<1>3. ASSUME NEW q \in DOMAIN e, NEW r \in Above[q]
      PROVE  r \in DOMAIN e /\ e[r] = Object
  <2>1. r \in DOMAIN d /\ d[r] = Object /\ r # p /\ p \notin Above[r]
    BY <1>1, <1>2, <1>3, PathsOrder
  <2>2. QED
    BY <1>1, <2>1
<1>4. QED
  BY <1>1, <1>2, <1>3, DocumentIs DEF e

\* An edit by a user.
LEMMA EditIsDocument ==
    ASSUME NEW d \in Documents, NEW p \in Paths, NEW v \in Leaves \cup {Null}
    PROVE  Edit(d, p, v) \in Documents
BY PutDocument, WithoutDocument DEF Edit

\* A JSON patch.
LEMMA ExecDocument ==
    ASSUME NEW ops \in Seq(JSONOperations), NEW d \in Documents
    PROVE  Exec(ops, d) \in Documents \cup {Failed}
<1> DEFINE R == Documents \cup {Failed}
<1>1. ASSUME NEW x \in R, NEW o \in JSONOperations
      PROVE  ApplyOperation(x, o) \in R
  BY PutDocument DEF ApplyOperation, JSONOperations
<1>2. \A i \in 1 .. Len(ops) : ops[i] \in JSONOperations
  OBVIOUS
<1>3. d \in R
  OBVIOUS
<1> HIDE DEF R
<1>4. Exec(ops, d) \in R
  BY <1>1, <1>2, <1>3, ExecWithin
<1>5. QED
  BY <1>4 DEF R

\* The merge patch between two documents.
LEMMA CreatedMergePatch ==
    ASSUME NEW a \in Documents, NEW b \in Documents
    PROVE  CreateMergePatch(a, b) \in MergePatches
<1> DEFINE m == CreateMergePatch(a, b)
           all == Changed(a, b) \cup UNION {Above[q] : q \in Changed(a, b)}
<1>1. m = [p \in all |-> IF p \in DOMAIN b THEN b[p] ELSE Null]
  BY DEF CreateMergePatch
<1>2. Changed(a, b) \subseteq Paths
  BY DocumentShape DEF Changed
<1>3. all \subseteq Paths
  BY <1>2, PathsOrder
<1>4. \A p \in DOMAIN b : b[p] \in Leaves \cup {Object}
  BY DEF Documents
<1>5. \A q \in Changed(a, b) : \A p \in Above[q] : p \in DOMAIN b /\ b[p] = Object
  BY DocumentShape DEF Changed
<1> HIDE DEF m
<1>6. m \in [all -> Leaves \cup {Object, Null}]
  BY <1>1, <1>4
<1>7. ASSUME NEW p \in all, NEW q \in Above[p]
      PROVE  q \in all /\ m[q] = Object
  <2>1. PICK c \in Changed(a, b) : c = p \/ p \in Above[c]
    OBVIOUS
  <2>2. q \in Above[c]
    BY <1>2, <1>7, <2>1, PathsOrder
  <2>3. q \in all /\ q \in DOMAIN b /\ b[q] = Object
    BY <1>5, <2>2
  <2>4. QED
    BY <1>1, <2>3
<1>8. QED
  BY <1>3, <1>6, <1>7 DEF MergePatches, m

\* A merge.
LEMMA MergedDocument ==
    ASSUME NEW d \in Documents, NEW m \in MergePatches
    PROVE  MergePatch(d, m) \in Documents
<1> DEFINE e == MergePatch(d, m)
<1>1. /\ DOMAIN e = {p \in DOMAIN d : \A q \in Replaced(m) : p # q /\ q \notin Above[p]}
                    \cup {p \in DOMAIN m : m[p] # Null}
      /\ \A p \in DOMAIN e : e[p] = IF p \in DOMAIN m /\ m[p] # Null THEN m[p] ELSE d[p]
      /\ e = [p \in DOMAIN e |-> e[p]]
  BY DEF MergePatch
<1>2. /\ DOMAIN d \subseteq Paths
      /\ \A q \in DOMAIN d : /\ d[q] \in Leaves \cup {Object}
                             /\ \A r \in Above[q] : r \in DOMAIN d /\ d[r] = Object
  BY DocumentShape DEF Documents
<1>3. /\ DOMAIN m \subseteq Paths
      /\ \A q \in DOMAIN m : /\ m[q] \in Leaves \cup {Object, Null}
                             /\ \A r \in Above[q] : r \in DOMAIN m /\ m[r] = Object
  BY DEF MergePatches
<1>4. Null # Object
  BY PathsAssumption
<1> HIDE DEF e
<1>5. ASSUME NEW p \in DOMAIN e, NEW q \in Above[p]
      PROVE  q \in DOMAIN e /\ e[q] = Object
  <2>1. CASE p \in DOMAIN m
    BY <1>1, <1>3, <1>4, <1>5, <2>1
  <2>2. CASE p \notin DOMAIN m
    <3>1. /\ p \in DOMAIN d /\ q \in DOMAIN d /\ d[q] = Object
          /\ \A r \in Replaced(m) : q # r /\ r \notin Above[q]
      BY <1>1, <1>2, <1>5, <2>2, PathsOrder
    <3>2. q \in DOMAIN e
      BY <1>1, <3>1
    <3>3. q \in DOMAIN m => m[q] = Object
      BY <3>1 DEF Replaced
    <3>4. QED
      BY <1>1, <3>1, <3>2, <3>3
  <2>3. QED
    BY <2>1, <2>2
<1>6. \A p \in DOMAIN e : e[p] \in Leaves \cup {Object}
  BY <1>1, <1>2, <1>3
<1>7. DOMAIN e \subseteq Paths
  BY <1>1, <1>2, <1>3
<1>8. QED
  BY <1>1, <1>5, <1>6, <1>7, DocumentIs DEF e

-----------------------------------------------------------------------------
(***************************************************************************)
(* Patches and edits.                                                      *)
(***************************************************************************)

\* Two paths of which neither is above the other may be set in either order.
LEMMA PutsCommute ==
    ASSUME NEW d, DOMAIN d \subseteq Paths, NEW p \in Paths, NEW v,
           NEW o \in Paths, NEW w, o # p, o \notin Above[p], p \notin Above[o]
    PROVE  Put(Put(d, p, v), o, w) = Put(Put(d, o, w), p, v)
<1> DEFINE dp == Put(d, p, v)
           do == Put(d, o, w)
           left == Put(dp, o, w)
           right == Put(do, p, v)
<1>1. /\ DOMAIN dp = {q \in DOMAIN d : p \notin Above[q]} \cup {p} \cup Above[p]
      /\ \A q \in DOMAIN dp :
           dp[q] = IF q = p THEN v ELSE IF q \in Above[p] THEN Object ELSE d[q]
  BY DEF Put
<1>2. /\ DOMAIN do = {q \in DOMAIN d : o \notin Above[q]} \cup {o} \cup Above[o]
      /\ \A q \in DOMAIN do :
           do[q] = IF q = o THEN w ELSE IF q \in Above[o] THEN Object ELSE d[q]
  BY DEF Put
<1>3. /\ DOMAIN left = {q \in DOMAIN dp : o \notin Above[q]} \cup {o} \cup Above[o]
      /\ \A q \in DOMAIN left :
           left[q] = IF q = o THEN w ELSE IF q \in Above[o] THEN Object ELSE dp[q]
      /\ left = [q \in DOMAIN left |-> left[q]]
  BY DEF Put
<1>4. /\ DOMAIN right = {q \in DOMAIN do : p \notin Above[q]} \cup {p} \cup Above[p]
      /\ \A q \in DOMAIN right :
           right[q] = IF q = p THEN v ELSE IF q \in Above[p] THEN Object ELSE do[q]
      /\ right = [q \in DOMAIN right |-> right[q]]
  BY DEF Put
<1> HIDE DEF dp, do, left, right
<1>5. /\ \A q \in Above[p] : o \notin Above[q]
      /\ \A q \in Above[o] : p \notin Above[q]
  BY PathsOrder
<1>6. DOMAIN left = DOMAIN right
  BY <1>1, <1>2, <1>3, <1>4, <1>5
<1>7. \A q \in DOMAIN left : left[q] = right[q]
  BY <1>1, <1>2, <1>3, <1>4, <1>6
<1>8. left = right
  BY <1>3, <1>4, <1>6, <1>7, SameFunction
<1>9. QED
  BY <1>8 DEF left, right, dp, do

\* And one may be removed before or after the other is set.
LEMMA PutWithoutCommute ==
    ASSUME NEW d, DOMAIN d \subseteq Paths, NEW p \in Paths,
           NEW o \in Paths, NEW w, o # p, o \notin Above[p], p \notin Above[o]
    PROVE  Put(Without(d, p), o, w) = Without(Put(d, o, w), p)
<1> DEFINE dp == Without(d, p)
           do == Put(d, o, w)
           left == Put(dp, o, w)
           right == Without(do, p)
<1>1. /\ DOMAIN dp = {q \in DOMAIN d : q # p /\ p \notin Above[q]}
      /\ \A q \in DOMAIN dp : dp[q] = d[q]
  BY DEF Without
<1>2. /\ DOMAIN do = {q \in DOMAIN d : o \notin Above[q]} \cup {o} \cup Above[o]
      /\ \A q \in DOMAIN do :
           do[q] = IF q = o THEN w ELSE IF q \in Above[o] THEN Object ELSE d[q]
  BY DEF Put
<1>3. /\ DOMAIN left = {q \in DOMAIN dp : o \notin Above[q]} \cup {o} \cup Above[o]
      /\ \A q \in DOMAIN left :
           left[q] = IF q = o THEN w ELSE IF q \in Above[o] THEN Object ELSE dp[q]
      /\ left = [q \in DOMAIN left |-> left[q]]
  BY DEF Put
<1>4. /\ DOMAIN right = {q \in DOMAIN do : q # p /\ p \notin Above[q]}
      /\ \A q \in DOMAIN right : right[q] = do[q]
      /\ right = [q \in DOMAIN right |-> right[q]]
  BY DEF Without
<1> HIDE DEF dp, do, left, right
<1>5. \A q \in Above[o] : p \notin Above[q]
  BY PathsOrder
<1>6. DOMAIN left = DOMAIN right
  BY <1>1, <1>2, <1>3, <1>4, <1>5
<1>7. \A q \in DOMAIN left : left[q] = right[q]
  BY <1>1, <1>2, <1>3, <1>4, <1>6
<1>8. left = right
  BY <1>3, <1>4, <1>6, <1>7, SameFunction
<1>9. QED
  BY <1>8 DEF left, right, dp, do

\* An operation that applies does so after an edit apart from its path.
LEMMA OperationCommutes ==
    ASSUME NEW d \in Documents, NEW o \in JSONOperations,
           ApplyOperation(d, o) # Failed,
           NEW p \in Paths, NEW v \in Leaves \cup {Null},
           o.path # p, o.path \notin Above[p], p \notin Above[o.path]
    PROVE  ApplyOperation(Edit(d, p, v), o) = Edit(ApplyOperation(d, o), p, v)
<1> DEFINE e == Edit(d, p, v)
<1>1. DOMAIN d \subseteq Paths /\ o.path \in Paths
  BY DocumentShape DEF JSONOperations
<1>2. /\ Accepts(d, o.path) /\ (o.op = "replace" => o.path \in DOMAIN d)
      /\ ApplyOperation(d, o) = Put(d, o.path, o.value)
  BY DEF ApplyOperation
<1>3. e # Failed
  BY EditIsDocument, FailedAssumption
<1>4. Accepts(e, o.path) /\ (o.path \in DOMAIN d => o.path \in DOMAIN e)
  <2>1. CASE v = Null
    <3>1. /\ DOMAIN e = {q \in DOMAIN d : q # p /\ p \notin Above[q]}
          /\ \A q \in DOMAIN e : e[q] = d[q]
      BY <2>1 DEF Edit, Without
    <3>2. QED
      BY <1>2, <3>1 DEF Accepts
  <2>2. CASE v # Null
    <3>1. /\ DOMAIN e = {q \in DOMAIN d : p \notin Above[q]} \cup {p} \cup Above[p]
          /\ \A q \in DOMAIN e :
               e[q] = IF q = p THEN v ELSE IF q \in Above[p] THEN Object ELSE d[q]
      BY <2>2 DEF Edit, Put
    <3>2. QED
      BY <1>2, <3>1 DEF Accepts
  <2>3. QED
    BY <2>1, <2>2
<1>5. ApplyOperation(e, o) = Put(e, o.path, o.value)
  BY <1>2, <1>3, <1>4 DEF ApplyOperation
<1>6. Put(e, o.path, o.value) = Edit(Put(d, o.path, o.value), p, v)
  BY <1>1, PutsCommute, PutWithoutCommute DEF Edit
<1>7. QED
  BY <1>2, <1>5, <1>6

(***************************************************************************)
(* A JSON patch that applies to a document does the same after an edit     *)
(* apart from the paths of its operations.                                 *)
(***************************************************************************)
LEMMA ExecCommutes ==
    ASSUME NEW ops \in Seq(JSONOperations), NEW d \in Documents,
           Exec(ops, d) # Failed,
           NEW p \in Paths, NEW v \in Leaves \cup {Null},
           \A i \in 1 .. Len(ops) : /\ ops[i].path # p
                                    /\ ops[i].path \notin Above[p]
                                    /\ p \notin Above[ops[i].path]
    PROVE  Exec(ops, Edit(d, p, v)) = Edit(Exec(ops, d), p, v)
<1> DEFINE Any == Documents \cup {Failed}
           R == {r \in Any \X Any : r[1] # Failed => r[2] = Edit(r[1], p, v)}
<1>1. <<d, Edit(d, p, v)>> \in R
  BY EditIsDocument
<1>2. ASSUME NEW x, NEW y, <<x, y>> \in R, NEW i \in 1 .. Len(ops)
      PROVE  <<ApplyOperation(x, ops[i]), ApplyOperation(y, ops[i])>> \in R
  <2>1. x \in Any /\ y \in Any /\ (x # Failed => y = Edit(x, p, v))
    BY <1>2
  <2>2. ops[i] \in JSONOperations
    OBVIOUS
  <2>3. ApplyOperation(x, ops[i]) \in Any /\ ApplyOperation(y, ops[i]) \in Any
    BY <2>1, <2>2, PutDocument DEF ApplyOperation, JSONOperations
  <2>4. ASSUME ApplyOperation(x, ops[i]) # Failed
        PROVE  ApplyOperation(y, ops[i]) = Edit(ApplyOperation(x, ops[i]), p, v)
    <3>1. x # Failed
      BY <2>4 DEF ApplyOperation
    <3>2. QED
      BY <2>1, <2>2, <2>4, <3>1, OperationCommutes
  <2>5. QED
    BY <2>3, <2>4
<1> HIDE DEF R
<1>3. <<Exec(ops, d), Exec(ops, Edit(d, p, v))>> \in R
  BY <1>1, <1>2, ExecRelated
<1>4. QED
  BY <1>3 DEF R

\* The same edit of two documents adds no difference.
LEMMA EditKeepsDifference ==
    ASSUME NEW a, NEW b, NEW paths, DifferWithin(a, b, paths),
           NEW p \in Paths, NEW v
    PROVE  DifferWithin(Edit(a, p, v), Edit(b, p, v), paths)
BY DEF DifferWithin, Edit, Put, Without

-----------------------------------------------------------------------------
(***************************************************************************)
(* A patch that is applied once more.                                      *)
(***************************************************************************)

\* A patch of one operation.
LEMMA ExecOne ==
    ASSUME NEW o \in JSONOperations, NEW d
    PROVE  Exec(<<o>>, d) = ApplyOperation(d, o)
<1> DEFINE ops == <<o>>
<1>1. ops \in Seq(JSONOperations) /\ Len(ops) = 1 /\ ops[1] = o
  OBVIOUS
<1> HIDE DEF ops
<1>2. PICK f : /\ f[0] = d /\ Exec(ops, d) = f[Len(ops)]
               /\ \A n \in 1 .. Len(ops) : f[n] = ApplyOperation(f[n - 1], ops[n])
  BY <1>1, ExecRun
<1>3. Exec(ops, d) = ApplyOperation(d, o)
  BY <1>1, <1>2
<1>4. QED
  BY <1>3 DEF ops

\* The document is as the operation leaves it.
Done(d, o) == o.path \in DOMAIN d /\ d[o.path] = o.value

\* An operation that is done changes nothing.
LEMMA DoneChangesNothing ==
    ASSUME NEW d \in Documents, NEW o \in JSONOperations, Done(d, o)
    PROVE  ApplyOperation(d, o) = d
<1> DEFINE p == o.path
           e == Put(d, p, o.value)
<1>1. /\ DOMAIN d \subseteq Paths /\ d = [q \in DOMAIN d |-> d[q]]
      /\ \A q \in DOMAIN d : \A r \in Above[q] : r \in DOMAIN d /\ d[r] = Object
      /\ p \in DOMAIN d /\ d[p] = o.value /\ o.value # Object
  BY DocumentShape, PathsAssumption DEF Done, JSONOperations
<1>2. /\ DOMAIN e = {q \in DOMAIN d : p \notin Above[q]} \cup {p} \cup Above[p]
      /\ \A q \in DOMAIN e :
           e[q] = IF q = p THEN o.value ELSE IF q \in Above[p] THEN Object ELSE d[q]
      /\ e = [q \in DOMAIN e |-> e[q]]
  BY DEF Put
<1> HIDE DEF e
<1>3. DOMAIN e = DOMAIN d
  BY <1>1, <1>2
<1>4. \A q \in DOMAIN d : e[q] = d[q]
  BY <1>1, <1>2, <1>3
<1>5. e = d
  BY <1>1, <1>2, <1>3, <1>4, SameFunction
<1>6. d # Failed /\ Accepts(d, p) /\ p \in DOMAIN d
  BY <1>1, FailedAssumption DEF Accepts
<1>7. QED
  BY <1>5, <1>6 DEF ApplyOperation, e

(***************************************************************************)
(* No operation of the patch undoes or reaches into what another one does: *)
(* the paths are different, and none is above another.                     *)
(***************************************************************************)
Separate(ops) ==
    \A i, j \in 1 .. Len(ops) :
        i # j => ops[i].path # ops[j].path /\ ops[i].path \notin Above[ops[j].path]

\* An operation leaves what the others did.
LEMMA StaysDone ==
    ASSUME NEW d \in Documents, NEW o \in JSONOperations, NEW u \in JSONOperations,
           ApplyOperation(d, u) # Failed, Done(d, o),
           u.path # o.path, u.path \notin Above[o.path], o.path \notin Above[u.path]
    PROVE  Done(ApplyOperation(d, u), o)
BY DEF ApplyOperation, Done, Put

\* An operation is done once it was applied.
LEMMA AppliedIsDone ==
    ASSUME NEW d \in Documents, NEW o \in JSONOperations, ApplyOperation(d, o) # Failed
    PROVE  Done(ApplyOperation(d, o), o)
BY DEF ApplyOperation, Done, Put

(***************************************************************************)
(* A patch of separate operations changes nothing where it was applied     *)
(* before: what Sleep changed passes the test of WakeUp.                   *)
(***************************************************************************)
THEOREM ExecTwice ==
    ASSUME NEW ops \in Seq(JSONOperations), Separate(ops),
           NEW d \in Documents, Exec(ops, d) # Failed
    PROVE  Exec(ops, Exec(ops, d)) = Exec(ops, d)
<1>1. PICK f : /\ f[0] = d /\ Exec(ops, d) = f[Len(ops)]
               /\ \A n \in 1 .. Len(ops) : f[n] = ApplyOperation(f[n - 1], ops[n])
  BY ExecRun
<1>2. Len(ops) \in Nat /\ \A i \in 1 .. Len(ops) : ops[i] \in JSONOperations
  OBVIOUS
<1> DEFINE Good(n) == f[n] # Failed => /\ f[n] \in Documents
                                       /\ \A i \in 1 .. n : Done(f[n], ops[i])
           T == {n \in Nat : n <= Len(ops) => Good(n)}
<1>3. 0 \in T
  BY <1>1
<1>4. ASSUME NEW n \in T PROVE n + 1 \in T
  <2>1. SUFFICES ASSUME n + 1 <= Len(ops), f[n + 1] # Failed
                 PROVE  /\ f[n + 1] \in Documents
                        /\ \A i \in 1 .. (n + 1) : Done(f[n + 1], ops[i])
    OBVIOUS
  <2>2. n \in Nat /\ n + 1 \in 1 .. Len(ops) /\ Good(n)
    BY <1>2, <2>1
  <2>3. f[n + 1] = ApplyOperation(f[n], ops[n + 1])
    BY <1>1, <2>2
  <2>4. f[n] # Failed
    BY <2>1, <2>3 DEF ApplyOperation
  <2>5. f[n] \in Documents /\ \A i \in 1 .. n : Done(f[n], ops[i])
    BY <2>2, <2>4
  <2> HIDE DEF Good, T
  <2>6. f[n + 1] \in Documents
    BY <1>2, <2>1, <2>2, <2>3, <2>5, PutDocument DEF ApplyOperation, JSONOperations
  <2>7. ASSUME NEW i \in 1 .. n PROVE Done(f[n + 1], ops[i])
    <3>1. i \in 1 .. Len(ops) /\ i # n + 1
      BY <1>2, <2>2
    <3>2. /\ ops[i].path # ops[n + 1].path
          /\ ops[i].path \notin Above[ops[n + 1].path]
          /\ ops[n + 1].path \notin Above[ops[i].path]
      BY <2>2, <3>1 DEF Separate
    <3>3. QED
      BY <1>2, <2>1, <2>2, <2>3, <2>5, <3>1, <3>2, StaysDone
  <2>8. Done(f[n + 1], ops[n + 1])
    BY <1>2, <2>1, <2>2, <2>3, <2>5, AppliedIsDone
  <2>9. QED
    BY <2>2, <2>6, <2>7, <2>8
<1>5. T = Nat
  <2>1. T \in SUBSET Nat
    OBVIOUS
  <2> HIDE DEF T
  <2>2. QED
    BY <1>3, <1>4, <2>1, NaturalsAll
<1>6. Good(Len(ops))
  BY <1>2, <1>5
<1> DEFINE r == Exec(ops, d)
<1>7. r \in Documents /\ \A i \in 1 .. Len(ops) : Done(r, ops[i])
  BY <1>1, <1>6
<1> HIDE DEF r
<1>8. \A x \in {r} : \A i \in 1 .. Len(ops) : ApplyOperation(x, ops[i]) \in {r}
  BY <1>2, <1>7, DoneChangesNothing
<1>9. Exec(ops, r) \in {r}
  BY <1>8, ExecWithin
<1>10. QED
  BY <1>9 DEF r

-----------------------------------------------------------------------------
(***************************************************************************)
(* What Sleep and WakeUp make of documents.                                *)
(***************************************************************************)

\* The patch fits the document, now or when it was made: it does to d what
\* the operations do, and the restore patch of the copy undoes it.
SleepFits(d, data, ops) ==
    LET modified == Exec(ops, data)
        merged == MergePatch(d, CreateMergePatch(data, modified))
    IN  /\ merged = Exec(ops, d)
        /\ MergePatch(merged, CreateMergePatch(modified, data)) = d
        /\ DifferWithin(merged, d, PathsSet(ops, data))

\* The patch brings d back to the document awake, and stays within the paths.
Restores(d, patch, awake, paths) ==
    MergePatch(d, patch) = awake /\ StaysWithin(patch, paths)

\* The paths of the patch are where it changes a document.
LEMMA PatchDiffers ==
    ASSUME NEW ops \in Seq(JSONOperations), NEW d \in Documents, Exec(ops, d) # Failed
    PROVE  /\ Exec(ops, d) \in Documents
           /\ PathsSet(ops, d) \in SUBSET Paths
           /\ \A i \in 1 .. Len(ops) : ops[i].path \in PathsSet(ops, d)
           /\ DifferWithin(Exec(ops, d), d, PathsSet(ops, d))
           /\ DifferWithin(d, Exec(ops, d), PathsSet(ops, d))
<1>1. Exec(ops, d) \in Documents
  BY ExecDocument
<1> DEFINE e == Exec(ops, d)
           paths == PathsSet(ops, d)
<1>2. DOMAIN e \subseteq Paths /\ DOMAIN d \subseteq Paths
  BY <1>1, DocumentShape
<1>3. /\ Changed(e, d) \subseteq paths
      /\ \A i \in 1 .. Len(ops) : ops[i].path \in paths
      /\ \A q \in paths : q \in Changed(e, d) \/ \E i \in 1 .. Len(ops) : q = ops[i].path
  BY DEF PathsSet
<1>4. \A i \in 1 .. Len(ops) : ops[i].path \in Paths
  <2>1. \A i \in 1 .. Len(ops) : ops[i] \in JSONOperations
    OBVIOUS
  <2>2. QED
    BY <2>1 DEF JSONOperations
<1> HIDE DEF e, paths
<1>5. Changed(e, d) \subseteq Paths
  BY <1>2 DEF Changed
<1>6. paths \in SUBSET Paths
  BY <1>3, <1>4, <1>5
<1>7. DifferWithin(e, d, Changed(e, d))
  BY <1>1, DifferWhereChanged DEF e
<1>8. DifferWithin(e, d, paths) /\ DifferWithin(d, e, paths)
  BY <1>3, <1>7 DEF DifferWithin, AtOrBelow
<1>9. QED
  BY <1>1, <1>3, <1>6, <1>8 DEF e, paths

\* A merge patch is made of paths.
LEMMA MergePatchPaths ==
    ASSUME NEW m \in MergePatches
    PROVE  DOMAIN m \subseteq Paths
BY DEF MergePatches

\* The patch fits the document of which it is made.
LEMMA FitsListed ==
    ASSUME NEW ops \in Seq(JSONOperations), NEW d \in Documents, Exec(ops, d) # Failed
    PROVE  SleepFits(d, d, ops)
BY PatchDiffers, RestoreExact DEF SleepFits

\* An edit elsewhere is kept when a restore patch is applied after it.
LEMMA RestoresEdited ==
    ASSUME NEW d \in Documents, NEW patch \in MergePatches, NEW awake,
           NEW paths \in SUBSET Paths, Restores(d, patch, awake, paths),
           NEW p \in Paths, NEW v \in Leaves \cup {Null}, Apart(p, paths)
    PROVE  Restores(Edit(d, p, v), patch, Edit(awake, p, v), paths)
<1>1. DOMAIN patch \subseteq Paths /\ DOMAIN d \subseteq Paths
  BY MergePatchPaths, DocumentShape
<1>2. Clear(patch, p)
  BY <1>1, ApartIsClear DEF Restores
<1>3. QED
  BY <1>1, <1>2, MergeCommutes DEF Restores

\* Edits elsewhere do not keep the patch from fitting.
LEMMA FitsEdited ==
    ASSUME NEW ops \in Seq(JSONOperations), NEW data \in Documents,
           Exec(ops, data) # Failed, NEW d \in Documents, SleepFits(d, data, ops),
           NEW p \in Paths, NEW v \in Leaves \cup {Null}, Apart(p, PathsSet(ops, data))
    PROVE  SleepFits(Edit(d, p, v), data, ops)
<1> DEFINE modified == Exec(ops, data)
           paths == PathsSet(ops, data)
           forward == CreateMergePatch(data, modified)
           restore == CreateMergePatch(modified, data)
           merged == MergePatch(d, forward)
<1>1. /\ modified \in Documents /\ paths \in SUBSET Paths
      /\ \A i \in 1 .. Len(ops) : ops[i].path \in paths
      /\ DifferWithin(modified, data, paths) /\ DifferWithin(data, modified, paths)
  BY PatchDiffers
<1>2. /\ merged = Exec(ops, d) /\ MergePatch(merged, restore) = d
      /\ DifferWithin(merged, d, paths)
  BY DEF SleepFits
<1>3. Apart(p, paths)
  OBVIOUS
<1> HIDE DEF modified, paths
<1>4. /\ forward \in MergePatches /\ restore \in MergePatches
      /\ StaysWithin(forward, paths) /\ StaysWithin(restore, paths)
  BY <1>1, CreatedMergePatch, MergePatchStays
<1> HIDE DEF forward, restore
<1>5. merged \in Documents
  BY <1>4, MergedDocument
<1> HIDE DEF merged
<1>6. MergePatch(Edit(d, p, v), forward) = Edit(merged, p, v)
  BY <1>1, <1>3, <1>4, RestoresEdited DEF Restores, merged
<1>7. MergePatch(Edit(merged, p, v), restore) = Edit(d, p, v)
  BY <1>1, <1>2, <1>3, <1>4, <1>5, RestoresEdited DEF Restores
<1>8. Exec(ops, Edit(d, p, v)) = Edit(merged, p, v)
  <2>1. Exec(ops, d) # Failed
    BY <1>2, <1>5, FailedAssumption
  <2>2. \A i \in 1 .. Len(ops) : /\ ops[i].path # p /\ ops[i].path \notin Above[p]
                                 /\ p \notin Above[ops[i].path]
    BY <1>1, <1>3 DEF Apart
  <2>3. QED
    BY <1>2, <2>1, <2>2, ExecCommutes
<1>9. DifferWithin(Edit(merged, p, v), Edit(d, p, v), paths)
  BY <1>2, EditKeepsDifference
<1>10. QED
  BY <1>6, <1>7, <1>8, <1>9 DEF SleepFits, modified, paths, forward, restore

\* The operations remove a path only by setting one above it.
LEMMA NothingRemoved ==
    ASSUME NEW ops \in Seq(JSONOperations), NEW d \in Documents, Exec(ops, d) # Failed,
           NEW p \in DOMAIN d, p \notin DOMAIN Exec(ops, d)
    PROVE  \E q \in Above[p] : q \in DOMAIN Exec(ops, d) /\ Exec(ops, d)[q] # Object
<1> DEFINE Covers(x) == p \in DOMAIN x
                        \/ \E q \in Above[p] : q \in DOMAIN x /\ x[q] # Object
           R == {x \in Documents \cup {Failed} : x # Failed => Covers(x)}
<1>1. d \in R
  OBVIOUS
<1>2. ASSUME NEW x \in R, NEW o \in JSONOperations
      PROVE  ApplyOperation(x, o) \in R
  <2>1. CASE ApplyOperation(x, o) = Failed
    BY <2>1
  <2>2. CASE ApplyOperation(x, o) # Failed
    <3>1. /\ x # Failed /\ Accepts(x, o.path)
          /\ ApplyOperation(x, o) = Put(x, o.path, o.value)
      BY <2>2 DEF ApplyOperation
    <3>2. /\ o.path \in Paths /\ o.value \in Leaves /\ o.value # Object
          /\ p \in Paths /\ x \in Documents
      BY <3>1, PathsAssumption, DocumentShape DEF JSONOperations
    <3> DEFINE y == Put(x, o.path, o.value)
    <3>3. y \in Documents
      BY <3>2, PutDocument
    <3>4. /\ DOMAIN y = {q \in DOMAIN x : o.path \notin Above[q]}
                        \cup {o.path} \cup Above[o.path]
          /\ \A q \in DOMAIN y :
               y[q] = IF q = o.path THEN o.value
                      ELSE IF q \in Above[o.path] THEN Object ELSE x[q]
      BY DEF Put
    <3> HIDE DEF y
    <3>5. ASSUME p \in DOMAIN x PROVE Covers(y)
      BY <3>2, <3>4, <3>5
    <3>6. ASSUME \E q \in Above[p] : q \in DOMAIN x /\ x[q] # Object
          PROVE  Covers(y)
      <4>1. PICK q \in Above[p] : q \in DOMAIN x /\ x[q] # Object
        BY <3>6
      <4>2. q \notin Above[o.path]
        BY <3>1, <4>1 DEF Accepts
      <4>3. o.path \in Above[q] => o.path \in Above[p]
        BY <3>2, <4>1, PathsOrder
      <4>4. QED
        BY <3>2, <3>4, <4>1, <4>2, <4>3
    <3>7. Covers(y)
      BY <3>1, <3>5, <3>6
    <3>8. QED
      BY <3>1, <3>3, <3>7 DEF y
  <2>3. QED
    BY <2>1, <2>2
<1>3. \A x \in R : \A i \in 1 .. Len(ops) : ApplyOperation(x, ops[i]) \in R
  <2>1. \A i \in 1 .. Len(ops) : ops[i] \in JSONOperations
    OBVIOUS
  <2> HIDE DEF R
  <2>2. QED
    BY <1>2, <2>1
<1>4. Exec(ops, d) \in R
  <2> HIDE DEF R
  <2>1. QED
    BY <1>1, <1>3, ExecWithin
<1>5. QED
  BY <1>4

\* So the object that Sleep applies sets what it has, and removes nothing.
LEMMA ForwardSets ==
    ASSUME NEW ops \in Seq(JSONOperations), NEW d \in Documents, Exec(ops, d) # Failed,
           NEW p \in DOMAIN CreateMergePatch(d, Exec(ops, d))
    PROVE  CreateMergePatch(d, Exec(ops, d))[p] # Null
<1> DEFINE e == Exec(ops, d)
<1>1. e \in Documents
  BY ExecDocument
<1>2. \A q \in DOMAIN d : q \notin DOMAIN e =>
        \E r \in Above[q] : r \in DOMAIN e /\ e[r] # Object
  BY NothingRemoved
<1> HIDE DEF e
<1>3. \A q \in DOMAIN e : e[q] # Null
  BY <1>1, DocumentShape
<1>4. \A q \in Changed(d, e) : q \in DOMAIN e
  BY <1>2 DEF Changed
<1>5. p \in DOMAIN e
  BY <1>1, <1>4, PatchFollows DEF e
<1>6. CreateMergePatch(d, e)[p] = e[p]
  BY <1>1, <1>5, PatchFollows DEF e
<1>7. QED
  BY <1>3, <1>5, <1>6 DEF e

\* What Server Side Apply makes of a document is one, kube-green owns leaves
\* of it, and it is the merge when no path is given up.
LEMMA Applied ==
    ASSUME NEW ops \in Seq(JSONOperations), NEW data \in Documents,
           Exec(ops, data) # Failed, NEW d \in Documents,
           NEW own \in SUBSET {p \in DOMAIN d : d[p] # Object},
           NEW forward, forward = CreateMergePatch(data, Exec(ops, data))
    PROVE  LET e == ServerSideApply(d, forward, own)
           IN  /\ e \in Documents
               /\ Replaced(forward) \subseteq {p \in DOMAIN e : e[p] # Object}
               /\ own \subseteq DOMAIN forward => e = MergePatch(d, forward)
<1> DEFINE merged == MergePatch(d, forward)
           e == ServerSideApply(d, forward, own)
<1>1. forward \in MergePatches /\ \A p \in DOMAIN forward : forward[p] # Null
  BY ExecDocument, CreatedMergePatch, ForwardSets
<1>2. merged \in Documents
  BY <1>1, MergedDocument
<1>3. /\ \A p \in DOMAIN forward : p \in DOMAIN merged /\ merged[p] = forward[p]
      /\ \A p \in DOMAIN merged : p \notin DOMAIN forward => merged[p] = d[p]
  BY <1>1 DEF MergePatch
<1>4. /\ DOMAIN e = {p \in DOMAIN merged : p \notin own \ DOMAIN forward}
      /\ \A p \in DOMAIN e : e[p] = merged[p]
      /\ e = [p \in DOMAIN e |-> e[p]]
  BY DEF ServerSideApply
<1> HIDE DEF merged, e
<1>5. /\ merged = [p \in DOMAIN merged |-> merged[p]] /\ DOMAIN merged \subseteq Paths
      /\ \A p \in DOMAIN merged : /\ merged[p] \in Leaves \cup {Object}
                                  /\ \A q \in Above[p] : q \in DOMAIN merged /\ merged[q] = Object
  BY <1>2, DocumentShape DEF Documents
<1>6. \A p \in DOMAIN e : \A q \in Above[p] : q \in DOMAIN e /\ e[q] = Object
  BY <1>3, <1>4, <1>5
<1>7. e \in Documents
  BY <1>4, <1>5, <1>6, DocumentIs
<1>8. Replaced(forward) \subseteq {p \in DOMAIN e : e[p] # Object}
  BY <1>3, <1>4 DEF Replaced
<1>9. own \subseteq DOMAIN forward => e = merged
  BY <1>4, <1>5, SameFunction
<1>10. QED
  BY <1>7, <1>8, <1>9 DEF merged, e

=============================================================================
