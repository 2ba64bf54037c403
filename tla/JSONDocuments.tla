--------------------------- MODULE JSONDocuments ----------------------------
(***************************************************************************)
(* The JSON documents of resources, and the patches that kube-green makes  *)
(* and applies: patcher.Exec and IsResourceChanged over JSON Patch, and    *)
(* the merge patches of evanphx/json-patch and of the API server.          *)
(*                                                                         *)
(* A document maps each path it has to a leaf value or to Object.  A list  *)
(* is a leaf.  A merge patch is a document in which Null removes a path.   *)
(***************************************************************************)
EXTENDS Naturals, Sequences

CONSTANTS
    Paths,    \* the paths of the documents, without the root
    Above,    \* the paths that lead to a path
    Leaves,   \* the values of leaves
    Object,   \* the value of a path with paths below it, maybe none
    Null,     \* in a merge patch: the path is removed
    Failed    \* the result of a patch that does not apply

ASSUME PathsAssumption ==
    /\ Above \in [Paths -> SUBSET Paths]
    /\ \A p \in Paths : p \notin Above[p]
    /\ \A p \in Paths : \A q \in Above[p] : Above[q] \subseteq Above[p]
    /\ \A p \in Paths : \A S \in SUBSET Above[p] :
         S # {} => \E q \in S : Above[q] \cap S = {}
    /\ \A p \in Paths : \A q, r \in Above[p] :
         q = r \/ q \in Above[r] \/ r \in Above[q]
    /\ Object \notin Leaves /\ Null \notin Leaves \cup {Object}

Documents ==
    {d \in UNION {[S -> Leaves \cup {Object}] : S \in SUBSET Paths} :
        \A p \in DOMAIN d : \A q \in Above[p] : q \in DOMAIN d /\ d[q] = Object}

ASSUME FailedAssumption == Failed \notin Documents

\* A path is set, with the objects that lead to it; what was below is gone.
Put(d, p, v) ==
    [q \in {q \in DOMAIN d : p \notin Above[q]} \cup {p} \cup Above[p] |->
        IF q = p THEN v ELSE IF q \in Above[p] THEN Object ELSE d[q]]

\* Nothing but objects leads to the path.
Accepts(d, p) == \A q \in Above[p] \cap DOMAIN d : d[q] = Object

\* The operations of a JSON patch, without those that remove or move.
JSONOperations == [op : {"add", "replace"}, path : Paths, value : Leaves]

\* The operations add, with EnsurePathExistsOnAdd, and replace.
ApplyOperation(d, o) ==
    IF d = Failed \/ ~ Accepts(d, o.path)
                  \/ (o.op = "replace" /\ o.path \notin DOMAIN d)
    THEN Failed ELSE Put(d, o.path, o.value)

Exec(patch, d) ==
    LET after[n \in 0 .. Len(patch)] ==
          IF n = 0 THEN d ELSE ApplyOperation(after[n - 1], patch[n])
    IN  after[Len(patch)]

\* TRUE as well when the patch does not apply: WakeUp skips both alike.
IsResourceChanged(patch, d) == Exec(patch, d) # d

\* The paths at which a and b differ; of what b lacks, the topmost.
Changed(a, b) ==
    {p \in DOMAIN a \ DOMAIN b :
        \A q \in Above[p] : q \in DOMAIN b /\ b[q] = Object}
    \cup {p \in DOMAIN b : p \notin DOMAIN a \/ a[p] # b[p]}

\* The merge patch that makes b of a.
CreateMergePatch(a, b) ==
    [p \in Changed(a, b) \cup UNION {Above[q] : q \in Changed(a, b)} |->
        IF p \in DOMAIN b THEN b[p] ELSE Null]

\* The paths that a merge patch replaces or removes as a whole.
Replaced(patch) == {p \in DOMAIN patch : patch[p] # Object}

MergePatches ==
    {m \in UNION {[S -> Leaves \cup {Object, Null}] : S \in SUBSET Paths} :
        \A p \in DOMAIN m : \A q \in Above[p] : q \in DOMAIN m /\ m[q] = Object}

MergePatch(d, patch) ==
    LET written == {p \in DOMAIN patch : patch[p] # Null}
        kept == {p \in DOMAIN d : \A q \in Replaced(patch) :
                                    p # q /\ q \notin Above[p]}
    IN  [p \in kept \cup written |-> IF p \in written THEN patch[p] ELSE d[p]]

(***************************************************************************)
(* Server Side Apply with ForceOwnership: what the object sets is merged,  *)
(* and a field that its manager owned and does not set any more is         *)
(* removed.                                                                *)
(***************************************************************************)
ServerSideApply(d, sparse, owned) ==
    LET merged == MergePatch(d, sparse)
        dropped == owned \ DOMAIN sparse
    IN  [p \in {p \in DOMAIN merged : p \notin dropped} |-> merged[p]]

\* A path is removed with all that is below it.
Without(d, p) == [q \in {q \in DOMAIN d : q # p /\ p \notin Above[q]} |-> d[q]]

\* A user sets or removes a path.
Edit(d, p, v) == IF v = Null THEN Without(d, p) ELSE Put(d, p, v)

\* The path is neither one of the paths nor above or below one.
Apart(p, paths) == \A q \in paths : q # p /\ q \notin Above[p] /\ p \notin Above[q]

\* The paths that a patch sets, with the parents that it creates for them.
PathsSet(ops, d) ==
    Changed(Exec(ops, d), d) \cup {ops[i].path : i \in DOMAIN ops}

\* Another writer takes over the fields whose value it changes.
StillOwned(owned, old, new) ==
    {p \in owned : p \in DOMAIN new /\ new[p] = old[p]}

=============================================================================
