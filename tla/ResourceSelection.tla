------------------------- MODULE ResourceSelection --------------------------
(***************************************************************************)
(* Which resources of a patch target an operation works on: the filters of *)
(* a SleepInfo as getListOptions turns them into selectors, the list of    *)
(* the API server and filterByName.                                        *)
(*                                                                         *)
(* An item has a name, a number in the order in which the API server lists *)
(* names, and a set of labels, each a key with its value.  A filter        *)
(* reference has group, kind and name, or labels.  A kind that the cluster *)
(* does not serve has no items.                                            *)
(***************************************************************************)
EXTENDS Functions, FiniteSets, Naturals, Sequences

CONSTANTS
    Limit,   \* the items in the answer to a list
    NoName   \* the name of a reference by labels

ASSUME LimitAssumption == Limit \in Nat \ {0}

\* The apiVersion starts with the group and a slash.  An apiVersion of the
\* core group, whose name is empty, has no slash.
MatchPatchTargetAndFilterRef(target, ref) ==
    /\ target.group # ""
    /\ ref.group = target.group
    /\ ref.kind = target.kind

\* The references that name a resource of the target; a name may come twice.
NamingRefs(refs, target) ==
    {i \in DOMAIN refs : /\ MatchPatchTargetAndFilterRef(target, refs[i])
                         /\ refs[i].name # NoName}

RefNames(refs, target) == {refs[i].name : i \in NamingRefs(refs, target)}

GetFieldToExclude(refs, target) == RefNames(refs, target)

\* Variant: every name becomes a field selector.
GetAllFieldsToInclude(refs, target) ==
    [selector |-> RefNames(refs, target), names |-> {}]

\* Field selectors are a conjunction: two names or more are left to
\* filterByName.
GetFieldToInclude(refs, target) ==
    LET count == Cardinality(NamingRefs(refs, target))
    IN  [selector |-> IF count = 1 THEN RefNames(refs, target) ELSE {},
         names |-> IF count > 1 THEN RefNames(refs, target) ELSE {}]

\* getLabelsToInclude and getLabelsToExclude.
GetLabels(refs) == UNION {r.labels : r \in Range(refs)}

\* The items that match the selectors of getListOptions.
Matching(items, target, filter) ==
    {i \in items :
       /\ \A n \in GetFieldToInclude(filter.include, target).selector : i.name = n
       /\ i.name \notin GetFieldToExclude(filter.exclude, target)
       /\ GetLabels(filter.include) \subseteq i.labels
       /\ GetLabels(filter.exclude) \cap i.labels = {}}

\* The API server answers with the first items; the rest is not asked for.
FirstPage(items) ==
    {i \in items : Cardinality({j \in items : j.name < i.name}) < Limit}

FilterByName(items, names) ==
    IF names = {} THEN items ELSE {i \in items : i.name \in names}

GetListByNamespace(items, target, filter) ==
    FilterByName(FirstPage(Matching(items, target, filter)),
                 GetFieldToInclude(filter.include, target).names)

-----------------------------------------------------------------------------
(***************************************************************************)
(* What the fields excludeRef and includeRef say: rules are evaluated in   *)
(* conjunction, except for several names of one apiVersion and kind.  So a *)
(* resource is excluded when it has all the labels of a reference, where   *)
(* getLabelsToExclude leaves out what has any of them.                     *)
(***************************************************************************)
NamesOf(refs, target) ==
    {r.name : r \in {r \in Range(refs) : /\ r.name # NoName
                                         /\ r.group = target.group
                                         /\ r.kind = target.kind}}

Included(i, target, refs) ==
    /\ NamesOf(refs, target) # {} => i.name \in NamesOf(refs, target)
    /\ \A r \in Range(refs) : r.labels \subseteq i.labels

Excluded(i, target, refs) ==
    \/ i.name \in NamesOf(refs, target)
    \/ \E r \in Range(refs) : r.labels # {} /\ r.labels \subseteq i.labels

Wanted(items, target, filter) ==
    {i \in items : /\ Included(i, target, filter.include)
                   /\ ~ Excluded(i, target, filter.exclude)}

\* TRUE when a reference by name is to a kind of the core group.
NamesCore(target, filter) ==
    /\ target.group = ""
    /\ NamesOf(filter.include \o filter.exclude, target) # {}

\* TRUE when a reference of excludeRef has several labels.
ExcludesByLabels(filter) ==
    \E r \in Range(filter.exclude) : \E k, l \in r.labels : k # l

=============================================================================
