----------------------- MODULE ResourceSelectionProofs ----------------------
(***************************************************************************)
(* Proofs about ResourceSelection: the selectors, the page of the API      *)
(* server and filterByName together return what the filters say.           *)
(***************************************************************************)
EXTENDS ResourceSelection, FiniteSetTheorems, TLAPS

\* A list of references.
IsList(refs) == refs \in Seq(Range(refs))

\* A list is indexed by finitely many numbers.
LEMMA ListDomain ==
    ASSUME NEW refs, IsList(refs)
    PROVE  /\ IsFiniteSet(DOMAIN refs)
           /\ Range(refs) = {refs[i] : i \in DOMAIN refs}
<1>1. DOMAIN refs = 1 .. Len(refs) /\ Len(refs) \in Nat
  BY DEF IsList
<1>2. QED
  BY <1>1, FS_Interval DEF Range

\* The names that the selectors are made of are the names of the filter,
\* except in the core group.
LEMMA NamesAreRefNames ==
    ASSUME NEW refs, NEW target,
           target.group = "" => NamesOf(refs, target) = {}
    PROVE  RefNames(refs, target) = NamesOf(refs, target)
<1>1. CASE target.group = ""
  <2>1. RefNames(refs, target) = {}
    BY <1>1 DEF RefNames, NamingRefs, MatchPatchTargetAndFilterRef
  <2>2. QED
    BY <1>1, <2>1
<1>2. CASE target.group # ""
  <2>1. ASSUME NEW n \in RefNames(refs, target) PROVE n \in NamesOf(refs, target)
    BY <2>1 DEF RefNames, NamingRefs, MatchPatchTargetAndFilterRef, NamesOf, Range
  <2>2. ASSUME NEW n \in NamesOf(refs, target) PROVE n \in RefNames(refs, target)
    <3>1. PICK i \in DOMAIN refs : /\ n = refs[i].name /\ refs[i].name # NoName
                                   /\ refs[i].group = target.group
                                   /\ refs[i].kind = target.kind
      BY <2>2 DEF NamesOf, Range
    <3>2. i \in NamingRefs(refs, target)
      BY <1>2, <3>1 DEF NamingRefs, MatchPatchTargetAndFilterRef
    <3>3. QED
      BY <3>1, <3>2 DEF RefNames
  <2>3. QED
    BY <2>1, <2>2
<1>3. QED
  BY <1>1, <1>2

\* A name selector takes one name, filterByName takes more: together they
\* include what the filter names.
LEMMA NamesIncluded ==
    ASSUME NEW refs, NEW target, IsList(refs), NEW name
    PROVE  LET field == GetFieldToInclude(refs, target)
           IN  (/\ \A n \in field.selector : name = n
                /\ field.names = {} \/ name \in field.names)
               <=> (RefNames(refs, target) # {} => name \in RefNames(refs, target))
<1> DEFINE N == NamingRefs(refs, target)
           names == RefNames(refs, target)
           field == GetFieldToInclude(refs, target)
<1>1. IsFiniteSet(N) /\ Cardinality(N) \in Nat
  BY ListDomain, FS_Subset, FS_CardinalityType DEF NamingRefs
<1>2. names = {refs[i].name : i \in N}
  BY DEF RefNames
<1>3. /\ field.selector = IF Cardinality(N) = 1 THEN names ELSE {}
      /\ field.names = IF Cardinality(N) > 1 THEN names ELSE {}
  BY DEF GetFieldToInclude
<1> HIDE DEF N, names, field
<1>4. CASE Cardinality(N) = 0
  BY <1>1, <1>2, <1>3, <1>4, FS_EmptySet DEF field, names
<1>5. CASE Cardinality(N) = 1
  <2>1. PICK i : N = {i}
    BY <1>1, <1>5, FS_Singleton
  <2>2. names = {refs[i].name}
    BY <1>2, <2>1
  <2>3. field.selector = {refs[i].name} /\ field.names = {}
    BY <1>3, <1>5, <2>2
  <2>4. QED
    BY <2>2, <2>3 DEF field, names
<1>6. CASE Cardinality(N) > 1
  <2>1. N # {}
    BY <1>6, FS_EmptySet
  <2>2. names # {}
    BY <1>2, <2>1
  <2>3. field.selector = {} /\ field.names = names
    BY <1>1, <1>3, <1>6
  <2>4. QED
    BY <2>2, <2>3 DEF field, names
<1>7. QED
  BY <1>1, <1>4, <1>5, <1>6

\* One answer holds all the items when they are not more than the limit.
LEMMA OnePage ==
    ASSUME NEW items, IsFiniteSet(items), \A i \in items : i.name \in Nat,
           Cardinality(items) <= Limit
    PROVE  FirstPage(items) = items
<1>1. ASSUME NEW i \in items
      PROVE  Cardinality({j \in items : j.name < i.name}) < Limit
  <2> DEFINE before == {j \in items : j.name < i.name}
  <2>1. i.name \in Nat /\ before \in SUBSET items
    OBVIOUS
  <2>2. ~ (i.name < i.name)
    BY <2>1
  <2>3. i \notin before
    BY <2>2
  <2> HIDE DEF before
  <2>4. /\ Cardinality(before) < Cardinality(items)
        /\ Cardinality(before) \in Nat /\ Cardinality(items) \in Nat
    <3>1. IsFiniteSet(before) /\ Cardinality(before) <= Cardinality(items)
      BY <2>1, FS_Subset
    <3>2. Cardinality(before) = Cardinality(items) => before = items
      BY <2>1, FS_Subset
    <3>3. QED
      BY <2>3, <3>1, <3>2, FS_CardinalityType
  <2>5. Cardinality(before) < Limit
    BY <2>4, LimitAssumption
  <2>6. QED
    BY <2>5 DEF before
<1>2. QED
  BY <1>1 DEF FirstPage

\* Two lists one after the other have the references of both.
LEMMA BothLists ==
    ASSUME NEW a, NEW b, IsList(a), IsList(b)
    PROVE  Range(a) \subseteq Range(a \o b) /\ Range(b) \subseteq Range(a \o b)
<1> DEFINE both == a \o b
<1>1. PICK S : a \in Seq(S) /\ b \in Seq(S)
  <2>1. a \in Seq(Range(a)) /\ b \in Seq(Range(b))
    BY DEF IsList
  <2>2. a \in Seq(Range(a) \cup Range(b)) /\ b \in Seq(Range(a) \cup Range(b))
    BY <2>1
  <2>3. QED
    BY <2>2
<1>2. /\ DOMAIN a = 1 .. Len(a) /\ Len(a) \in Nat
      /\ DOMAIN b = 1 .. Len(b) /\ Len(b) \in Nat
      /\ DOMAIN both = 1 .. (Len(a) + Len(b))
      /\ \A i \in 1 .. Len(a) : both[i] = a[i]
      /\ \A i \in 1 .. Len(b) : both[Len(a) + i] = b[i]
  BY <1>1
<1> HIDE DEF both
<1>3. Range(a) \subseteq Range(both)
  BY <1>2 DEF Range
<1>4. ASSUME NEW i \in 1 .. Len(b) PROVE b[i] \in Range(both)
  <2>1. Len(a) + i \in DOMAIN both /\ both[Len(a) + i] = b[i]
    BY <1>2
  <2>2. QED
    BY <2>1 DEF Range
<1>5. Range(b) \subseteq Range(both)
  BY <1>2, <1>4 DEF Range
<1>6. QED
  BY <1>3, <1>5 DEF both

\* A reference of the core group by name is in one of the two fields.
LEMMA CoreNames ==
    ASSUME NEW filter, NEW target, IsList(filter.include), IsList(filter.exclude),
           ~ NamesCore(target, filter), target.group = ""
    PROVE  NamesOf(filter.include, target) = {} /\ NamesOf(filter.exclude, target) = {}
<1> DEFINE both == filter.include \o filter.exclude
<1>1. Range(filter.include) \subseteq Range(both)
      /\ Range(filter.exclude) \subseteq Range(both)
  BY BothLists
<1>2. NamesOf(both, target) = {}
  BY DEF NamesCore
<1> HIDE DEF both
<1>3. QED
  BY <1>1, <1>2 DEF NamesOf

(***************************************************************************)
(* getListByNamespace lists exactly what includeRef and excludeRef say,    *)
(* for all filters and items, unless they name resources of the core       *)
(* group, a reference of excludeRef has several labels or more items match *)
(* the selectors than one answer holds.                                    *)
(***************************************************************************)
THEOREM ListsWhatFiltersSay ==
    ASSUME NEW items, IsFiniteSet(items), \A i \in items : i.name \in Nat,
           NEW target, NEW filter, IsList(filter.include), IsList(filter.exclude),
           ~ NamesCore(target, filter), ~ ExcludesByLabels(filter),
           Cardinality(Matching(items, target, filter)) <= Limit
    PROVE  GetListByNamespace(items, target, filter) = Wanted(items, target, filter)
<1> DEFINE field == GetFieldToInclude(filter.include, target)
           matching == Matching(items, target, filter)
<1>1. /\ RefNames(filter.include, target) = NamesOf(filter.include, target)
      /\ RefNames(filter.exclude, target) = NamesOf(filter.exclude, target)
  BY CoreNames, NamesAreRefNames
<1>2. FirstPage(matching) = matching
  <2>1. matching \in SUBSET items
    BY DEF Matching
  <2> HIDE DEF matching
  <2>2. IsFiniteSet(matching)
    BY <2>1, FS_Subset
  <2>3. QED
    BY <2>1, <2>2, OnePage DEF matching
<1>3. ASSUME NEW i \in items
      PROVE  i \in GetListByNamespace(items, target, filter)
             <=> i \in Wanted(items, target, filter)
  <2>1. i \in GetListByNamespace(items, target, filter)
        <=> i \in matching /\ (field.names = {} \/ i.name \in field.names)
    BY <1>2 DEF GetListByNamespace, FilterByName
  <2>2. i \in matching
        <=> /\ \A n \in field.selector : i.name = n
            /\ i.name \notin RefNames(filter.exclude, target)
            /\ GetLabels(filter.include) \subseteq i.labels
            /\ GetLabels(filter.exclude) \cap i.labels = {}
    BY DEF Matching, GetFieldToExclude
  <2>3. (/\ \A n \in field.selector : i.name = n
         /\ field.names = {} \/ i.name \in field.names)
        <=> (RefNames(filter.include, target) # {}
             => i.name \in RefNames(filter.include, target))
    BY NamesIncluded
  <2> HIDE DEF field, matching
  <2>4. GetLabels(filter.include) \subseteq i.labels
        <=> \A r \in Range(filter.include) : r.labels \subseteq i.labels
    BY DEF GetLabels
  <2>5. GetLabels(filter.exclude) \cap i.labels = {}
        <=> ~ \E r \in Range(filter.exclude) :
                r.labels # {} /\ r.labels \subseteq i.labels
    <3>1. \A r \in Range(filter.exclude) : \A k, l \in r.labels : k = l
      BY DEF ExcludesByLabels
    <3>2. \A r \in Range(filter.exclude) :
            (\E l \in r.labels : l \in i.labels)
            <=> r.labels # {} /\ r.labels \subseteq i.labels
      BY <3>1
    <3>3. GetLabels(filter.exclude) \cap i.labels = {}
          <=> ~ \E r \in Range(filter.exclude) : \E l \in r.labels : l \in i.labels
      BY DEF GetLabels
    <3>4. QED
      BY <3>2, <3>3
  <2>6. QED
    BY <1>1, <2>1, <2>2, <2>3, <2>4, <2>5 DEF Wanted, Included, Excluded
<1>4. /\ GetListByNamespace(items, target, filter) \subseteq items
      /\ Wanted(items, target, filter) \subseteq items
  BY DEF GetListByNamespace, FilterByName, FirstPage, Matching, Wanted
<1>5. QED
  BY <1>3, <1>4

=============================================================================
