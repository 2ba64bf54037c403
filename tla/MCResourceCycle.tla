-------------------------- MODULE MCResourceCycle ---------------------------
(***************************************************************************)
(* The instance of ResourceCycle for TLC: a Deployment, a Pod of the core  *)
(* group and a Pod that a controller owns, with one field that the default *)
(* patch sets and a map, such as the annotations, with a key that a patch  *)
(* of the SleepInfo sets and one that only users do.                       *)
(***************************************************************************)
EXTENDS ResourceCycle, TLC

MCPaths == {"spec", "spec.replicas", "notes", "notes.a", "notes.b"}
MCAbove ==
    [p \in MCPaths |-> CASE p = "spec.replicas" -> {"spec"}
                         [] p \in {"notes.a", "notes.b"} -> {"notes"}
                         [] OTHER -> {}]
MCLeaves == {0, 1}
MCEditPaths == {"spec.replicas", "notes", "notes.a", "notes.b"}

Add(p, v) == [op |-> "add", path |-> p, value |-> v]
Replace(p, v) == [op |-> "replace", path |-> p, value |-> v]
Ops(o) == [text |-> "ops", ops |-> o]

Annotate == Ops(<<Add("notes.a", 0)>>)
Both == Ops(<<Replace("spec.replicas", 0), Add("notes.a", 0)>>)
Empty == [text |-> "", ops |-> <<>>]
Invalid == [text |-> "invalid", ops |-> <<>>]
MCPatchLists ==
    {<<>>, <<Annotate>>, <<Both>>, <<Annotate, Both>>, <<Empty>>, <<Invalid>>}

Deployment == [target |-> [group |-> "apps", kind |-> "Deployment"],
               default |-> TRUE, oldKey |-> TRUE, controlled |-> FALSE]
Pod == [target |-> [group |-> "", kind |-> "Pod"],
        default |-> FALSE, oldKey |-> FALSE, controlled |-> FALSE]
OwnedPod == [Pod EXCEPT !.controlled = TRUE]

MCOtherLabels == 1 :> {} @@ 2 :> {"keep"}
MCMyLabels == {{}, {"keep"}}

Named(g, k, n) == [group |-> g, kind |-> k, name |-> n, labels |-> {}]
Labelled(l) == [group |-> "", kind |-> "", name |-> NoName, labels |-> l]
Web(n) == Named("apps", "Deployment", n)
Filter(i, e) == [include |-> i, exclude |-> e]
NoFilter == Filter(<<>>, <<>>)
MCFilters ==
    {NoFilter,
     Filter(<<Web(3)>>, <<>>), Filter(<<Web(3), Web(1)>>, <<>>),
     Filter(<<Labelled({"keep"})>>, <<>>), Filter(<<>>, <<Labelled({"keep"})>>),
     Filter(<<>>, <<Labelled({"keep", "team"})>>),
     Filter(<<>>, <<Web(3)>>), Filter(<<Web(1), Web(3)>>, <<Web(1)>>),
     Filter(<<Web(2), Web(3)>>, <<Labelled({"keep"}), Web(1)>>),
     Filter(<<>>, <<Named("", "Pod", 3)>>),
     Filter(<<>>, <<Named("batch", "Deployment", 3)>>)}

Document(replicas, notes) ==
    [p \in {"spec", "spec.replicas"} \cup DOMAIN notes |->
        CASE p = "spec" -> Object [] p = "spec.replicas" -> replicas
          [] OTHER -> notes[p]]
NoNotes == [p \in {} |-> 0]
Notes(a) == ("notes" :> Object) @@ a

Start(r, d, p) ==
    [resource |-> r, doc |-> d, labels |-> {}, others |-> {}, patches |-> p,
     filter |-> NoFilter, old |-> None]

MCSetups ==
    {Start(r, Document(1, n), p) :
        r \in {Deployment, Pod, OwnedPod}, p \in MCPatchLists \ {<<Invalid>>},
        n \in {NoNotes, Notes("notes.a" :> 1), Notes("notes.b" :> 1)}}
    \cup {[Start(r, Document(1, NoNotes), <<Annotate>>) EXCEPT
             !.filter = f, !.labels = l, !.others = o] :
             r \in {Deployment, Pod}, f \in MCFilters, l \in MCMyLabels,
             o \in SUBSET {1, 2}}
    \cup {[Start(Deployment, Document(0, NoNotes), <<>>) EXCEPT !.old = n] :
             n \in MCLeaves \ {0}}

=============================================================================
