-------------------------------- MODULE Tags --------------------------------
(***************************************************************************)
(* Tags, groups of equivalent items and the .tag files that declare both   *)
(* (tag_registry.cpp, unification.cpp, item_match.hpp).  The containers    *)
(* are hash maps: the order in which they are walked is any order.         *)
(* A group is known by its canonical item, which belongs to no other.      *)
(***************************************************************************)
EXTENDS Integers, Sequences, FiniteSets, SequencesExt, FiniteSetsExt, Functions

CONSTANTS TagNames, ItemNames,
          FamilyOf,     \* of the community tags ("c:"): the name before its last slash
          NamespaceOf,  \* of each item: what is before the colon, NoNamespace if there is none
          BaseOf,       \* of each item: what is after it
          IdOf,         \* of each item: its number in the interner
          TagFiles,     \* sequences of lines that may be loaded
          MaxTagCalls   \* bound: calls

ASSUME TagsAssumption == DOMAIN FamilyOf \subseteq TagNames /\ MaxTagCalls \in Nat

VARIABLES tagRegistry,  \* raw: members and includes by tag; table: resolved members; index: tags by member; resolved
          unification,  \* groups: [members, auto] by canonical; groupOf: canonical by item; separated
          answer,       \* what the last call returned
          tagCalls

NoNamespace == ""
NoItem == "no_item"

Get(f, x, default) == IF x \in DOMAIN f THEN f[x] ELSE default
NewTags == [raw |-> <<>>, table |-> <<>>, index |-> <<>>, resolved |-> FALSE]
NewUnification == [groups |-> <<>>, groupOf |-> <<>>, separated |-> {}]
NoRaw == [members |-> {}, includes |-> {}]

----------------------------------------------------------------------------
(* TagRegistry *)

WithMember(r, tag, item) ==
    [r EXCEPT !.raw = (tag :> [Get(r.raw, tag, NoRaw) EXCEPT !.members = @ \cup {item}]) @@ @, !.resolved = FALSE]
WithInclude(r, tag, included) ==
    [r EXCEPT !.raw = (tag :> [Get(r.raw, tag, NoRaw) EXCEPT !.includes = @ \cup {included}]) @@ @, !.resolved = FALSE]

\* resolveTag: depth first, what is being visited is a cycle and is skipped,
\* and so is every include that met one.
RECURSIVE ResolveTag(_, _, _, _)
ResolveTag(raw, st, tag, inner) ==
    IF tag \in st.done THEN [st EXCEPT !.ok = TRUE]
    ELSE IF tag \in st.visiting THEN [st EXCEPT !.ok = FALSE]
    ELSE IF tag \notin DOMAIN raw THEN [st EXCEPT !.table = (tag :> {}) @@ @, !.done = @ \cup {tag}, !.ok = TRUE]
    ELSE LET Include(acc, inc) ==
                 LET r == ResolveTag(raw, acc.st, inc, inner)
                 IN  IF r.ok THEN [acc EXCEPT !.st = [r EXCEPT !.table[tag] = @ \cup r.table[inc]]]
                     ELSE [st |-> r, ok |-> FALSE]
             begun == [st EXCEPT !.visiting = @ \cup {tag}, !.table = (tag :> raw[tag].members) @@ @]
             end == FoldLeft(Include, [st |-> begun, ok |-> TRUE], inner[tag])
         IN  [end.st EXCEPT !.visiting = @ \ {tag}, !.done = @ \cup {tag}, !.ok = end.ok]

\* Mutant: one level of includes is resolved.
Rebuilt_OneLevel(r, outer, inner) ==
    LET table == [t \in DOMAIN r.raw |-> r.raw[t].members \cup UNION {Get(r.raw, i, NoRaw).members : i \in r.raw[t].includes}]
    IN  [registry |-> [r EXCEPT !.table = table, !.resolved = TRUE,
                                !.index = [i \in UNION Range(table) |-> {t \in DOMAIN table : i \in table[t]}]],
         noCycles |-> TRUE]

\* rebuild, and whether it met no cycle: the tags are walked as outer says, and
\* the includes of each as inner says.
Rebuilt(r, outer, inner) ==
    LET Visit(acc, tag) == IF tag \in acc.st.done THEN acc
                           ELSE LET n == ResolveTag(r.raw, acc.st, tag, inner) IN [st |-> n, ok |-> acc.ok /\ n.ok]
        end == FoldLeft(Visit, [st |-> [visiting |-> {}, done |-> {}, table |-> <<>>, ok |-> TRUE], ok |-> TRUE],
                        outer)
        table == end.st.table
    IN  [registry |-> [r EXCEPT !.table = table, !.resolved = TRUE,
                                !.index = [i \in UNION Range(table) |-> {t \in DOMAIN table : i \in table[t]}]],
         noCycles |-> end.ok]

HasTag(r, item, tag) == tag \in Get(r.index, item, {})
TagsFor(r, item) == Get(r.index, item, {})
MembersOf(r, tag) == Get(r.table, tag, {})

----------------------------------------------------------------------------
(* UnificationRegistry *)

\* declareGroup: refused if its canonical is in a group; members of other
\* groups stay on the list and in their groups.
DeclaredGroup(u, canonical, members, auto) ==
    LET all == members \cup {canonical}
    IN  IF canonical \in DOMAIN u.groupOf THEN u
        ELSE [u EXCEPT !.groups = (canonical :> [members |-> all, auto |-> auto]) @@ @,
                       !.groupOf = u.groupOf @@ [m \in all |-> canonical]]
DeclaredSeparate(u, items) == [u EXCEPT !.separated = @ \cup items]

\* selectCanonical: the namespace first, then the number of tags, then age.
Better(r, a, b) ==
    LET Priority(i) == CASE NamespaceOf[i] = NoNamespace -> 2 [] NamespaceOf[i] = "finevox" -> 1 [] OTHER -> 0
        Count(i) == Cardinality(TagsFor(r, i))
    IN  IF Priority(a) # Priority(b) THEN Priority(a) > Priority(b)
        ELSE IF Count(a) # Count(b) THEN Count(a) > Count(b) ELSE IdOf[a] < IdOf[b]
SelectCanonical(r, items) == CHOOSE i \in items : \A j \in items \ {i} : Better(r, i, j)

Namespaces(items) == {NamespaceOf[i] : i \in items}
Inferred(u, r, items) == DeclaredGroup(u, SelectCanonical(r, items), items, TRUE)

\* The conflict check of names: the families of an item are among all families,
\* so that none of them is ever without overlap.
Conflicting(r, items) ==
    LET Families(i) == {FamilyOf[t] : t \in TagsFor(r, i) \cap DOMAIN FamilyOf}
        known == {i \in items : Families(i) # {}}
        all == UNION {Families(i) : i \in known}
    IN  Cardinality(known) >= 2 /\ \E i \in known : all \ Families(i) # {} /\ Families(i) \cap all = {}

\* What autoResolve leaves out.
Grouped(u, r, item) == item \in DOMAIN u.groupOf \/ item \in u.separated

\* autoResolve: first the members of each community tag that share a base
\* name, unless one of them has a group; then any tagged items that do.
AutoResolved(u, r, order) ==
    LET SameBase(items, base) == {i \in items : BaseOf[i] = base}
        Unite(acc, items) == IF Cardinality(items) <= 1 \/ \E i \in items : i \in DOMAIN acc.groupOf THEN acc
                             ELSE Inferred(acc, r, items)
        Shared(acc, tag) ==
            LET members == MembersOf(r, tag)
            IN  IF Cardinality(Namespaces(members)) <= 1 THEN acc
                ELSE FoldSet(LAMBDA base, a : Unite(a, SameBase(members, base) \ a.separated), acc, {BaseOf[i] : i \in members})
        first == FoldLeft(Shared, u, SelectSeq(order, LAMBDA t : t \in DOMAIN r.raw /\ t \in DOMAIN FamilyOf))
        left == {i \in UNION {MembersOf(r, t) : t \in DOMAIN r.raw} : ~Grouped(first, r, i)}
        ByName(base, acc) == LET items == SameBase(left, base)
                             IN  IF Cardinality(Namespaces(items)) <= 1 \/ Conflicting(r, items) THEN acc
                                 ELSE Unite(acc, items)
    IN  FoldSet(ByName, first, {BaseOf[i] : i \in left})

\* propagateTags: every member gets the tags of all members, as the index has them.
Propagated(r, u) ==
    LET missing == {<<c, m>> \in (DOMAIN u.groups) \X ItemNames : m \in u.groups[c].members}
        AllTags(c) == UNION {TagsFor(r, m) : m \in u.groups[c].members}
    IN  FoldSet(LAMBDA cm, acc : FoldSet(LAMBDA t, a : WithMember(a, t, cm[2]), acc, AllTags(cm[1]) \ TagsFor(r, cm[2])),
                r, missing)

\* resolve, areEquivalent, getCanonical.
Resolve(u, item) ==
    IF item \in DOMAIN u.groupOf /\ u.groups[u.groupOf[item]].auto THEN u.groupOf[item] ELSE item
AreEquivalent(u, a, b) == a = b \/ (a \in DOMAIN u.groupOf /\ b \in DOMAIN u.groupOf /\ u.groupOf[a] = u.groupOf[b])

\* ItemMatch::matches, for an item or for a tag.
MatchesExact(u, item, candidate) == Resolve(u, candidate) = Resolve(u, item)
MatchesTagged(r, tag, candidate) == HasTag(r, candidate, tag)

----------------------------------------------------------------------------
(* .tag files *)

\* In a tag block a line that is neither an include nor the end is a member,
\* also the first line of a next block.
Line == "text of a line"
TagLine(st, line) ==
    CASE line.op = "end" -> [st EXCEPT !.block = "none"]
      [] line.op = "include" -> [st EXCEPT !.tags = WithInclude(@, st.tag, line.name)]
      [] OTHER -> [st EXCEPT !.tags = WithMember(@, st.tag, IF line.op = "member" THEN line.item ELSE Line)]

\* The end of a unify block declares the group, its first member is canonical by default.
EndUnify(st) ==
    LET canonical == IF st.canonical # NoItem THEN st.canonical ELSE st.members[1]
    IN  IF st.members = <<>> THEN st.unify ELSE DeclaredGroup(st.unify, canonical, Range(st.members), st.auto)
UnifyLine(st, line) ==
    CASE line.op = "end" -> [st EXCEPT !.block = "none", !.unify = EndUnify(st)]
      [] line.op = "canonical" -> [st EXCEPT !.canonical = line.item]
      [] line.op = "members" -> [st EXCEPT !.members = @ \o line.items]
      [] line.op = "auto_convert" -> [st EXCEPT !.auto = line.value]
      [] OTHER -> [st EXCEPT !.directives = -1]
OuterLine(st, line) ==
    CASE line.op = "tag" -> [st EXCEPT !.block = "tag", !.tag = line.name, !.directives = @ + 1]
      [] line.op = "unify" -> [st EXCEPT !.block = "unify", !.canonical = NoItem, !.members = <<>>, !.auto = TRUE,
                                         !.directives = @ + 1]
      [] line.op = "separate" /\ line.items # {} -> [st EXCEPT !.unify = DeclaredSeparate(@, line.items), !.directives = @ + 1]
      [] OTHER -> [st EXCEPT !.directives = -1]

\* loadTagFileFromString: an error ends it, what came before stays declared.
Loaded(r, u, file) ==
    LET Step(st, line) == IF st.directives = -1 THEN st
                          ELSE CASE st.block = "none" -> OuterLine(st, line)
                                 [] st.block = "tag" -> TagLine(st, line)
                                 [] OTHER -> UnifyLine(st, line)
        end == FoldLeft(Step, [block |-> "none", tag |-> NoItem, canonical |-> NoItem, members |-> <<>>, auto |-> TRUE,
                               directives |-> 0, tags |-> r, unify |-> u], file)
    IN  IF end.block # "none" THEN [end EXCEPT !.directives = -1] ELSE end

----------------------------------------------------------------------------
(* Calls *)

tagVars == <<tagRegistry, unification, answer, tagCalls>>
TagsInit == tagRegistry = NewTags /\ unification = NewUnification /\ answer = "none" /\ tagCalls = 0
TagCall == tagCalls < MaxTagCalls /\ tagCalls' = tagCalls + 1
WalkOrders == SetToSeqs(TagNames)
IncludeOrders(raw) ==
    {inner \in [DOMAIN raw -> UNION {SetToSeqs(raw[t].includes) : t \in DOMAIN raw}] :
        \A t \in DOMAIN raw : Range(inner[t]) = raw[t].includes}

LoadTagFile ==
    \E file \in TagFiles :
        LET end == Loaded(tagRegistry, unification, file)
        IN  TagCall /\ tagRegistry' = end.tags /\ unification' = end.unify /\ answer' = "loaded"
AddMember ==
    \E tag \in TagNames, item \in ItemNames \ {Line} :
        TagCall /\ tagRegistry' = WithMember(tagRegistry, tag, item) /\ answer' = "none" /\ UNCHANGED unification
AddInclude ==
    \E tag, included \in TagNames :
        TagCall /\ tagRegistry' = WithInclude(tagRegistry, tag, included) /\ answer' = "none" /\ UNCHANGED unification
Rebuild ==
    \E outer \in SetToSeqs(DOMAIN tagRegistry.raw), inner \in IncludeOrders(tagRegistry.raw) :
        LET done == Rebuilt(tagRegistry, outer, inner)
        IN  /\ TagCall /\ tagRegistry' = done.registry
            /\ answer' = IF done.noCycles THEN "no_cycles" ELSE "cycles"
            /\ UNCHANGED unification
AutoResolve ==
    \E order \in WalkOrders :
        TagCall /\ unification' = AutoResolved(unification, tagRegistry, order) /\ answer' = "auto" /\ UNCHANGED tagRegistry
PropagateTags ==
    TagCall /\ tagRegistry' = Propagated(tagRegistry, unification) /\ answer' = "none" /\ UNCHANGED unification

TagsNext == LoadTagFile \/ AddMember \/ AddInclude \/ Rebuild \/ AutoResolve \/ PropagateTags

----------------------------------------------------------------------------
(* Properties *)

\* The tags reachable from a tag by includes, itself too.
Reach(tag) ==
    LET raw == tagRegistry.raw
        grown[n \in 0..Cardinality(TagNames)] ==
            IF n = 0 THEN {tag} ELSE LET s == grown[n - 1] IN s \cup UNION {Get(raw, t, NoRaw).includes : t \in s}
    IN  grown[Cardinality(TagNames)]
Cyclic == \E t \in DOMAIN tagRegistry.raw : \E i \in tagRegistry.raw[t].includes : t \in Reach(i)

\* A rebuilt registry has every member a tag reaches, whatever the order the
\* tags were walked in, and says so of each member; a cycle loses members only
\* of tags that reach it, never direct ones, and is always reported.
TablesAreClosed ==
    LET r == tagRegistry
        Members(t) == UNION {Get(r.raw, i, NoRaw).members : i \in Reach(t)}
        NearCycle(t) == \E i \in Reach(t) : \E j \in Get(r.raw, i, NoRaw).includes : i \in Reach(j)
    IN  r.resolved =>
          /\ \A t \in DOMAIN r.raw :
                /\ r.raw[t].members \subseteq MembersOf(r, t) /\ MembersOf(r, t) \subseteq Members(t)
                /\ ~NearCycle(t) => MembersOf(r, t) = Members(t)
                /\ \A i \in ItemNames : HasTag(r, i, t) = (i \in MembersOf(r, t))
          /\ answer \in {"cycles", "no_cycles"} => (answer = "cycles") = Cyclic

\* Once the tags are propagated and rebuilt, items that match each other have
\* the same tags, also those that come by includes, if no item is on two groups' lists.
EquivalentItemsShareTags ==
    LET u == unification
        disjoint == \A c \in DOMAIN u.groups : \A m \in u.groups[c].members : u.groupOf[m] = c
        p == Propagated(tagRegistry, u)
        r == Rebuilt(p, CHOOSE o \in SetToSeqs(DOMAIN p.raw) : TRUE, CHOOSE o \in IncludeOrders(p.raw) : TRUE).registry
    IN  /\ \A i \in ItemNames : Resolve(u, Resolve(u, i)) = Resolve(u, i)
        /\ tagRegistry.resolved /\ ~Cyclic /\ disjoint =>
              \A a, b \in ItemNames : MatchesExact(u, a, b) =>
                  AreEquivalent(u, a, b) /\ \A t \in TagNames : MatchesTagged(r, t, a) = MatchesTagged(r, t, b)

\* The resolved tables agree with the files, and unified items with each
\* other, whatever was loaded, added, rebuilt and unified in which order.
TagsAreConsistent ==
    /\ TablesAreClosed
    /\ EquivalentItemsShareTags
=============================================================================
