------------------------------ MODULE SourceToApi ------------------------------
(* From the methods of a changed source file to the tests, by names alone: the registry
   of the SDK (indexing/sdk_indexer.py), the APIs that a method stands for
   (source_to_api.py), and the projects that use an API (usage_extractor.py,
   inverted_index.py).

   A declaration is a record of a parent and a member of it, "" for the parent itself;
   its id is its two names.  A file is a record of path, role, family and methods; a
   method has a prefix ("Set") and the name after it.  What is found is a sequence of at
   most one element.                                                              *)
EXTENDS SequencesExt, FiniteSetsExt

CONSTANTS
  Registries,    \* the SDKs: sequences of declarations, in the order they are parsed
  SdkAlias,      \* a name of a type -> the names it stands for
  Folded,        \* a parent -> its name in lower case
  ParentNames,   \* a family -> its Attribute, its Interface and its component
  MemberAlias,   \* sdk_member_aliases.json: a name -> that of the member,
  ParentOf,      \* and <<family, member>> -> the parent declaring it
  WithoutImpl,   \* names that end in "Impl" -> the name before it
  WithoutFamily, \* <<family, name>> -> the name without its family in front
  Extends,       \* the pairs of a name and a longer one that it begins,
  Ends,          \* that it ends,
  Within,        \* and that it is in
  EngineIndexes, \* sequences of files
  TestUses,      \* sets of the uses in tests: a project, a kind and a name
  ChangedPaths   \* the paths that may be asked for

ASSUME TextAssumption == Extends \cup Ends \subseteq Within

VARIABLES registry, engineFiles, testUses, changedPath,
  mapped,      \* the mappings of the changed file
  consumers,   \* the projects found for each
  lookupStep   \* "file", "mapped" or "found"

lookupVars == <<registry, engineFiles, testUses, changedPath, mapped, consumers, lookupStep>>

-------------------------------------------------------------------------------
(* The registry of the SDK. *)

CommonParents ==
  <<"CommonMethod", "CommonAttribute", "CommonShapeMethod", "CommonTransition",
    "ContainerCommonMethod">>

OfParent(parent) == SelectSeq(registry, LAMBDA d : d.parent = parent)
OfMember(member) == SelectSeq(registry, LAMBDA d : d.member = member)
FirstOf(list) == IF list = <<>> THEN <<>> ELSE <<list[1]>>

(* Variant: of several the first is taken. *)
OnlyFirst(list) == FirstOf(list)
Only(list) == IF Len(list) = 1 THEN list ELSE <<>>

FirstFound(results) ==
  LET found == SelectSeq(results, LAMBDA r : r # <<>>)
  IN IF found = <<>> THEN <<>> ELSE found[1]

\* find_member: in that parent, in one that differs in case, or wherever it is alone.
FindMember(member, parent) ==
  LET exact == SelectSeq(OfMember(member), LAMBDA d : d.parent = parent)
      folded == SelectSeq(OfMember(member), LAMBDA d : Folded[d.parent] = Folded[parent])
  IN CASE exact # <<>> -> FirstOf(exact)
       [] exact = <<>> /\ folded # <<>> -> Only(folded)
       [] OTHER -> Only(OfMember(member))

FindIn(member, parents) == FirstFound([k \in DOMAIN parents |-> FindMember(member, parents[k])])

\* find: a parent, a member that is alone, or what an alias stands for.
Find(name) ==
  CASE OfParent(name) # <<>> -> FirstOf(OfParent(name))
    [] OfParent(name) = <<>> /\ OfMember(name) # <<>> -> Only(OfMember(name))
    [] OTHER -> IF name \notin DOMAIN SdkAlias THEN <<>>
                ELSE LET Target(k) == FirstOf(OfParent(SdkAlias[name][k]))
                     IN FirstFound([k \in DOMAIN SdkAlias[name] |-> Target(k)])

-------------------------------------------------------------------------------
(* The APIs of a method. *)

At(f, x) == IF x \in DOMAIN f THEN <<f[x]>> ELSE <<>>

\* The member that a name stands for, and what else is tried.
MemberOf(name) == IF name \in DOMAIN MemberAlias THEN MemberAlias[name] ELSE name
OtherReadings(name, family) == At(WithoutImpl, name) \o At(WithoutFamily, <<family, name>>)

(* Variant: common members are looked for first. *)
CommonFirst(name, family) ==
  FirstFound(<<FindIn(name, CommonParents), FindIn(name, ParentNames[family]), Find(name)>>)
FindReading(name, family) ==
  FirstFound(<<FindIn(name, ParentNames[family]), FindIn(name, CommonParents), Find(name)>>)

\* _resolve_canonical_id
CanonicalId(name, family) ==
  LET member == MemberOf(name)
      given == At(ParentOf, <<family, member>>)
      others == OtherReadings(name, family)
  IN FirstFound(
       <<FindIn(member, given), FindReading(member, family)>>
       \o [k \in DOMAIN others |-> FindReading(others[k], family)])

\* The prefixes that a role has, and how much they say.
RoleConfidence ==
  LET sets == [Set |-> "strong"] IN
  [model_static |-> sets, model_ng |-> sets, model_other |-> sets,
   native_modifier |-> [Set |-> "strong", Reset |-> "medium"],
   native_node_accessor |-> [Get |-> "strong", Set |-> "medium"],
   jsview_dynamic |-> [Create |-> "strong", Js |-> "strong", Set |-> "medium", Get |-> "medium",
                       JS |-> "medium"]]

Mapping(name, confidence, id, parent, confirmed) ==
  [name |-> name, confidence |-> confidence, id |-> id, parent |-> parent,
   confirmed |-> confirmed, common |-> parent \in Range(CommonParents)]

\* A method of a pattern counts if the SDK has its whole name; no name of the SDK has one
\* of the prefixes.  Only a definition says what its prefix says.
MapMethod(file, method) ==
  LET name == method.name
      id == IF method.internal THEN <<>> ELSE CanonicalId(name, file.family)
      says == RoleConfidence[file.role][method.prefix]
      parent == CASE method.internal -> ""
                  [] id # <<>> /\ id[1].member # "" -> id[1].parent
                  [] OTHER -> (At(ParentOf, <<file.family, MemberOf(name)>>)
                               \o ParentNames[file.family])[1]
  IN IF file.role = "pattern"
       THEN IF method.prefix = "" /\ Find(name) # <<>>
              THEN <<Mapping(name, "medium", <<>>, "", TRUE)>> ELSE <<>>
     ELSE IF file.role \in DOMAIN RoleConfidence /\ method.prefix \in DOMAIN RoleConfidence[file.role]
       THEN <<Mapping(name, IF method.declared /\ says = "strong" THEN "medium" ELSE says, id,
                      parent, id # <<>>)>>
     ELSE <<>>

MappingsOf(file) == FlattenSeq([k \in DOMAIN file.methods |-> MapMethod(file, file.methods[k])])

\* _find_mappings_for_file: those of the path, else of the first file with that name, of
\* the files that have any.
FileMappings(path) ==
  LET mapping == SelectSeq(engineFiles, LAMBDA f : MappingsOf(f) # <<>>)
      exact == SelectSeq(mapping, LAMBDA f : f.path = path)
      named == SelectSeq(mapping, LAMBDA f : f.path[2] = path[2])
      first == FirstOf(exact \o named)
  IN IF first = <<>> THEN <<>> ELSE MappingsOf(first[1])

-------------------------------------------------------------------------------
(* The projects that use an API. *)

\* The key a use is filed under: an id, or the bare name.
Key(name) ==
  LET found == Find(name) IN IF found = <<>> THEN [parent |-> "", member |-> name] ELSE found[1]

\* extract_api_usages: imports are left out.
Filed == {u \in testUses : u.kind # "import"}
FiledUnder(Is(_)) == {u.project : u \in {v \in Filed : Is(Key(v.name))}}

\* The texts of the keys are compared: a longer member or parent contains a shorter one,
\* and a bare name is no member.
ConsumersOfId(id) == FiledUnder(LAMBDA key : key = id)
ConsumersOfMember(name, parent) ==
  FiledUnder(LAMBDA key : /\ key.parent # "" /\ key.member # ""
                          /\ IF parent = "" THEN key.member = name
                             ELSE /\ key.member = name \/ <<name, key.member>> \in Extends
                                  /\ key.parent = parent \/ <<parent, key.parent>> \in Ends)
ConsumersOfName(name) ==
  FiledUnder(LAMBDA key : name \in {key.parent, key.member}
                          \/ \E word \in {key.parent, key.member} : <<name, word>> \in Within)

(* Variant: names are not looked for. *)
ConsumersByMember(m) ==
  LET byId == IF m.id = <<>> THEN {} ELSE ConsumersOfId(m.id[1])
  IN IF byId # {} THEN byId ELSE ConsumersOfMember(m.name, m.parent)
ConsumersOfMapping(m) ==
  LET byId == IF m.id = <<>> THEN {} ELSE ConsumersOfId(m.id[1])
      byMember == ConsumersOfMember(m.name, m.parent)
  IN IF byId # {} THEN byId ELSE IF byMember # {} THEN byMember ELSE ConsumersOfName(m.name)

-------------------------------------------------------------------------------
LookupInit ==
  /\ registry \in Registries /\ engineFiles \in EngineIndexes /\ testUses \in TestUses
  /\ changedPath \in ChangedPaths
  /\ mapped = <<>> /\ consumers = <<>> /\ lookupStep = "file"

FindMappings ==
  /\ lookupStep = "file" /\ lookupStep' = "mapped"
  /\ mapped' = FileMappings(changedPath)
  /\ UNCHANGED <<registry, engineFiles, testUses, changedPath, consumers>>

FindConsumers ==
  /\ lookupStep = "mapped" /\ lookupStep' = "found"
  /\ consumers' = [k \in DOMAIN mapped |-> ConsumersOfMapping(mapped[k])]
  /\ UNCHANGED <<registry, engineFiles, testUses, changedPath, mapped>>

LookupNext == FindMappings \/ FindConsumers

-------------------------------------------------------------------------------
\* The id of an API is one that the SDK declares under a name that the method can stand for.
\* What the own component declares under the name itself comes before all else that is not
\* given in the table of aliases, and the API of a foreign one is taken only if no other
\* declaration has that name.
ApisAreOfTheSdk ==
  lookupStep = "mapped" => \A f \in Range(engineFiles) : \A m \in Range(MappingsOf(f)) :
    m.id # <<>> =>
      LET id == m.id[1]
          member == MemberOf(m.name)
          given == At(ParentOf, <<f.family, member>>)
          readings == {member} \cup Range(OtherReadings(m.name, f.family))
          known == Range(ParentNames[f.family]) \cup Range(CommonParents) \cup Range(given)
          own == [parent |-> ParentNames[f.family][1], member |-> member]
          alias == {r \in readings : r \in DOMAIN SdkAlias /\ id.parent \in Range(SdkAlias[r])}
      IN /\ id \in Range(registry) /\ m.confirmed
         /\ id.member \in readings \/ id.parent \in readings \/ alias # {}
         /\ own \in Range(registry) => id = own \/ given # <<>>
         /\ id.member \in readings /\ Folded[id.parent] \notin {Folded[p] : p \in known}
              => Len(OfMember(id.member)) = 1

\* A project that uses an API by the name of the method is found, or the projects that are
\* found use others: the exact id under another name, or a longer name that hides this one.
\* Only a name without an id that is an alias is not looked for as what it stands for.
NoUseIsLost ==
  lookupStep = "found" =>
    \A k \in DOMAIN mapped, u \in Filed :
      (u.name = mapped[k].name /\ u.project \notin consumers[k]
       /\ (mapped[k].id # <<>> \/ u.name \notin DOMAIN SdkAlias)) =>
        /\ consumers[k] # {}
        /\ \A p \in consumers[k] : \E v \in Filed : v.project = p /\ v.name # u.name

LookupsAreSound == ApisAreOfTheSdk /\ NoUseIsLost
===============================================================================
