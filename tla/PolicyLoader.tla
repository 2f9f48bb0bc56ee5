---------------------------- MODULE PolicyLoader ----------------------------
(***************************************************************************)
(* lib/policy-loader.js: the policies that the gateway offers to           *)
(* assemblies, found and loaded while the process starts.  A policy found  *)
(* is one step.  Versions are in the order of semver, and None is one that *)
(* semver does not understand.                                             *)
(***************************************************************************)
EXTENDS Naturals, Sequences, Selection

CONSTANTS
  Names,          \* names of policies
  MaxVersion,     \* bound: versions
  Installations,  \* the directories and settings considered
  None            \* an absent value

ASSUME VersionAssumption == MaxVersion \in Nat /\ None \notin 0..MaxVersion

Versions == 0..MaxVersion \cup {None}

\* A policy.yml: whether it parses and has the fields of a policy.
Files == [wellFormed: BOOLEAN, name: Names, version: Versions]

\* A directory of policies: those in it, and those in its child directories.
Locations == [own: Seq(Files), children: Seq(Files)]

\* What decides where createMGLoader looks; userPolicies of a project or a user
\* may be absent.
Settings == [builtin: Locations, userPolicies: Locations, policyDir: Seq(Locations),
             project: Seq(Locations) \cup {<<None>>}, user: Seq(Locations) \cup {<<None>>},
             override: BOOLEAN]

ASSUME InstallationsAssumption == Installations \subseteq Settings

VARIABLES
  descriptors,  \* the policies found, in order
  override,     \* whether a later copy of a version replaces an earlier one
  found,        \* how many of them have been dealt with
  versions,     \* policyVersions: the versions registered for each name
  policies,     \* _policies[name:version]: the place in descriptors, or 0
  default,      \* _policies[name]: likewise
  skipped,      \* history: those whose directory could not be read
  failed,       \* history: those whose module threw
  loading       \* "loading", "loaded", or "thrown" to whoever starts the gateway

policyVars == <<descriptors, override, found, versions, policies, default, skipped,
                failed, loading>>

FilesOf(location) == IF location.own # <<>> THEN location.own ELSE location.children

PolicyDescriptors(locations) ==
  Among(FlattenSeq([i \in DOMAIN locations |-> FilesOf(locations[i])]),
        {file \in Files : file.wellFormed})

\* The settings of the project, or else those of the user.
MGLocations(s) ==
  <<s.builtin, s.userPolicies>> \o s.policyDir \o
    (CASE s.project # <<None>> -> s.project
       [] s.user # <<None>>    -> s.user
       [] OTHER                -> <<>>)

PolicyTypeOK ==
  /\ descriptors \in Seq(Files) /\ override \in BOOLEAN
  /\ found \in 0..Len(descriptors)
  /\ versions \in [Names -> SUBSET Versions]
  /\ policies \in [Names \X Versions -> 0..found]
  /\ default \in [Names -> 0..found]
  /\ skipped \subseteq 1..found /\ failed \subseteq 1..found
  /\ loading \in {"loading", "loaded", "thrown"}

PolicyInit ==
  /\ \E s \in Installations :
       descriptors = PolicyDescriptors(MGLocations(s)) /\ override = s.override
  /\ found = 0
  /\ versions = [n \in Names |-> {}]
  /\ policies = [nv \in Names \X Versions |-> 0]
  /\ default = [n \in Names |-> 0]
  /\ skipped = {} /\ failed = {} /\ loading = "loading"

-----------------------------------------------------------------------------
Current == descriptors[found + 1]

Seen == versions[Current.name]

\* semver.lt and semver.eq throw, if there is anything to compare with.
Incomparable == Seen # {} /\ (Current.version = None \/ None \in Seen)

\* exactMatchFound
Discarded == Current.version \in Seen /\ ~override

\* Seeded fault, no part of Spec: the version found last is the default.
FaultyMakeDefault == TRUE

\* makePolicyDefault
MakeDefault == \A v \in Seen : v <= Current.version

\* Whichever way it ends, it is dealt with.
Turn == loading = "loading" /\ found < Len(descriptors) /\ found' = found + 1

Found == Turn /\ UNCHANGED <<descriptors, override>>

\* The directory cannot be read.
SkipUnreadable ==
  /\ Found /\ skipped' = skipped \cup {found + 1}
  /\ UNCHANGED <<versions, policies, default, failed, loading>>

ComparisonThrows ==
  /\ Found /\ Incomparable /\ loading' = "thrown"
  /\ UNCHANGED <<versions, policies, default, skipped, failed>>

DiscardDuplicate ==
  /\ Found /\ ~Incomparable /\ Discarded
  /\ UNCHANGED <<versions, policies, default, skipped, failed, loading>>

\* The version is registered before anything is loaded.
Register ==
  /\ Found /\ ~Incomparable /\ ~Discarded
  /\ versions' = [versions EXCEPT ![Current.name] = @ \cup {Current.version}]
  /\ UNCHANGED skipped

\* The directory has gone: statSync throws.
StatThrows ==
  /\ Register /\ loading' = "thrown"
  /\ UNCHANGED <<policies, default, failed>>

\* require, or the factory it returns, throws: logged and passed over.
LoadFails ==
  /\ Register /\ failed' = failed \cup {found + 1}
  /\ UNCHANGED <<policies, default, loading>>

\* Seeded fault, no part of Spec: what was found is the new count, and more.
FaultyLoad ==
  /\ Register
  /\ policies' = [policies EXCEPT ![<<Current.name, Current.version>>] = found + 2]
  /\ UNCHANGED <<default, failed, loading>>

Load ==
  /\ Register
  /\ policies' = [policies EXCEPT ![<<Current.name, Current.version>>] = found + 1]
  /\ default' = IF MakeDefault THEN [default EXCEPT ![Current.name] = found + 1] ELSE default
  /\ UNCHANGED <<failed, loading>>

Loaded ==
  /\ loading = "loading" /\ found = Len(descriptors) /\ loading' = "loaded"
  /\ UNCHANGED <<descriptors, override, found, versions, policies, default, skipped, failed>>

PolicyNext == SkipUnreadable \/ ComparisonThrows \/ DiscardDuplicate \/ StatThrows
              \/ LoadFails \/ Load \/ Loaded

-----------------------------------------------------------------------------
Of(n) == {i \in 1..found : descriptors[i].name = n}

VersionAt(i) == IF i = 0 THEN None ELSE descriptors[i].version

\* The default of a name is the highest of its versions, but for those below one
\* that failed to load: these have no say, even where there is no default.
HighestIsDefault ==
  \A n \in Names : \A v \in Versions :
    policies[<<n, v>>] # 0 =>
      \/ default[n] # 0 /\ (v = VersionAt(default[n]) \/ v < VersionAt(default[n]))
      \/ \E i \in Of(n) \cap failed : v < VersionAt(i)

\* Unless override is set, a version is the first of that version that could be
\* read, and no other location replaces it, not even one that failed to load.
FirstIsKept ==
  ~override => \A i \in 1..found :
    policies[<<descriptors[i].name, descriptors[i].version>>] = i =>
      \A j \in 1..(i - 1) \ skipped :
        \/ descriptors[j].name # descriptors[i].name
        \/ descriptors[j].version # descriptors[i].version

\* What assemblies find, by version and by name alone, is what was installed.
PoliciesAsInstalled == HighestIsDefault /\ FirstIsKept
=============================================================================
