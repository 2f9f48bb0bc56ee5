--------------------------- MODULE Startup_proofs ---------------------------
(***************************************************************************)
(* The safety properties of a process that starts: for any policies        *)
(* installed, pages of the remote servers and requests for authorization.  *)
(***************************************************************************)
EXTENDS Startup, SequenceLemmas

-----------------------------------------------------------------------------
(* Policies. *)

\* Registered versions are comparable, all that is found is registered, and what is
\* registered has been loaded or failed, as long as nothing has been thrown.
LoaderInv ==
  /\ \A n \in Names : None \in versions[n] => versions[n] = {None}
  /\ \A n \in Names : \A v \in Versions : policies[<<n, v>>] # 0 => v \in versions[n]
  /\ \A n \in Names : default[n] # 0 => VersionAt(default[n]) \in versions[n]
  /\ \A n \in Names : \A i \in Of(n) \cap failed : VersionAt(i) \in versions[n]
  /\ loading # "thrown" =>
       /\ \A i \in (1..found) \ skipped :
            descriptors[i].version \in versions[descriptors[i].name]
       /\ \A n \in Names : \A v \in versions[n] :
            policies[<<n, v>>] # 0 \/ \E i \in Of(n) \cap failed : v = VersionAt(i)
  /\ HighestIsDefault
  /\ FirstIsKept

LEMMA CurrentIsFile ==
  ASSUME PolicyTypeOK, Turn
  PROVE  /\ Current \in Files /\ Current.name \in Names /\ Current.version \in Versions
         /\ found \in Nat /\ found + 1 \in 1..Len(descriptors)
         /\ \A i \in 1..found : /\ descriptors[i] \in Files
                                /\ descriptors[i].name \in Names
                                /\ descriptors[i].version \in Versions
  <1>1. /\ descriptors \in Seq(Files) /\ Len(descriptors) \in Nat
        /\ found \in Nat /\ found <= Len(descriptors)
    BY DEF PolicyTypeOK
  <1>2. found + 1 \in 1..Len(descriptors)
    BY <1>1 DEF Turn
  <1>3. \A i \in 1..Len(descriptors) : descriptors[i] \in Files
    BY <1>1
  <1>4. Current \in Files
    BY <1>2, <1>3 DEF Current
  <1>5. \A i \in 1..found : descriptors[i] \in Files
    BY <1>1, <1>3
  <1> QED
    BY <1>1, <1>2, <1>4, <1>5 DEF Files

\* The search of a setting finds policy files.
LEMMA SettingSearched ==
  ASSUME NEW s \in Settings
  PROVE  PolicyDescriptors(MGLocations(s)) \in Seq(Files)
  <1> DEFINE locations == MGLocations(s)
             files == [i \in DOMAIN locations |-> FilesOf(locations[i])]
             S == {file \in Files : file.wellFormed}
  <1>1. locations \in Seq(Locations)
    <2> DEFINE more == CASE s.project # <<None>> -> s.project
                         [] s.user # <<None>>    -> s.user
                         [] OTHER                -> <<>>
    <2>1. /\ s.builtin \in Locations /\ s.userPolicies \in Locations
          /\ s.policyDir \in Seq(Locations)
          /\ s.project \in Seq(Locations) \/ s.project = <<None>>
          /\ s.user \in Seq(Locations) \/ s.user = <<None>>
      BY DEF Settings
    <2>2. more \in Seq(Locations)
      BY <2>1
    <2>3. <<s.builtin, s.userPolicies>> \in Seq(Locations)
      BY <2>1
    <2>4. locations = <<s.builtin, s.userPolicies>> \o s.policyDir \o more
      BY DEF MGLocations
    <2> HIDE DEF more, locations
    <2> QED
      BY <2>1, <2>2, <2>3, <2>4
  <1> HIDE DEF locations
  <1>2. \A l \in Locations : FilesOf(l) \in Seq(Files)
    BY DEF Locations, FilesOf
  <1>3. files \in Seq(Seq(Files))
    <2>1. /\ DOMAIN locations = 1..Len(locations) /\ Len(locations) \in Nat
          /\ \A i \in 1..Len(locations) : locations[i] \in Locations
      BY <1>1
    <2>2. files \in [1..Len(locations) -> Seq(Files)]
      BY <1>2, <2>1
    <2> HIDE DEF files
    <2> QED
      BY <2>1, <2>2
  <1>4. PolicyDescriptors(locations) = Among(FlattenSeq(files), S)
    BY DEF PolicyDescriptors
  <1> HIDE DEF files, S
  <1>5. FlattenSeq(files) \in Seq(Files)
    BY <1>3, Flattened
  <1>6. Among(FlattenSeq(files), S) \in Seq(Files \cap S)
    BY <1>5, AmongElements
  <1>7. \A q \in Seq(Files \cap S) : q \in Seq(Files)
    OBVIOUS
  <1> QED
    BY <1>4, <1>6, <1>7 DEF locations

LEMMA InitPolicyTypes == PolicyInit => PolicyTypeOK
  <1> SUFFICES ASSUME PolicyInit PROVE PolicyTypeOK
    OBVIOUS
  <1>1. descriptors \in Seq(Files) /\ override \in BOOLEAN
    BY InstallationsAssumption, SettingSearched DEF PolicyInit, Settings
  <1> QED
    BY <1>1 DEF PolicyInit, PolicyTypeOK

LEMMA PolicyTypesPreserved ==
  ASSUME PolicyTypeOK, PolicyNext
  PROVE  PolicyTypeOK'
  <1>1. CASE Loaded
    BY <1>1 DEF Loaded, PolicyTypeOK
  <1>2. CASE Turn
    <2>1. /\ Current.name \in Names /\ Current.version \in Versions
          /\ found + 1 \in 1..Len(descriptors) /\ found \in Nat
      BY <1>2, CurrentIsFile
    <2>2. found' = found + 1 /\ UNCHANGED <<descriptors, override>>
      BY <1>2 DEF PolicyNext, Turn, Found, SkipUnreadable, ComparisonThrows,
         DiscardDuplicate, StatThrows, LoadFails, Load, Register, Loaded
    <2>3. 0..found \subseteq 0..(found + 1) /\ 1..found \subseteq 1..(found + 1)
      BY <2>1
    <2>4. versions' \in [Names -> SUBSET Versions]
      BY <1>2, <2>1 DEF PolicyTypeOK, PolicyNext, Turn, SkipUnreadable, ComparisonThrows,
         DiscardDuplicate, StatThrows, LoadFails, Load, Register, Loaded
    <2>5. policies' = policies \/ policies' =
            [policies EXCEPT ![<<Current.name, Current.version>>] = found + 1]
      BY <1>2 DEF PolicyNext, Turn, SkipUnreadable, ComparisonThrows, DiscardDuplicate,
         StatThrows, LoadFails, Load, Loaded
    <2>6. default' = default \/ default' = [default EXCEPT ![Current.name] = found + 1]
      BY <1>2 DEF PolicyNext, Turn, SkipUnreadable, ComparisonThrows, DiscardDuplicate,
         StatThrows, LoadFails, Load, Loaded
    <2>7. /\ policies' \in [Names \X Versions -> 0..(found + 1)]
          /\ default' \in [Names -> 0..(found + 1)]
      <3>1. /\ policies \in [Names \X Versions -> 0..(found + 1)]
            /\ default \in [Names -> 0..(found + 1)]
            /\ found + 1 \in 0..(found + 1)
        BY <2>1, <2>3 DEF PolicyTypeOK
      <3> QED
        BY <2>5, <2>6, <3>1
    <2>8. skipped' \subseteq 1..(found + 1) /\ failed' \subseteq 1..(found + 1)
      <3>1. /\ skipped' \subseteq skipped \cup {found + 1}
            /\ failed' \subseteq failed \cup {found + 1}
        BY <1>2 DEF PolicyNext, Turn, SkipUnreadable, ComparisonThrows,
           DiscardDuplicate, StatThrows, LoadFails, Load, Register, Loaded
      <3>2. found + 1 \in 1..(found + 1)
        BY <2>1
      <3> QED
        BY <2>3, <3>1, <3>2 DEF PolicyTypeOK
    <2>9. loading' \in {"loading", "loaded", "thrown"}
      BY <1>2 DEF PolicyTypeOK, PolicyNext, Turn, SkipUnreadable,
         ComparisonThrows, DiscardDuplicate, StatThrows, LoadFails, Load, Loaded
    <2> QED
      BY <2>1, <2>2, <2>4, <2>7, <2>8, <2>9 DEF PolicyTypeOK
  <1> QED
    BY <1>1, <1>2 DEF PolicyNext, SkipUnreadable, ComparisonThrows,
       DiscardDuplicate, StatThrows, LoadFails, Load, Register, Found

LEMMA InitLoaderInv ==
  ASSUME PolicyInit
  PROVE  LoaderInv
  <1>1. /\ found = 0 /\ failed = {} /\ 1..0 = {}
        /\ \A n \in Names : versions[n] = {} /\ default[n] = 0
        /\ \A n \in Names : \A v \in Versions : policies[<<n, v>>] = 0
    BY DEF PolicyInit
  <1> QED
    BY <1>1 DEF LoaderInv, HighestIsDefault, FirstIsKept

\* The places that have been dealt with keep their descriptors.
LEMMA OldPlaces ==
  ASSUME PolicyTypeOK, Found
  PROVE  /\ found' = found + 1 /\ descriptors' = descriptors /\ override' = override
         /\ \A i \in 0..found : VersionAt(i)' = VersionAt(i)
         /\ \A n : Of(n) \subseteq Of(n)'
         /\ \A n, i : n = Current.name /\ i = found + 1 =>
              i \in Of(n)' /\ VersionAt(i)' = Current.version
         /\ \A i \in (1..(found + 1)) \ {found + 1} : i \in 1..found
         /\ \A n : Of(n) \subseteq 1..found
  <1>1. found' = found + 1 /\ descriptors' = descriptors /\ override' = override
    BY DEF Found, Turn
  <1>2. found \in Nat /\ found + 1 \in Nat
    BY CurrentIsFile DEF Found
  <1>3. /\ 1..found \subseteq 1..(found + 1) /\ found + 1 \in 1..(found + 1)
        /\ found + 1 # 0
        /\ \A i \in (1..(found + 1)) \ {found + 1} : i \in 1..found
    BY <1>2
  <1>4. \A n : Of(n) \subseteq Of(n)' /\ Of(n) \subseteq 1..found
    BY <1>1, <1>3 DEF Of
  <1>5. \A i \in 0..found : VersionAt(i)' = VersionAt(i)
    BY <1>1 DEF VersionAt
  <1>6. \A n, i : n = Current.name /\ i = found + 1 =>
          i \in Of(n)' /\ VersionAt(i)' = Current.version
    BY <1>1, <1>3 DEF Of, VersionAt, Current
  <1> QED
    BY <1>1, <1>3, <1>4, <1>5, <1>6

\* A version that is not the default, and is passed by, is below one that has a say.
LEMMA PassedBy ==
  ASSUME PolicyTypeOK, LoaderInv, Load, ~MakeDefault
  PROVE  \/ default[Current.name] # 0 /\ Current.version < VersionAt(default[Current.name])
         \/ \E i \in Of(Current.name) \cap failed : Current.version < VersionAt(i)
  <1>1. Current.name \in Names /\ Current.version \in Versions
    BY CurrentIsFile DEF Load, Register, Found
  <1>2. PICK w \in Seen : ~(w <= Current.version)
    BY DEF MakeDefault
  <1>3. w \in versions[Current.name] /\ w \in Versions
    BY <1>1, <1>2 DEF Seen, PolicyTypeOK
  <1>4. Current.version # None /\ w # None
    BY <1>2 DEF Load, Register, Incomparable
  <1>5. Current.version \in Nat /\ w \in Nat /\ Current.version < w
    BY <1>1, <1>2, <1>3, <1>4, VersionAssumption DEF Versions
  <1>6. loading # "thrown"
    BY DEF Load, Register, Found, Turn
  <1>7. CASE policies[<<Current.name, w>>] # 0
    <2>1. \/ /\ default[Current.name] # 0
             /\ w = VersionAt(default[Current.name]) \/ w < VersionAt(default[Current.name])
          \/ \E i \in Of(Current.name) \cap failed : w < VersionAt(i)
      BY <1>1, <1>3, <1>7 DEF LoaderInv, HighestIsDefault
    <2>2. \A u \in versions[Current.name] : u \in Nat
      BY <1>1, <1>3, <1>4, VersionAssumption DEF LoaderInv, PolicyTypeOK, Versions
    <2>3. CASE default[Current.name] # 0 /\
                 (w = VersionAt(default[Current.name]) \/ w < VersionAt(default[Current.name]))
      <3>1. VersionAt(default[Current.name]) \in Nat
        BY <1>1, <2>2, <2>3 DEF LoaderInv
      <3> QED
        BY <1>5, <2>3, <3>1
    <2>4. ASSUME NEW i \in Of(Current.name) \cap failed, w < VersionAt(i)
          PROVE  Current.version < VersionAt(i)
      <3>1. VersionAt(i) \in Nat
        BY <1>1, <2>2 DEF LoaderInv
      <3> QED
        BY <1>5, <2>4, <3>1
    <2> QED
      BY <2>1, <2>3, <2>4
  <1>8. CASE policies[<<Current.name, w>>] = 0
    BY <1>1, <1>3, <1>5, <1>6, <1>8 DEF LoaderInv
  <1> QED
    BY <1>7, <1>8

\* What is registered has a say, whether it is loaded or not.
LEMMA RegisteredVersions ==
  ASSUME PolicyTypeOK, PolicyTypeOK', LoaderInv, Register
  PROVE  /\ \A n \in Names : versions[n] \subseteq versions'[n]
         /\ \A n \in Names : None \in versions'[n] => versions'[n] = {None}
         /\ Current.version \in versions'[Current.name]
         /\ \A n \in Names : \A v \in versions'[n] :
              v \in versions[n] \/ (n = Current.name /\ v = Current.version)
         /\ \A i \in (1..(found + 1)) \ skipped :
              descriptors[i].version \in versions'[descriptors[i].name]
  <1>1. /\ Current.name \in Names /\ loading # "thrown"
        /\ \A i \in 1..found : descriptors[i].name \in Names
    BY CurrentIsFile DEF Register, Found, Turn
  <1>2. versions' = [versions EXCEPT ![Current.name] = Seen \cup {Current.version}]
    BY DEF Register, Seen
  <1>3. /\ \A n \in Names : versions[n] \subseteq versions'[n]
        /\ versions'[Current.name] = Seen \cup {Current.version}
        /\ \A n \in Names : n # Current.name => versions'[n] = versions[n]
    BY <1>1, <1>2 DEF PolicyTypeOK, Seen
  <1>4. Seen = {} \/ (Current.version # None /\ None \notin Seen)
    BY DEF Register, Incomparable
  <1>5. \A n \in Names : None \in versions'[n] => versions'[n] = {None}
    BY <1>1, <1>3, <1>4 DEF LoaderInv
  <1>6. \A i \in (1..(found + 1)) \ skipped :
          descriptors[i].version \in versions'[descriptors[i].name]
    <2> SUFFICES ASSUME NEW i \in (1..(found + 1)) \ skipped
                 PROVE  descriptors[i].version \in versions'[descriptors[i].name]
      OBVIOUS
    <2>1. CASE i = found + 1
      BY <1>3, <2>1 DEF Current
    <2>2. CASE i # found + 1
      <3>1. i \in (1..found) \ skipped
        BY <2>2, OldPlaces DEF Register
      <3> QED
        BY <1>1, <1>3, <3>1 DEF LoaderInv
    <2> QED
      BY <2>1, <2>2
  <1> QED
    BY <1>1, <1>3, <1>5, <1>6 DEF Seen

\* A place that is dealt with, and loads nothing, breaks nothing.
LEMMA NothingLoaded ==
  ASSUME PolicyTypeOK, PolicyTypeOK', LoaderInv, Found,
         UNCHANGED <<policies, default>>, failed \subseteq failed', skipped \subseteq skipped'
  PROVE  HighestIsDefault' /\ FirstIsKept'
  <1>1. HighestIsDefault'
    <2> SUFFICES ASSUME NEW n \in Names, NEW v \in Versions, policies[<<n, v>>] # 0
                 PROVE  \/ /\ default[n] # 0
                           /\ v = VersionAt(default[n])' \/ v < VersionAt(default[n])'
                        \/ \E i \in Of(n)' \cap failed' : v < VersionAt(i)'
      BY DEF HighestIsDefault
    <2>1. VersionAt(default[n])' = VersionAt(default[n])
      BY OldPlaces DEF PolicyTypeOK
    <2>2. \A i \in Of(n) : i \in Of(n)' /\ VersionAt(i)' = VersionAt(i)
      BY OldPlaces DEF PolicyTypeOK
    <2> QED
      BY <2>1, <2>2 DEF LoaderInv, HighestIsDefault
  <1>2. FirstIsKept'
    <2> SUFFICES ASSUME ~override, NEW i \in 1..(found + 1),
                        policies[<<descriptors[i].name, descriptors[i].version>>] = i,
                        NEW j \in (1..(i - 1)) \ skipped
                 PROVE  \/ descriptors[j].name # descriptors[i].name
                        \/ descriptors[j].version # descriptors[i].version
      BY OldPlaces DEF FirstIsKept
    <2>1. /\ descriptors[i].name \in Names /\ descriptors[i].version \in Versions
          /\ found \in Nat
      BY CurrentIsFile DEF Found, Current
    <2>2. i \in 0..found
      BY <2>1 DEF PolicyTypeOK
    <2>3. i \in 1..found
      BY <2>1, <2>2
    <2> QED
      BY <2>3 DEF LoaderInv, FirstIsKept
  <1> QED
    BY <1>1, <1>2

LEMMA LoadKeepsLoaderInv ==
  ASSUME PolicyTypeOK, PolicyTypeOK', LoaderInv, Load
  PROVE  LoaderInv'
  <1> DEFINE name == Current.name
             version == Current.version
             place == found + 1
  <1>1. /\ name \in Names /\ version \in Versions /\ found \in Nat
        /\ place \in 1..Len(descriptors) /\ place # 0
        /\ \A i \in 1..found : descriptors[i].name \in Names /\ descriptors[i].version \in Versions
    BY CurrentIsFile DEF Load, Register, Found
  <1>2. /\ found' = place /\ descriptors' = descriptors /\ override' = override
        /\ skipped' = skipped /\ failed' = failed /\ loading' = "loading" /\ loading = "loading"
    BY DEF Load, Register, Found, Turn
  <1>3. /\ \A n \in Names : versions[n] \subseteq versions'[n]
        /\ \A n \in Names : None \in versions'[n] => versions'[n] = {None}
        /\ version \in versions'[name]
        /\ \A n \in Names : \A v \in versions'[n] :
             v \in versions[n] \/ (n = name /\ v = version)
        /\ \A i \in (1..place) \ skipped : descriptors[i].version \in versions'[descriptors[i].name]
    BY RegisteredVersions DEF Load
  <1>4. /\ policies'[<<name, version>>] = place
        /\ \A n \in Names : \A v \in Versions :
             (n # name \/ v # version) => policies'[<<n, v>>] = policies[<<n, v>>]
    BY <1>1 DEF Load, PolicyTypeOK
  <1>5. /\ \A i \in 0..found : VersionAt(i)' = VersionAt(i)
        /\ \A i : i = place => VersionAt(i)' = version
        /\ \A n : Of(n) \subseteq Of(n)' /\ Of(n) \subseteq 1..found
        /\ \A n : \A i \in Of(n)' : i = place \/ i \in Of(n)
    <2>1. \A n : \A i \in Of(n)' : i = place \/ i \in Of(n)
      BY <1>1, <1>2 DEF Of
    <2> QED
      BY <2>1, OldPlaces DEF Load, Register
  <1>6. \A n \in Names :
          \/ default'[n] = default[n] /\ default[n] \in 0..found
          \/ n = name /\ MakeDefault /\ default'[n] = place
    BY <1>1 DEF Load, PolicyTypeOK
  <1>7. \A i \in failed : i \in 1..found /\ i # place
    BY <1>1 DEF PolicyTypeOK
  <1> HIDE DEF name, version, place
  <1>8. HighestIsDefault'
    <2> SUFFICES ASSUME NEW n \in Names, NEW v \in Versions, policies'[<<n, v>>] # 0
                 PROVE  \/ /\ default'[n] # 0
                           /\ v = VersionAt(default[n])' \/ v < VersionAt(default[n])'
                        \/ \E i \in Of(n) \cap failed : v < VersionAt(i)'
      BY <1>2, <1>5 DEF HighestIsDefault
    <2>1. \A i \in Of(n) : VersionAt(i)' = VersionAt(i)
      BY <1>1, <1>5
    <2>2. CASE default'[n] = default[n] /\ default[n] \in 0..found
      <3>1. VersionAt(default[n])' = VersionAt(default[n])
        BY <1>5, <2>2
      <3>2. CASE n # name \/ v # version
        BY <1>4, <2>1, <2>2, <3>1, <3>2 DEF LoaderInv, HighestIsDefault
      <3>3. CASE n = name /\ v = version /\ ~MakeDefault
        BY <2>1, <2>2, <3>1, <3>3, PassedBy DEF name, version
      <3>4. CASE n = name /\ v = version /\ MakeDefault
        <4>1. default'[n] = place
          BY <1>1, <3>4 DEF Load, PolicyTypeOK, name, place
        <4>2. VersionAt(default[n])' = version
          BY <1>5, <4>1
        <4> QED
          BY <1>1, <3>4, <4>1, <4>2
      <3> QED
        BY <3>2, <3>3, <3>4
    <2>3. CASE n = name /\ MakeDefault /\ default'[n] = place
      <3>1. VersionAt(default[n])' = version
        BY <1>5, <2>3
      <3>2. CASE v = version
        BY <1>1, <2>3, <3>1, <3>2
      <3>3. CASE v # version
        <4>1. v \in versions[name]
          BY <1>4, <2>3, <3>3 DEF LoaderInv
        <4>2. v <= version /\ version # None /\ None \notin versions[name]
          BY <2>3, <4>1 DEF MakeDefault, Seen, name, version, Load, Register, Incomparable
        <4>3. v \in Nat /\ version \in Nat
          BY <1>1, <4>1, <4>2, VersionAssumption DEF Versions
        <4> QED
          BY <1>1, <2>3, <3>1, <3>3, <4>2, <4>3
      <3> QED
        BY <3>2, <3>3
    <2> QED
      BY <1>6, <2>2, <2>3
  <1>9. FirstIsKept'
    <2> SUFFICES ASSUME ~override, NEW i \in 1..place,
                        policies'[<<descriptors[i].name, descriptors[i].version>>] = i,
                        NEW j \in (1..(i - 1)) \ skipped
                 PROVE  \/ descriptors[j].name # descriptors[i].name
                        \/ descriptors[j].version # descriptors[i].version
      BY <1>2 DEF FirstIsKept
    <2>1. CASE i = place
      <3>1. j \in (1..found) \ skipped /\ descriptors[i] = Current
        BY <1>1, <2>1 DEF place, Current
      <3>2. descriptors[j].version \in versions[descriptors[j].name]
        BY <1>2, <3>1 DEF LoaderInv
      <3> QED
        BY <3>1, <3>2 DEF Load, Register, Discarded, Seen
    <2>2. CASE i # place
      <3>1. i \in 1..found
        BY <1>1, <2>2 DEF place
      <3>2. policies[<<descriptors[i].name, descriptors[i].version>>] = i
        BY <1>1, <1>4, <2>2, <3>1
      <3> QED
        BY <3>1, <3>2 DEF LoaderInv, FirstIsKept
    <2> QED
      BY <2>1, <2>2
  <1>10. \A n \in Names : \A v \in Versions : policies'[<<n, v>>] # 0 => v \in versions'[n]
    BY <1>3, <1>4 DEF LoaderInv
  <1>11. \A n \in Names : default'[n] # 0 => VersionAt(default[n])' \in versions'[n]
    <2> SUFFICES ASSUME NEW n \in Names, default'[n] # 0
                 PROVE  VersionAt(default[n])' \in versions'[n]
      OBVIOUS
    <2>1. CASE default'[n] = default[n] /\ default[n] \in 0..found
      <3>1. VersionAt(default[n])' = VersionAt(default[n])
        BY <1>5, <2>1
      <3> QED
        BY <1>3, <2>1, <3>1 DEF LoaderInv
    <2>2. CASE n = name /\ default'[n] = place
      <3>1. VersionAt(default[n])' = version
        BY <1>5, <2>2
      <3> QED
        BY <1>3, <2>2, <3>1
    <2> QED
      BY <1>6, <2>1, <2>2
  <1>12. \A n \in Names : \A i \in Of(n)' \cap failed' : VersionAt(i)' \in versions'[n]
    <2> SUFFICES ASSUME NEW n \in Names, NEW i \in Of(n)', i \in failed
                 PROVE  VersionAt(i)' \in versions'[n]
      BY <1>2
    <2>1. i \in Of(n) /\ i \in 0..found
      BY <1>1, <1>5, <1>7
    <2> QED
      BY <1>3, <1>5, <2>1 DEF LoaderInv
  <1>13. \A n \in Names : \A v \in versions'[n] :
           policies'[<<n, v>>] # 0 \/ \E i \in Of(n)' \cap failed' : v = VersionAt(i)'
    <2> SUFFICES ASSUME NEW n \in Names, NEW v \in versions'[n], n # name \/ v # version
                 PROVE  policies'[<<n, v>>] # 0 \/ \E i \in Of(n)' \cap failed' : v = VersionAt(i)'
      BY <1>1, <1>4
    <2>1. v \in versions[n] /\ v \in Versions
      BY <1>3 DEF PolicyTypeOK
    <2>2. policies'[<<n, v>>] = policies[<<n, v>>]
      BY <1>4, <2>1
    <2>3. \A i \in Of(n) : VersionAt(i)' = VersionAt(i) /\ i \in Of(n)'
      BY <1>1, <1>5
    <2> QED
      BY <1>2, <2>1, <2>2, <2>3 DEF LoaderInv
  <1> QED
    BY <1>2, <1>3, <1>8, <1>9, <1>10, <1>11, <1>12, <1>13 DEF LoaderInv

\* Passing a place by, whether its version is registered or not.
LEMMA PassingKeepsLoaderInv ==
  ASSUME PolicyTypeOK, PolicyTypeOK', LoaderInv,
         SkipUnreadable \/ ComparisonThrows \/ DiscardDuplicate \/ StatThrows \/ LoadFails
  PROVE  LoaderInv'
  <1>1. /\ Found /\ UNCHANGED <<policies, default>>
        /\ failed \subseteq failed' /\ skipped \subseteq skipped'
        /\ Register \/ versions' = versions
    BY DEF SkipUnreadable, ComparisonThrows, DiscardDuplicate, StatThrows, LoadFails, Register
  <1>2. HighestIsDefault' /\ FirstIsKept'
    BY <1>1, NothingLoaded
  <1>3. /\ \A n \in Names : versions[n] \subseteq versions'[n]
        /\ \A n \in Names : None \in versions'[n] => versions'[n] = {None}
    BY <1>1, RegisteredVersions DEF LoaderInv
  <1>4. /\ \A n \in Names : default[n] \in 0..found
        /\ \A i \in 0..found : VersionAt(i)' = VersionAt(i)
        /\ \A n : Of(n) \subseteq Of(n)' /\ Of(n) \subseteq 1..found
        /\ \A n : \A i \in Of(n)' : i = found + 1 \/ i \in Of(n)
        /\ found \in Nat /\ found' = found + 1
        /\ \A i : i = found + 1 => VersionAt(i)' = Current.version
        /\ \A n : \A i \in Of(n)' : i = found + 1 => n = Current.name
    <2>1. /\ \A n : \A i \in Of(n)' : i = found + 1 \/ i \in Of(n)
          /\ \A n : \A i \in Of(n)' : i = found + 1 => n = Current.name
      BY <1>1, OldPlaces DEF Of, Current
    <2>2. found \in Nat
      BY <1>1, CurrentIsFile DEF Found
    <2> QED
      BY <1>1, <2>1, <2>2, OldPlaces DEF PolicyTypeOK
  <1>5. \A n \in Names : default'[n] # 0 => VersionAt(default[n])' \in versions'[n]
    <2> SUFFICES ASSUME NEW n \in Names, default[n] # 0
                 PROVE  VersionAt(default[n])' \in versions'[n]
      BY <1>1
    <2>1. VersionAt(default[n])' = VersionAt(default[n])
      BY <1>1, <1>4
    <2> QED
      BY <1>3, <2>1 DEF LoaderInv
  <1>6. \A n \in Names : \A i \in Of(n)' \cap failed' : VersionAt(i)' \in versions'[n]
    <2> SUFFICES ASSUME NEW n \in Names, NEW i \in Of(n)', i \in failed'
                 PROVE  VersionAt(i)' \in versions'[n]
      OBVIOUS
    <2>1. CASE i \in Of(n) /\ i \in failed
      BY <1>3, <1>4, <2>1 DEF LoaderInv
    <2>2. CASE i = found + 1 /\ LoadFails
      <3>1. Current.version \in versions'[Current.name]
        BY <2>2, RegisteredVersions DEF LoadFails
      <3> QED
        BY <1>4, <2>2, <3>1
    <2>3. failed' = failed \/ (LoadFails /\ failed' = failed \cup {found + 1})
      BY DEF SkipUnreadable, ComparisonThrows, DiscardDuplicate, StatThrows, LoadFails
    <2>4. found + 1 \notin failed /\ found + 1 \notin 1..found
      BY <1>4 DEF PolicyTypeOK
    <2> QED
      BY <1>4, <2>1, <2>2, <2>3, <2>4 DEF PolicyTypeOK
  <1>7. ASSUME loading' # "thrown", NEW i \in (1..found') \ skipped'
        PROVE  descriptors'[i].version \in versions'[descriptors'[i].name]
    <2>1. CASE LoadFails
      BY <1>1, <1>4, <1>7, <2>1, RegisteredVersions, OldPlaces DEF LoadFails, Register
    <2>2. CASE SkipUnreadable \/ DiscardDuplicate
      <3>1. /\ versions' = versions /\ descriptors' = descriptors
            /\ loading' = loading
        BY <2>2, OldPlaces DEF SkipUnreadable, DiscardDuplicate
      <3>2. CASE i \in 1..found
        BY <1>1, <1>7, <3>1, <3>2 DEF LoaderInv
      <3>3. CASE i = found + 1
        <4>1. DiscardDuplicate
          BY <1>7, <2>2, <3>3 DEF SkipUnreadable
        <4> QED
          BY <3>1, <3>3, <4>1 DEF DiscardDuplicate, Discarded, Seen, Current
      <3> QED
        BY <1>4, <1>7, <3>2, <3>3
    <2> QED
      BY <1>7, <2>1, <2>2 DEF ComparisonThrows, StatThrows
  <1>8. ASSUME loading' # "thrown", NEW n \in Names, NEW v \in versions'[n]
        PROVE  policies'[<<n, v>>] # 0 \/ \E i \in Of(n)' \cap failed' : v = VersionAt(i)'
    <2>1. CASE v \in versions[n]
      <3>1. loading # "thrown"
        BY <1>1 DEF Found, Turn
      <3> QED
        BY <1>1, <1>4, <2>1, <3>1 DEF LoaderInv
    <2>2. CASE v \notin versions[n]
      <3>1. LoadFails
        BY <1>8, <2>2 DEF SkipUnreadable, ComparisonThrows, DiscardDuplicate, StatThrows
      <3>2. n = Current.name /\ v = Current.version
        BY <2>2, <3>1, RegisteredVersions DEF LoadFails
      <3>3. \A i : i = found + 1 => i \in Of(n)' /\ i \in failed' /\ v = VersionAt(i)'
        BY <1>1, <3>1, <3>2, OldPlaces DEF LoadFails
      <3> QED
        BY <3>3
    <2> QED
      BY <2>1, <2>2
  <1>9. \A n \in Names : \A v \in Versions : policies'[<<n, v>>] # 0 => v \in versions'[n]
    BY <1>1, <1>3 DEF LoaderInv
  <1> QED
    BY <1>2, <1>3, <1>5, <1>6, <1>7, <1>8, <1>9 DEF LoaderInv

LEMMA LoaderPreserved ==
  ASSUME PolicyTypeOK, PolicyTypeOK', LoaderInv, PolicyNext
  PROVE  LoaderInv'
  <1>1. CASE Loaded
    BY <1>1 DEF Loaded, LoaderInv, HighestIsDefault, FirstIsKept, Of, VersionAt, Turn
  <1> QED
    BY <1>1, LoadKeepsLoaderInv, PassingKeepsLoaderInv DEF PolicyNext

-----------------------------------------------------------------------------
(* Forms. *)

\* A form is there, or an error, exactly when its retrieval has called back, and
\* nobody has been answered with a form before; those past the login are logged in.
FormInv ==
  ~thrown =>
    /\ \A f \in Forms : queued[f] <=> ~Settled(f)
    /\ \A f \in Forms : queued[f] => customPage[f] = NoPage /\ ~loadingError[f]
    /\ \A f \in Forms : ~queued[f] => (customPage[f] = NoPage <=> loadingError[f])
    /\ \A r \in Dialogs : stage[r] \in {"authorize", "consent"} => login[r] = "true"
    /\ \A r \in Dialogs : \A f \in Forms : queued[f] => answer[r].form # f
    /\ DialogsServed

LEMMA InitFormTypes == FormInit => FormTypeOK
  <1> SUFFICES ASSUME FormInit PROVE FormTypeOK
    OBVIOUS
  <1>1. connection \in [Forms -> Connections] /\ login \in [Dialogs -> {"undefined", "false", "true"}]
    BY DEF FormInit, Connections
  <1>2. /\ customPage \in [Forms -> {NoPage} \cup {<<p>> : p \in Pages}]
        /\ loadingError \in [Forms -> BOOLEAN] /\ queued \in [Forms -> BOOLEAN]
    BY DEF FormInit
  <1>3. /\ pending \in [Forms -> SUBSET Dialogs] /\ thrown \in BOOLEAN
        /\ stage \in [Dialogs -> {"new", "login", "authorize", "consent", "answered"}]
    BY DEF FormInit
  <1>4. answer \in [Dialogs -> Answers \cup {NoAnswer, AuthorizationError}]
    BY DEF FormInit
  <1> QED
    BY <1>1, <1>2, <1>3, <1>4 DEF FormTypeOK

LEMMA InitFormInv == FormInit => FormInv
  BY DEF FormInit, FormInv, DialogsServed, Settled, Forms, NoAnswer

\* What a page is rendered as.
LEMMA PagesAreAnswers ==
  ASSUME FormTypeOK
  PROVE  /\ \A p \in Pages : \A r : LoginPage(p, r) \in Answers /\ LoginPage(p, r).form = "login"
         /\ ConsentPage \in Answers /\ ConsentPage.form = "consent"
         /\ \A failed_ \in BOOLEAN : ConsentAnswer(failed_) \in Answers \cup {AuthorizationError}
         /\ \A p \in Pages : <<p>> # NoPage /\ <<p>>[1] = p
  BY PagesAssumption DEF LoginPage, ConsentPage, ConsentAnswer, Answers, Forms, NoPage

\* retrieveForm calls back with a page, or none.
Page == {NoPage} \cup {<<p>> : p \in Pages}

LEMMA RetrievalSteps ==
  ASSUME NEW f \in Forms, FormStep(f)
  PROVE  /\ ~thrown
         /\ \/ Respond(f)
            \/ \E page \in Page, to \in {"unread", "broken", "ended"} : Done(f, page, to)
  <1>1. CASE RespondBadly(f)
    BY <1>1 DEF RespondBadly, At, Page
  <1>2. CASE RequestError(f)
    BY <1>2 DEF RequestError, At, Page
  <1>3. CASE ResponseEnd(f)
    BY <1>3 DEF ResponseEnd, At, Page
  <1>4. CASE ResponseError(f)
    BY <1>4 DEF ResponseError, At, Page
  <1>5. CASE Respond(f)
    BY <1>5 DEF Respond, At
  <1> QED
    BY <1>1, <1>2, <1>3, <1>4, <1>5 DEF FormStep

\* What calling back comes to, whichever form it is.
DoneFor(f, to) ==
  /\ connection' = [connection EXCEPT ![f] = to]
  /\ \A g \in Forms \ {f} : /\ customPage'[g] = customPage[g]
                            /\ loadingError'[g] = loadingError[g]
  /\ customPage' \in [Forms -> Page] /\ loadingError' \in [Forms -> BOOLEAN]
  /\ \/ thrown' = TRUE /\ UNCHANGED <<pending, queued, dialogVars>>
     \/ /\ queued[f] /\ UNCHANGED <<login, thrown>>
        /\ customPage[f] = NoPage /\ ~loadingError[f] =>
             (customPage'[f] = NoPage <=> loadingError'[f])
        /\ pending' = [pending EXCEPT ![f] = {}]
        /\ queued' = [queued EXCEPT ![f] = FALSE]
        /\ \A r \in Dialogs \ pending[f] :
             stage'[r] = stage[r] /\ answer'[r] = answer[r]
        /\ \A r \in pending[f] :
             \/ f = "login" /\ stage'[r] = "authorize" /\ login[r] = "true"
                /\ answer'[r] = answer[r]
             \/ /\ stage'[r] = "answered"
                /\ \/ answer'[r] = AuthorizationError
                   \/ /\ customPage'[f] # NoPage
                      /\ customPage[f] = NoPage /\ ~loadingError[f] => ~loadingError'[f]
                      /\ \/ f = "login" /\ login[r] # "true"
                            /\ answer'[r] = LoginPage(customPage'["login"][1], r)
                         \/ f = "consent" /\ answer'[r] = ConsentPage
        /\ stage' = [r \in Dialogs |-> stage'[r]] /\ answer' = [r \in Dialogs |-> answer'[r]]

LEMMA LoginDoneFor ==
  ASSUME FormTypeOK, NEW page \in Page, NEW to, LoginDone(page, to)
  PROVE  DoneFor("login", to)
  <1>1. /\ connection' = [connection EXCEPT !["login"] = to]
        /\ \A g \in Forms \ {"login"} : /\ customPage'[g] = customPage[g]
                                       /\ loadingError'[g] = loadingError[g]
        /\ customPage' \in [Forms -> Page] /\ loadingError' \in [Forms -> BOOLEAN]
        /\ customPage'["login"] = IF page = NoPage THEN customPage["login"] ELSE page
        /\ loadingError'["login"] = (page = NoPage)
    BY DEF LoginDone, FormTypeOK, Forms, Page
  <1>2. CASE thrown' = TRUE /\ UNCHANGED <<pending, queued, dialogVars>>
    BY <1>1, <1>2 DEF DoneFor
  <1>3. CASE /\ queued["login"]
             /\ ~(customPage'["login"] = NoPage /\ \E r \in pending["login"] : login[r] # "true")
             /\ LoginReplayed(customPage'["login"])
             /\ pending' = [pending EXCEPT !["login"] = {}]
             /\ queued' = [queued EXCEPT !["login"] = FALSE]
             /\ UNCHANGED <<login, thrown>>
    <2>1. \A r \in Dialogs \ pending["login"] : stage'[r] = stage[r] /\ answer'[r] = answer[r]
      BY <1>3 DEF LoginReplayed
    <2>2. \A r \in pending["login"] :
            \/ stage'[r] = "authorize" /\ login[r] = "true" /\ answer'[r] = answer[r]
            \/ /\ stage'[r] = "answered" /\ login[r] # "true"
               /\ customPage'["login"] # NoPage
               /\ answer'[r] = LoginPage(customPage'["login"][1], r)
      BY <1>3 DEF LoginReplayed, FormTypeOK, Forms
    <2>3. /\ stage' = [r \in Dialogs |-> stage'[r]] /\ answer' = [r \in Dialogs |-> answer'[r]]
      BY <1>3 DEF LoginReplayed
    <2> QED
      BY <1>1, <1>3, <2>1, <2>2, <2>3 DEF DoneFor
  <1> QED
    BY <1>2, <1>3 DEF LoginDone

LEMMA ConsentDoneFor ==
  ASSUME FormTypeOK, NEW page \in Page, NEW to, ConsentDone(page, to)
  PROVE  DoneFor("consent", to)
  <1> DEFINE compiled == page # NoPage /\ Compiles(page[1])
  <1>1. /\ connection' = [connection EXCEPT !["consent"] = to]
        /\ \A g \in Forms \ {"consent"} : /\ customPage'[g] = customPage[g]
                                         /\ loadingError'[g] = loadingError[g]
        /\ customPage' \in [Forms -> Page] /\ loadingError' \in [Forms -> BOOLEAN]
        /\ customPage'["consent"] = IF compiled THEN page ELSE customPage["consent"]
        /\ loadingError'["consent"] = (loadingError["consent"] \/ ~compiled)
    BY DEF ConsentDone, FormTypeOK, Forms, Page
  <1>2. CASE thrown' = TRUE /\ UNCHANGED <<pending, queued, dialogVars>>
    BY <1>1, <1>2 DEF DoneFor
  <1>3. CASE /\ queued["consent"]
             /\ ConsentReplayed(loadingError'["consent"])
             /\ queued' = [queued EXCEPT !["consent"] = FALSE]
             /\ UNCHANGED <<login, thrown>>
    <2>1. \A r \in Dialogs \ pending["consent"] : stage'[r] = stage[r] /\ answer'[r] = answer[r]
      BY <1>3 DEF ConsentReplayed, Answered
    <2>2. \A r \in pending["consent"] :
            /\ stage'[r] = "answered"
            /\ answer'[r] = ConsentAnswer(loadingError'["consent"])
      BY <1>3 DEF ConsentReplayed, Answered, FormTypeOK, Forms
    <2>3. \A r \in pending["consent"] :
            \/ answer'[r] = AuthorizationError
            \/ /\ answer'[r] = ConsentPage /\ customPage'["consent"] # NoPage
               /\ ~loadingError'["consent"]
      BY <1>1, <2>2 DEF ConsentAnswer
    <2>4. /\ stage' = [r \in Dialogs |-> stage'[r]] /\ answer' = [r \in Dialogs |-> answer'[r]]
          /\ pending' = [pending EXCEPT !["consent"] = {}]
      BY <1>3 DEF ConsentReplayed, Answered
    <2>5. (customPage["consent"] = NoPage /\ ~loadingError["consent"]) =>
            (customPage'["consent"] = NoPage <=> loadingError'["consent"])
      BY <1>1
    <2> QED
      BY <1>1, <1>3, <2>1, <2>2, <2>3, <2>4, <2>5 DEF DoneFor
  <1> QED
    BY <1>2, <1>3 DEF ConsentDone

LEMMA DoneForTypes ==
  ASSUME FormTypeOK, NEW f \in Forms, NEW to \in {"unread", "broken", "ended"}, DoneFor(f, to)
  PROVE  FormTypeOK'
  <1>1. /\ connection' \in [Forms -> Connections]
        /\ customPage' \in [Forms -> {NoPage} \cup {<<p>> : p \in Pages}]
        /\ loadingError' \in [Forms -> BOOLEAN]
        /\ pending' \in [Forms -> SUBSET Dialogs] /\ queued' \in [Forms -> BOOLEAN]
        /\ login' \in [Dialogs -> {"undefined", "false", "true"}] /\ thrown' \in BOOLEAN
    BY DEF DoneFor, FormTypeOK, Connections, Page, dialogVars
  <1>2. CASE UNCHANGED dialogVars
    BY <1>1, <1>2 DEF FormTypeOK, dialogVars
  <1>3. CASE ~UNCHANGED dialogVars
    <2>1. stage' = [r \in Dialogs |-> stage'[r]] /\ answer' = [r \in Dialogs |-> answer'[r]]
      BY <1>3 DEF DoneFor
    <2>2. \A r \in Dialogs : stage'[r] \in {"new", "login", "authorize", "consent", "answered"}
      <3> SUFFICES ASSUME NEW r \in Dialogs
                   PROVE  stage'[r] \in {"new", "login", "authorize", "consent", "answered"}
        OBVIOUS
      <3>1. stage'[r] \in {stage[r], "authorize", "answered"}
        BY <1>3 DEF DoneFor
      <3> QED
        BY <3>1 DEF FormTypeOK
    <2>3. \A r \in Dialogs : answer'[r] \in Answers \cup {NoAnswer, AuthorizationError}
      <3> SUFFICES ASSUME NEW r \in Dialogs
                   PROVE  answer'[r] \in Answers \cup {NoAnswer, AuthorizationError}
        OBVIOUS
      <3>1. \/ answer'[r] \in {answer[r], AuthorizationError, ConsentPage}
            \/ /\ customPage'["login"] # NoPage
               /\ answer'[r] = LoginPage(customPage'["login"][1], r)
        BY <1>3 DEF DoneFor
      <3>2. customPage'["login"] # NoPage => customPage'["login"][1] \in Pages
        BY <1>1 DEF Forms
      <3> QED
        BY <3>1, <3>2, PagesAreAnswers DEF FormTypeOK
    <2> QED
      BY <1>1, <2>1, <2>2, <2>3 DEF FormTypeOK
  <1> QED
    BY <1>2, <1>3

\* The page a request is answered with stays the page.
LEMMA DoneForKeepsFormInv ==
  ASSUME FormTypeOK, FormInv, ~thrown, NEW f \in Forms,
         NEW to \in {"unread", "broken", "ended"}, DoneFor(f, to)
  PROVE  FormInv'
  <1> SUFFICES ASSUME thrown' # TRUE PROVE FormInv'
    BY DEF FormInv
  <1>1. /\ queued[f] /\ login' = login
        /\ customPage[f] = NoPage /\ ~loadingError[f]
        /\ customPage'[f] = NoPage <=> loadingError'[f]
        /\ \A g \in Forms \ {f} : customPage'[g] = customPage[g] /\ loadingError'[g] = loadingError[g]
        /\ ~queued'[f] /\ \A g \in Forms \ {f} : queued'[g] = queued[g]
        /\ pending'[f] = {} /\ \A g \in Forms \ {f} : pending'[g] = pending[g]
    BY ZenonT(60) DEF DoneFor, FormInv, FormTypeOK
  <1>2. Settled(f)' /\ \A g \in Forms \ {f} : Settled(g)' = Settled(g)
    BY DEF DoneFor, FormTypeOK, Settled
  <1>3. \A r \in Dialogs \ pending[f] : stage'[r] = stage[r] /\ answer'[r] = answer[r]
    BY <1>1 DEF DoneFor, dialogVars
  <1>4. \A r \in pending[f] :
          /\ r \in Dialogs /\ stage[r] = f /\ answer[r] = NoAnswer
          /\ \/ f = "login" /\ stage'[r] = "authorize" /\ login[r] = "true"
                /\ answer'[r] = answer[r]
             \/ /\ stage'[r] = "answered"
                /\ \/ answer'[r] = AuthorizationError
                   \/ /\ customPage'[f] # NoPage /\ ~loadingError'[f]
                      /\ \/ f = "login" /\ login[r] # "true"
                            /\ answer'[r] = LoginPage(customPage'["login"][1], r)
                         \/ f = "consent" /\ answer'[r] = ConsentPage
    <2>1. \A r \in pending[f] : r \in Dialogs /\ stage[r] = f /\ answer[r] = NoAnswer
      BY DEF FormInv, DialogsServed, FormTypeOK, Forms
    <2> QED
      BY <1>1, <2>1 DEF DoneFor, dialogVars
  <1>5. \A r \in Dialogs : stage'[r] \in {"authorize", "consent"} => login[r] = "true"
    BY <1>3, <1>4 DEF FormInv
  <1>6. /\ NoAnswer.form \notin Forms /\ AuthorizationError.form \notin Forms
        /\ AuthorizationError # NoAnswer /\ ConsentPage # NoAnswer /\ ConsentPage.form = "consent"
        /\ \A p, r : LoginPage(p, r).form = "login" /\ LoginPage(p, r) # NoAnswer
    <2>1. /\ NoAnswer.form = "none" /\ AuthorizationError.form = "error"
          /\ ConsentPage.form = "consent" /\ \A p, r : LoginPage(p, r).form = "login"
      BY DEF NoAnswer, AuthorizationError, ConsentPage, LoginPage
    <2> QED
      BY <2>1 DEF Forms
  <1>7. \A r \in Dialogs : \A g \in Forms : queued'[g] => answer'[r].form # g
    <2> SUFFICES ASSUME NEW r \in Dialogs, NEW g \in Forms, queued'[g]
                 PROVE  answer'[r].form # g
      OBVIOUS
    <2>1. g # f /\ queued[g]
      BY <1>1
    <2>2. CASE r \notin pending[f]
      BY <1>3, <2>1, <2>2 DEF FormInv
    <2>3. CASE r \in pending[f]
      BY <1>4, <1>6, <2>1, <2>3
    <2> QED
      BY <2>2, <2>3
  <1>8. DialogsServed'
    <2> SUFFICES ASSUME NEW r \in Dialogs
                 PROVE  /\ \A g \in Forms : stage'[r] = g <=> r \in pending'[g]
                        /\ \A g \in Forms : stage'[r] = g => ~Settled(g)'
                        /\ stage'[r] = "answered" <=> answer'[r] # NoAnswer
                        /\ \A g \in Forms : answer'[r].form = g =>
                             customPage'[g] # NoPage /\ ~loadingError'[g]
                        /\ answer'[r].form = "login" =>
                             /\ login[r] # "true"
                             /\ answer'[r] = LoginPage(customPage'["login"][1], r)
                        /\ stage'[r] \in Forms \ {"login"} => login[r] = "true"
      BY <1>1 DEF DialogsServed, LoginPage
    <2>1. CASE r \in pending[f]
      <3>1. stage'[r] \notin Forms /\ \A g \in Forms : r \notin pending'[g]
        BY <1>1, <1>4, <2>1 DEF FormInv, DialogsServed, Forms
      <3>2. CASE answer'[r] = NoAnswer \/ answer'[r] = AuthorizationError
        BY <1>4, <1>6, <2>1, <3>1, <3>2 DEF Forms
      <3>3. CASE /\ answer'[r] # NoAnswer /\ answer'[r] # AuthorizationError
        BY <1>1, <1>4, <1>6, <2>1, <3>1, <3>3 DEF Forms
      <3> QED
        BY <3>2, <3>3
    <2>2. CASE r \notin pending[f]
      <3>1. stage'[r] = stage[r] /\ answer'[r] = answer[r] /\ stage[r] # f
        BY <1>3, <2>2 DEF FormInv, DialogsServed
      <3>2. answer[r].form # f
        BY <1>1 DEF FormInv
      <3> QED
        BY <1>1, <1>2, <2>2, <3>1, <3>2 DEF FormInv, DialogsServed, Forms
    <2> QED
      BY <2>1, <2>2
  <1> QED
    BY <1>1, <1>2, <1>5, <1>7, <1>8 DEF FormInv

\* What a request does at a form: it queues, passes, or is answered.
Queues(r, f) ==
  /\ Queue(r, f) /\ customPage[f] = NoPage /\ ~loadingError[f]
  /\ stage[r] \in {"new", "authorize"}
  /\ f = "consent" => login[r] = "true"

Passes(r) ==
  stage[r] = "new" /\ login[r] = "true" /\ Pass(r) /\ UNCHANGED retrievalVars

IsAnswered(r) ==
  /\ stage[r] \in {"new", "authorize"} /\ UNCHANGED retrievalVars
  /\ stage' = [stage EXCEPT ![r] = "answered"]
  /\ \E a : /\ answer' = [answer EXCEPT ![r] = a]
           /\ \/ a = AuthorizationError
              \/ /\ customPage["login"] # NoPage /\ login[r] # "true"
                 /\ a = LoginPage(customPage["login"][1], r)
              \/ /\ customPage["consent"] # NoPage /\ ~loadingError["consent"]
                 /\ a = ConsentPage

LEMMA AnsweredOne ==
  ASSUME FormTypeOK, NEW r \in Dialogs, NEW a, Answered({r}, a)
  PROVE  /\ stage' = [stage EXCEPT ![r] = "answered"]
         /\ answer' = [answer EXCEPT ![r] = a[r]]
  BY DEF Answered, FormTypeOK

LEMMA DialogSteps ==
  ASSUME FormTypeOK, FormInv, NEW r \in Dialogs, DialogStep(r)
  PROVE  /\ ~thrown /\ UNCHANGED <<login, thrown>>
         /\ (\E f \in Forms : Queues(r, f)) \/ Passes(r) \/ IsAnswered(r)
  <1>1. ASSUME NEW a, stage[r] \in {"new", "authorize"}, UNCHANGED retrievalVars,
               Answered({r}, a),
               \/ a[r] = AuthorizationError
               \/ /\ customPage["login"] # NoPage /\ login[r] # "true"
                  /\ a[r] = LoginPage(customPage["login"][1], r)
               \/ /\ customPage["consent"] # NoPage /\ ~loadingError["consent"]
                  /\ a[r] = ConsentPage
        PROVE  IsAnswered(r)
    BY <1>1, AnsweredOne DEF IsAnswered
  <1>2. CASE AskLogin(r)
    <2>1. ~thrown /\ stage[r] = "new" /\ UNCHANGED <<login, thrown>>
      BY <1>2 DEF AskLogin
    <2>2. CASE customPage["login"] = NoPage /\ ~loadingError["login"] /\ Queue(r, "login")
      BY <2>1, <2>2 DEF Queues, Forms
    <2>3. CASE /\ Answered({r}, [x \in {r} |-> AuthorizationError]) /\ UNCHANGED retrievalVars
      BY <1>1, <2>1, <2>3
    <2>4. CASE login[r] = "true" /\ Pass(r) /\ UNCHANGED retrievalVars
      BY <2>1, <2>4 DEF Passes
    <2>5. CASE /\ customPage["login"] # NoPage /\ login[r] # "true" /\ UNCHANGED retrievalVars
               /\ Answered({r}, [x \in {r} |-> LoginPage(customPage["login"][1], r)])
      BY <1>1, <2>1, <2>5
    <2> QED
      BY <1>2, <2>1, <2>2, <2>3, <2>4, <2>5 DEF AskLogin
  <1>3. CASE AskConsent(r)
    <2>1. /\ login[r] = "true" /\ stage[r] = "authorize" /\ ~thrown
          /\ UNCHANGED <<login, thrown>>
      BY <1>3 DEF AskConsent, FormInv
    <2>2. CASE customPage["consent"] = NoPage /\ ~loadingError["consent"] /\ Queue(r, "consent")
      BY <2>1, <2>2 DEF Queues, Forms
    <2>3. CASE /\ Answered({r}, [x \in {r} |-> ConsentAnswer(loadingError["consent"])])
               /\ customPage["consent"] # NoPage \/ loadingError["consent"]
               /\ UNCHANGED retrievalVars
      <3>1. \/ ConsentAnswer(loadingError["consent"]) = AuthorizationError
            \/ /\ customPage["consent"] # NoPage /\ ~loadingError["consent"]
               /\ ConsentAnswer(loadingError["consent"]) = ConsentPage
        BY <2>3 DEF ConsentAnswer
      <3> QED
        BY <1>1, <2>1, <2>3, <3>1
    <2> QED
      BY <1>3, <2>1, <2>2, <2>3 DEF AskConsent
  <1>4. CASE AuthorizationFails(r)
    <2>1. /\ ~thrown /\ stage[r] = "authorize" /\ UNCHANGED <<login, thrown>>
          /\ UNCHANGED retrievalVars
          /\ Answered({r}, [x \in {r} |-> AuthorizationError])
      BY <1>4 DEF AuthorizationFails, retrievalVars
    <2> QED
      BY <1>1, <2>1
  <1> QED
    BY <1>2, <1>3, <1>4 DEF DialogStep, AskLogin, AskConsent, AuthorizationFails

LEMMA DialogTypes ==
  ASSUME FormTypeOK, FormInv, NEW r \in Dialogs, DialogStep(r)
  PROVE  FormTypeOK'
  <1>1. CASE \E f \in Forms : Queues(r, f)
    <2>1. PICK f \in Forms : Queues(r, f)
      BY <1>1
    <2>2. /\ pending' \in [Forms -> SUBSET Dialogs]
          /\ stage' \in [Dialogs -> {"new", "login", "authorize", "consent", "answered"}]
      BY <2>1 DEF Queues, Queue, FormTypeOK, Forms
    <2> QED
      BY <2>1, <2>2, DialogSteps DEF Queues, Queue, FormTypeOK
  <1>2. CASE Passes(r)
    BY <1>2, DialogSteps DEF Passes, Pass, FormTypeOK, retrievalVars
  <1>3. CASE IsAnswered(r)
    <2>1. PICK a : /\ answer' = [answer EXCEPT ![r] = a]
                   /\ \/ a \in {AuthorizationError, ConsentPage}
                      \/ /\ customPage["login"] # NoPage
                         /\ a = LoginPage(customPage["login"][1], r)
      BY <1>3 DEF IsAnswered
    <2>2. customPage["login"] # NoPage => customPage["login"][1] \in Pages
      BY DEF FormTypeOK, Forms
    <2>3. a \in Answers \cup {NoAnswer, AuthorizationError}
      BY <2>1, <2>2, PagesAreAnswers
    <2> QED
      BY <1>3, <2>1, <2>3, DialogSteps DEF IsAnswered, FormTypeOK, retrievalVars
  <1> QED
    BY <1>1, <1>2, <1>3, DialogSteps

LEMMA DialogKeepsFormInv ==
  ASSUME FormTypeOK, FormInv, NEW r \in Dialogs, DialogStep(r)
  PROVE  FormInv'
  <1>1. ~thrown /\ UNCHANGED <<login, thrown>>
    BY DialogSteps
  <1>2. UNCHANGED <<connection, customPage, loadingError, queued>>
    BY DialogSteps DEF Queues, Queue, Passes, IsAnswered, retrievalVars
  <1>3. \A f \in Forms : Settled(f)' = Settled(f)
    BY <1>2 DEF Settled
  <1>4. /\ NoAnswer.form \notin Forms /\ AuthorizationError.form \notin Forms
        /\ AuthorizationError # NoAnswer /\ ConsentPage # NoAnswer /\ ConsentPage.form = "consent"
        /\ \A p, x : LoginPage(p, x).form = "login" /\ LoginPage(p, x) # NoAnswer
    <2>1. /\ NoAnswer.form = "none" /\ AuthorizationError.form = "error"
          /\ ConsentPage.form = "consent" /\ \A p, x : LoginPage(p, x).form = "login"
      BY DEF NoAnswer, AuthorizationError, ConsentPage, LoginPage
    <2> QED
      BY <2>1 DEF Forms
  <1>5. \A x \in Dialogs \ {r} :
          /\ stage'[x] = stage[x] /\ answer'[x] = answer[x]
          /\ \A f \in Forms : x \in pending'[f] <=> x \in pending[f]
    BY DialogSteps DEF Queues, Queue, Passes, Pass, IsAnswered, retrievalVars, FormTypeOK
  <1> DEFINE Fine(x) ==
        /\ stage'[x] \in {"authorize", "consent"} => login[x] = "true"
        /\ \A f \in Forms : queued[f] => answer'[x].form # f
        /\ \A f \in Forms : stage'[x] = f <=> x \in pending'[f]
        /\ \A f \in Forms : stage'[x] = f => ~Settled(f)
        /\ stage'[x] = "answered" <=> answer'[x] # NoAnswer
        /\ \A f \in Forms : answer'[x].form = f => customPage[f] # NoPage /\ ~loadingError[f]
        /\ answer'[x].form = "login" =>
             login[x] # "true" /\ answer'[x] = LoginPage(customPage["login"][1], x)
        /\ stage'[x] \in Forms \ {"login"} => login[x] = "true"
  <1>6. \A x \in Dialogs \ {r} : Fine(x)
    BY <1>1, <1>5 DEF FormInv, DialogsServed
  <1>7. Fine(r)
    <2>1. ASSUME NEW f \in Forms, Queues(r, f)
          PROVE  Fine(r)
      <3>1. /\ stage'[r] = f /\ answer'[r] = answer[r] /\ answer[r] = NoAnswer
            /\ r \in pending'[f] /\ \A g \in Forms \ {f} : r \notin pending'[g]
        <4>1. stage[r] \notin Forms \cup {"answered"}
          BY <2>1 DEF Queues, Forms
        <4>2. answer[r] = NoAnswer /\ \A g \in Forms : r \notin pending[g]
          BY <1>1, <4>1 DEF FormInv, DialogsServed
        <4> QED
          BY <2>1, <4>2 DEF Queues, Queue, FormTypeOK
      <3>2. ~Settled(f)
        BY <1>1, <2>1 DEF Queues, FormInv
      <3> QED
        BY <1>4, <2>1, <3>1, <3>2 DEF Queues, Forms
    <2>2. CASE Passes(r)
      <3>1. /\ stage'[r] = "authorize" /\ login[r] = "true" /\ answer' = answer
            /\ answer[r] = NoAnswer /\ pending' = pending
            /\ \A f \in Forms : r \notin pending[f]
        BY <1>1, <2>2 DEF Passes, Pass, FormInv, DialogsServed, FormTypeOK, Forms, retrievalVars
      <3> QED
        BY <1>4, <3>1 DEF Forms
    <2>3. CASE IsAnswered(r)
      <3>1. /\ stage'[r] = "answered" /\ pending' = pending
            /\ \A f \in Forms : r \notin pending[f]
        BY <1>1, <2>3 DEF IsAnswered, FormInv, DialogsServed, FormTypeOK, Forms, retrievalVars
      <3>2. \/ answer'[r] = AuthorizationError
            \/ /\ customPage["login"] # NoPage /\ login[r] # "true"
               /\ answer'[r] = LoginPage(customPage["login"][1], r)
            \/ /\ customPage["consent"] # NoPage /\ ~loadingError["consent"]
               /\ answer'[r] = ConsentPage
        BY <2>3 DEF IsAnswered, FormTypeOK
      <3>3. \A f \in Forms : customPage[f] # NoPage => ~queued[f] /\ ~loadingError[f]
        BY <1>1 DEF FormInv
      <3> QED
        BY <1>4, <3>1, <3>2, <3>3 DEF Forms
    <2> QED
      BY <2>1, <2>2, <2>3, DialogSteps
  <1>8. \A x \in Dialogs : Fine(x)
    BY <1>6, <1>7
  <1> HIDE DEF Fine
  <1>9. DialogsServed'
    <2>1. \A p, x : LoginPage(p, x)' = LoginPage(p, x)
      BY <1>1 DEF LoginPage
    <2> QED
      BY <1>1, <1>2, <1>3, <1>8 DEF DialogsServed, Fine, LoginPage
  <1> QED
    BY <1>1, <1>2, <1>3, <1>8, <1>9 DEF FormInv, Fine

LEMMA ResponseTypes ==
  ASSUME FormTypeOK, NEW f \in Forms, Respond(f) \/ Retrieve
  PROVE  FormTypeOK'
  BY DEF Respond, Retrieve, FormTypeOK, Connections, dialogVars

LEMMA ResponseKeepsFormInv ==
  ASSUME FormTypeOK, FormInv, NEW f \in Forms, Respond(f) \/ Retrieve
  PROVE  FormInv'
  <1>1. /\ ~thrown
        /\ UNCHANGED <<customPage, loadingError, pending, queued, login, stage, answer, thrown>>
    BY DEF Respond, Retrieve, At, dialogVars
  <1>2. \A g \in Forms : Settled(g)' = Settled(g)
    <2>1. CASE Respond(f)
      BY <2>1 DEF Respond, At, Settled, FormTypeOK
    <2>2. CASE Retrieve
      BY <2>2 DEF Retrieve, Settled, FormTypeOK
    <2> QED
      BY <2>1, <2>2
  <1> QED
    BY <1>1, <1>2 DEF FormInv, DialogsServed, LoginPage

-----------------------------------------------------------------------------
(* The process. *)

StartupInv == TypeOK /\ LoaderInv /\ FormInv

LEMMA StartupStep ==
  ASSUME StartupInv, [Next]_vars
  PROVE  StartupInv'
  <1> USE DEF StartupInv, TypeOK
  <1>1. CASE LoadPolicies
    <2>1. PolicyTypeOK' /\ LoaderInv'
      BY <1>1, PolicyTypesPreserved, LoaderPreserved DEF LoadPolicies
    <2>2. FormTypeOK' /\ FormInv'
      BY <1>1 DEF LoadPolicies, formVars, retrievalVars, dialogVars, FormTypeOK, FormInv,
         DialogsServed, Settled, LoginPage
    <2> QED
      BY <2>1, <2>2
  <1>2. ASSUME UNCHANGED policyVars
        PROVE  PolicyTypeOK' /\ LoaderInv'
    BY <1>2 DEF policyVars, PolicyTypeOK, LoaderInv, HighestIsDefault, FirstIsKept, Of, VersionAt
  <1>3. CASE SetUpProvider
    BY <1>2, <1>3, ResponseTypes, ResponseKeepsFormInv DEF SetUpProvider, Forms
  <1>4. CASE \E r \in Dialogs : Dialog(r)
    BY <1>2, <1>4, DialogTypes, DialogKeepsFormInv DEF Dialog
  <1>5. ASSUME NEW f \in Forms, FormStep(f), UNCHANGED policyVars
        PROVE  StartupInv'
    <2>1. CASE Respond(f)
      BY <1>2, <1>5, <2>1, ResponseTypes, ResponseKeepsFormInv
    <2>2. ASSUME NEW page \in Page, NEW to \in {"unread", "broken", "ended"}, Done(f, page, to)
          PROVE  StartupInv'
      <3>1. DoneFor(f, to)
        BY <2>2, LoginDoneFor, ConsentDoneFor DEF Done, Forms
      <3>2. ~thrown
        BY <1>5, RetrievalSteps
      <3> QED
        BY <1>2, <1>5, <3>1, <3>2, DoneForTypes, DoneForKeepsFormInv
    <2> QED
      BY <1>5, <2>1, <2>2, RetrievalSteps
  <1>6. CASE UNCHANGED vars
    <2>1. UNCHANGED policyVars
      BY <1>6 DEF vars
    <2>2. FormTypeOK' /\ FormInv'
      BY <1>6 DEF vars, formVars, retrievalVars, dialogVars, FormTypeOK, FormInv,
         DialogsServed, Settled, LoginPage
    <2> QED
      BY <1>2, <2>1, <2>2
  <1> QED
    BY <1>1, <1>3, <1>4, <1>5, <1>6 DEF Next, Retrieval

\* The inductive invariant of a process that starts.
THEOREM StartupInductive == Spec => []StartupInv
  <1>1. Init => StartupInv
    BY InitPolicyTypes, InitLoaderInv, InitFormTypes, InitFormInv DEF Init, StartupInv, TypeOK
  <1> QED
    BY <1>1, StartupStep, PTL DEF Spec

\* Every variable of Startup is of its type in every behaviour.
THEOREM StartupTypeCorrect == Spec => []TypeOK
  BY StartupInductive, PTL DEF StartupInv

\* Assemblies find what was installed: by its name the highest version that has
\* a say, and by its version the first copy unless a later one overrides it.
THEOREM PoliciesAsInstalledHolds == Spec => []PoliciesAsInstalled
  <1>1. StartupInv => PoliciesAsInstalled
    BY DEF StartupInv, LoaderInv, PoliciesAsInstalled
  <1> QED
    BY <1>1, StartupInductive, PTL

\* No request waits for a form whose retrieval is over, and what it is answered
\* with is the form that was loaded, with the notice of its own login.
THEOREM DialogsServedHolds == Spec => []DialogsServed
  <1>1. StartupInv => DialogsServed
    BY DEF StartupInv, FormInv, DialogsServed
  <1> QED
    BY <1>1, StartupInductive, PTL
=============================================================================
