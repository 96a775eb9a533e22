---------------------------- MODULE ReleaseProofs ---------------------------
(***************************************************************************)
(* What release.sh keeps true of tags, pushes and releases, for any sources *)
(* and tags, however often it is run and whatever the developer does.        *)
(***************************************************************************)
EXTENDS Release, TLAPS

Published == {"push", "archive", "gh_create", "gh_upload"}

Late == Published \cup {"git_tag"}

\* What stays true of the maps from tags to trees.
TypeInv ==
    /\ work \in Trees /\ index \in Trees /\ HEAD \in Trees
    /\ step \in Steps \cup {"off"}
    /\ tag \in Tags \cup {""}
    /\ passed \subseteq Gates
    /\ DOMAIN local \subseteq Tags /\ \A t \in DOMAIN local : local[t] \in Trees
    /\ DOMAIN remote \subseteq Tags /\ \A t \in DOMAIN remote : remote[t] \in Trees
    /\ DOMAIN released \subseteq Tags /\ \A t \in DOMAIN released : released[t] \in Trees
    /\ DOMAIN assets \subseteq Tags /\ \A t \in DOMAIN assets : assets[t] \in Trees
    /\ DOMAIN tarball \subseteq Tags /\ \A t \in DOMAIN tarball : tarball[t] \in Trees
    /\ clean \in BOOLEAN
    /\ careful \subseteq Tags
    /\ earlier \subseteq DOMAIN local

\* Where the script is says what this run has done.
RunInv ==
    /\ step = "metal_gate" => "qa_gate" \in passed
    /\ step = "vulkan_gate" => {"qa_gate", "metal_gate"} \subseteq passed
    /\ step \in Late => passed = Gates /\ tag \in Tags
    /\ step \in Published => tag \in DOMAIN local /\ tag \notin earlier
    /\ step \in {"archive", "gh_create", "gh_upload"} => tag \in DOMAIN remote
    /\ step \in {"gh_create", "gh_upload"} => tag \in DOMAIN tarball /\ tarball[tag] = local[tag]

\* Everything on a server is what the tag names here.
TagInv ==
    /\ \A t \in DOMAIN remote : t \in DOMAIN local /\ remote[t] = local[t]
    /\ \A t \in DOMAIN released : t \in DOMAIN remote /\ released[t] = remote[t]
    /\ \A t \in DOMAIN assets : t \in DOMAIN remote /\ assets[t] = remote[t]

\* Fields of the step record, one by one.
LEMMA AfterFacts ==
  /\ After["regenerate_vulkan"] = "diff_vulkan" /\ After["diff_vulkan"] = "regenerate_metal"
  /\ After["regenerate_metal"] = "diff_metal" /\ After["diff_metal"] = "qa_gate"
  /\ After["qa_gate"] = "metal_gate" /\ After["metal_gate"] = "vulkan_gate"
  /\ After["vulkan_gate"] = "git_tag" /\ After["git_tag"] = "push"
  /\ After["push"] = "archive" /\ After["archive"] = "gh_create"
  /\ After["gh_create"] = "gh_upload" /\ After["gh_upload"] = "off"
  /\ Steps = {"regenerate_vulkan", "diff_vulkan", "regenerate_metal", "diff_metal", "qa_gate",
              "metal_gate", "vulkan_gate", "git_tag", "push", "archive", "gh_create", "gh_upload"}
BY DEF After, Steps

LEMMA EmptyFacts == DOMAIN Empty = {}
BY DEF Empty

\* Types are kept.
LEMMA TypesKept ==
  ASSUME TypeInv, RunInv, [Next]_vars
  PROVE  TypeInv'
<1> USE AfterFacts
<1>1. CASE Develop
  <2>1. ASSUME NEW s \in Sources  PROVE [work EXCEPT !.src = s] \in Trees
    BY DEF TypeInv, Trees
  <2>2. [work EXCEPT !.gen = Generated(work.src)] \in Trees
    BY DEF TypeInv, Trees, Generated
  <2> QED  BY <1>1, <2>1, <2>2 DEF Develop, TypeInv, published
<1>2. ASSUME NEW t \in Tags \cup {""}, Start(t)  PROVE TypeInv'
  BY <1>2 DEF Start, TypeInv, copies, published
<1>3. CASE Fails  BY <1>3 DEF Fails, TypeInv, copies, published
<1>4. CASE Regenerate
  <2>1. [work EXCEPT !.gen[Surface(step)] = work.src] \in Trees
    <3>1. Surface(step) \in Surfaces  BY DEF Surface, Surfaces
    <3> QED  BY <3>1 DEF TypeInv, Trees
  <2> QED  BY <1>4, <2>1 DEF Regenerate, GoOn, TypeInv, published
<1>5. CASE Diff  BY <1>5 DEF Diff, GoOn, TypeInv, copies, published
<1>6. CASE Gate  BY <1>6 DEF Gate, Gates, GoOn, TypeInv, copies, published
<1>7. CASE GitTag
  <2>1. tag \in Tags  BY <1>7 DEF GitTag, RunInv, Late
  <2>2. /\ DOMAIN local' \subseteq Tags /\ \A t \in DOMAIN local' : local'[t] \in Trees
        /\ DOMAIN local \subseteq DOMAIN local'
    BY <1>7, <2>1 DEF Put, GitTag, TypeInv
  <2> QED  BY <1>7, <2>1, <2>2 DEF GitTag, GoOn, TypeInv, copies, published
<1>8. CASE Push
  <2>1. tag \in Tags /\ tag \in DOMAIN local  BY <1>8 DEF Push, RunInv, Late, Published
  <2>2. DOMAIN remote' \subseteq Tags /\ \A t \in DOMAIN remote' : remote'[t] \in Trees
    BY <1>8, <2>1 DEF Put, Push, TypeInv
  <2> QED  BY <1>8, <2>2 DEF Push, GoOnOrNot, GoOn, TypeInv, copies
<1>9. CASE Archive
  <2>1. tag \in Tags /\ tag \in DOMAIN local  BY <1>9 DEF Archive, RunInv, Late, Published
  <2>2. DOMAIN tarball' \subseteq Tags /\ \A t \in DOMAIN tarball' : tarball'[t] \in Trees
    BY <1>9, <2>1 DEF Put, Archive, TypeInv
  <2> QED  BY <1>9, <2>2 DEF Archive, GoOn, TypeInv, copies, published
<1>10. CASE GhCreate
  <2>1. tag \in Tags  BY <1>10 DEF GhCreate, RunInv, Late, Published
  <2>2. DOMAIN released' \subseteq Tags /\ \A t \in DOMAIN released' : released'[t] \in Trees
    BY <1>10, <2>1 DEF Put, GhCreate, TypeInv
  <2> QED  BY <1>10, <2>2 DEF GhCreate, GoOnOrNot, GoOn, TypeInv, copies
<1>11. CASE GhUpload
  <2>1. tag \in Tags /\ tag \in DOMAIN tarball  BY <1>11 DEF GhUpload, RunInv, Late, Published
  <2>2. DOMAIN assets' \subseteq Tags /\ \A t \in DOMAIN assets' : assets'[t] \in Trees
    BY <1>11, <2>1 DEF Put, GhUpload, TypeInv
  <2> QED  BY <1>11, <2>2 DEF GhUpload, GoOnOrNot, GoOn, TypeInv, copies
<1>12. CASE UNCHANGED vars  BY <1>12 DEF vars, TypeInv, copies, published
<1> QED
  BY <1>1, <1>2, <1>3, <1>4, <1>5, <1>6, <1>7, <1>8, <1>9, <1>10, <1>11, <1>12 DEF Next

\* A run goes through the gates in order, then tags, pushes and publishes one tag.
LEMMA RunsKept ==
  ASSUME TypeInv, RunInv, [Next]_vars
  PROVE  RunInv'
<1> USE AfterFacts DEF Late, Published
<1>1. CASE Develop  BY <1>1 DEF Develop, RunInv, published
<1>2. ASSUME NEW t \in Tags \cup {""}, Start(t)  PROVE RunInv'
  BY <1>2 DEF Start, RunInv
<1>3. CASE Fails  BY <1>3 DEF Fails, RunInv
<1>4. CASE Regenerate  BY <1>4 DEF Regenerate, GoOn, RunInv
<1>5. CASE Diff  BY <1>5 DEF Diff, GoOn, RunInv
<1>6. CASE Gate
  <2>1. CASE step = "qa_gate"  BY <1>6, <2>1 DEF Gate, GoOn, RunInv
  <2>2. CASE step = "metal_gate"  BY <1>6, <2>2 DEF Gate, GoOn, RunInv
  <2>3. CASE step = "vulkan_gate"
    <3>1. passed' = Gates  BY <1>6, <2>3 DEF Gate, Gates, RunInv, TypeInv
    <3>2. tag # "" => tag \in Tags  BY DEF TypeInv
    <3> QED  BY <1>6, <2>3, <3>1, <3>2 DEF Gate, GoOn, RunInv
  <2> QED  BY <1>6, <2>1, <2>2, <2>3 DEF Gate, Gates
<1>7. CASE GitTag
  <2>1. tag \in DOMAIN local'  BY <1>7 DEF Put, GitTag
  <2>2. tag \notin earlier  BY <1>7 DEF GitTag, TypeInv
  <2> QED  BY <1>7, <2>1, <2>2 DEF GitTag, GoOn, RunInv
<1>8. CASE Push
  <2>1. tag \in DOMAIN remote'  BY <1>8 DEF Put, Push
  <2> QED  BY <1>8, <2>1 DEF Push, GoOnOrNot, GoOn, RunInv
<1>9. CASE Archive
  <2>1. tag \in DOMAIN tarball' /\ tarball'[tag] = local[tag]  BY <1>9 DEF Put, Archive
  <2> QED  BY <1>9, <2>1 DEF Archive, GoOn, RunInv, published
<1>10. CASE GhCreate  BY <1>10 DEF GhCreate, GoOnOrNot, GoOn, RunInv
<1>11. CASE GhUpload  BY <1>11 DEF GhUpload, GoOnOrNot, GoOn, RunInv
<1>12. CASE UNCHANGED vars  BY <1>12 DEF vars, RunInv, copies, published
<1> QED
  BY <1>1, <1>2, <1>3, <1>4, <1>5, <1>6, <1>7, <1>8, <1>9, <1>10, <1>11, <1>12 DEF Next

\* What the servers have under a tag stays what the tag names.
LEMMA TagsKept ==
  ASSUME TypeInv, RunInv, TagInv, [Next]_vars
  PROVE  TagInv'
<1> USE DEF Late, Published
<1>1. CASE Develop  BY <1>1 DEF Develop, TagInv, published
<1>2. ASSUME NEW t \in Tags \cup {""}, Start(t)  PROVE TagInv'
  BY <1>2 DEF Start, TagInv, published
<1>3. CASE Fails \/ Regenerate \/ Diff \/ Gate
  BY <1>3 DEF Fails, Regenerate, Diff, Gate, TagInv, published
<1>4. CASE GitTag
  <2>1. \A t \in DOMAIN local : t \in DOMAIN local' /\ local'[t] = local[t]
    BY <1>4 DEF Put, GitTag
  <2> QED  BY <1>4, <2>1 DEF GitTag, TagInv, published
<1>5. CASE Push
  <2>1. tag \in DOMAIN local  BY <1>5 DEF Push, RunInv
  <2>2. \A t \in DOMAIN remote' : t = tag \/ t \in DOMAIN remote  BY <1>5 DEF Put, Push
  <2>3. remote'[tag] = local[tag]  BY <1>5 DEF Put, Push
  <2>4. \A t \in DOMAIN remote : t \in DOMAIN remote' /\ remote'[t] = remote[t]
    BY <1>5 DEF Put, Push
  <2>5. UNCHANGED <<local, released, assets>>  BY <1>5 DEF Push
  <2> QED  BY <2>1, <2>2, <2>3, <2>4, <2>5 DEF TagInv
<1>6. CASE Archive  BY <1>6 DEF Archive, TagInv, published
<1>7. CASE GhCreate
  <2>1. tag \in DOMAIN remote  BY <1>7 DEF GhCreate, RunInv
  <2>2. \A t \in DOMAIN released' : t = tag \/ (t \in DOMAIN released /\ released'[t] = released[t])
    BY <1>7 DEF Put, GhCreate
  <2>3. released'[tag] = remote[tag]  BY <1>7, <2>1 DEF Put, GhCreate
  <2>4. UNCHANGED <<local, remote, assets>>  BY <1>7 DEF GhCreate
  <2> QED  BY <2>1, <2>2, <2>3, <2>4 DEF TagInv
<1>8. CASE GhUpload
  <2>1. tag \in DOMAIN remote /\ tarball[tag] = local[tag]  BY <1>8 DEF GhUpload, RunInv
  <2>2. \A t \in DOMAIN assets' : t = tag \/ (t \in DOMAIN assets /\ assets'[t] = assets[t])
    BY <1>8 DEF Put, GhUpload
  <2>3. assets'[tag] = remote[tag]  BY <1>8, <2>1 DEF Put, GhUpload, TagInv
  <2>4. UNCHANGED <<local, remote, released>>  BY <1>8 DEF GhUpload
  <2> QED  BY <2>1, <2>2, <2>3, <2>4 DEF TagInv
<1>9. CASE UNCHANGED vars  BY <1>9 DEF vars, TagInv, published
<1> QED  BY <1>1, <1>2, <1>3, <1>4, <1>5, <1>6, <1>7, <1>8, <1>9 DEF Next

LEMMA Invariant == Spec => [](TypeInv /\ RunInv /\ TagInv)
<1>1. Init => TypeInv /\ RunInv /\ TagInv
  BY EmptyFacts DEF Init, TypeInv, RunInv, TagInv, Late, Published
<1>2. TypeInv /\ RunInv /\ TagInv /\ [Next]_vars => (TypeInv /\ RunInv /\ TagInv)'
  BY TypesKept, RunsKept, TagsKept
<1> QED  BY <1>1, <1>2, PTL DEF Spec

\* Every copy, tag and tarball is a tree of the repository.
THEOREM ReleaseTypes == Spec => []TypeOK
<1>1. TypeInv => TypeOK  BY DEF TypeInv, TypeOK
<1> QED  BY <1>1, Invariant, PTL

\* What a release offers is what its tag names on origin.
THEOREM ReleasesMatch == Spec => []ReleaseMatchesTag
<1>1. TagInv => ReleaseMatchesTag  BY DEF TagInv, ReleaseMatchesTag
<1> QED  BY <1>1, Invariant, PTL

\* Only three steps publish anything, all after the gates and under a tag of the same run.
LEMMA PublishingSteps ==
  ASSUME TypeInv, RunInv, [Next]_vars, published' # published
  PROVE  /\ passed = Gates /\ tag \notin earlier
         /\ \E x, y, z : /\ remote' \in {remote, Put(remote, tag, x)}
                         /\ released' \in {released, Put(released, tag, y)}
                         /\ assets' \in {assets, Put(assets, tag, z)}
<1>1. Push \/ GhCreate \/ GhUpload
  BY DEF Next, Develop, Start, Fails, Regenerate, Diff, Gate, GitTag, Archive, vars, published
<1>2. step \in Published  BY <1>1 DEF Push, GhCreate, GhUpload, Published
<1>3. CASE Push  BY <1>2, <1>3 DEF Push, RunInv, Late, Published
<1>4. CASE GhCreate  BY <1>2, <1>4 DEF GhCreate, RunInv, Late, Published
<1>5. CASE GhUpload  BY <1>2, <1>5 DEF GhUpload, RunInv, Late, Published
<1> QED  BY <1>1, <1>3, <1>4, <1>5

\* Nothing leaves the machine before the three gates passed in the same run.
THEOREM Gated == Spec => GatedFirst
<1>1. TypeInv /\ RunInv /\ [Next]_vars => [published' # published => passed = Gates]_vars
  BY PublishingSteps
<1> QED  BY <1>1, Invariant, PTL DEF Spec, GatedFirst

\* Writing at one tag leaves what is under another as it was.
LEMMA PutElsewhere ==
  ASSUME NEW f, NEW t, NEW u, NEW x, t # u
  PROVE  Under(Put(f, u, x), t) = Under(f, t)
BY DEF Under, Put

\* No run changes or adds anything on a server under a tag made before it began.
THEOREM OneRunATag == Spec => NoRetry
<1>1. ASSUME TypeInv, RunInv, [Next]_vars  PROVE EarlierKept
  <2>1. CASE published' = published  BY <2>1 DEF published, EarlierKept
  <2>2. CASE published' # published
    <3>1. PICK x, y, z : /\ remote' \in {remote, Put(remote, tag, x)}
                         /\ released' \in {released, Put(released, tag, y)}
                         /\ assets' \in {assets, Put(assets, tag, z)}
      BY <1>1, <2>2, PublishingSteps
    <3>2. \A t \in earlier : t # tag  BY <1>1, <2>2, PublishingSteps
    <3> QED  BY <3>1, <3>2, PutElsewhere DEF EarlierKept
  <2> QED  BY <2>1, <2>2
<1>2. TypeInv /\ RunInv /\ [Next]_vars => [EarlierKept]_vars  BY <1>1
<1> QED  BY <1>2, Invariant, PTL DEF Spec, NoRetry

-----------------------------------------------------------------------------
(* A clean run, and the tags that come of one.                               *)

\* How far a clean run has shown HEAD to be what it tests.
CleanInv ==
    clean /\ step # "off" =>
        /\ index = HEAD /\ work.src = index.src
        /\ tag # "" => readme_ver[work.src] = tag
        /\ step = "diff_vulkan" => work.gen["vulkan"] = work.src
        /\ step \notin {"regenerate_vulkan", "diff_vulkan"} => index.gen["vulkan"] = work.src
        /\ step = "diff_metal" => work.gen["metal"] = work.src
        /\ step \notin {"regenerate_vulkan", "diff_vulkan", "regenerate_metal", "diff_metal"} =>
               index.gen["metal"] = work.src
        /\ step \in Late \cup {"metal_gate", "vulkan_gate"} => work.src \in green

\* What a tag of a clean run names.
CarefulInv ==
    \A t \in careful :
        /\ t \in DOMAIN local
        /\ local[t].src \in green
        /\ local[t].gen = Generated(local[t].src)
        /\ readme_ver[local[t].src] = t

\* A clean run stays one only while nothing it has shown is undone.
LEMMA CleanKept ==
  ASSUME TypeInv, RunInv, CleanInv, [Next]_vars
  PROVE  CleanInv'
<1> USE AfterFacts DEF Late, Published
<1>1. CASE Develop  BY <1>1 DEF Develop, CleanInv
<1>2. ASSUME NEW t \in Tags \cup {""}, Start(t)  PROVE CleanInv'
  BY <1>2 DEF Start, CleanInv, copies
<1>3. CASE Fails  BY <1>3 DEF Fails, CleanInv
<1>4. CASE Regenerate
  <2>1. /\ work'.src = work.src /\ work'.gen[Surface(step)] = work.src
        /\ UNCHANGED <<green, readme_ver, index, HEAD, tag, clean>>
    <3>1. Surface(step) \in Surfaces  BY DEF Surface, Surfaces
    <3> QED  BY <1>4, <3>1 DEF Regenerate, TypeInv, Trees
  <2>2. CASE step = "regenerate_vulkan"
    <3>1. step' = "diff_vulkan"  BY <1>4, <2>2 DEF Regenerate, GoOn
    <3> QED  BY <2>1, <2>2, <3>1 DEF CleanInv, Surface
  <2>3. CASE step = "regenerate_metal"
    <3>1. step' = "diff_metal"  BY <1>4, <2>3 DEF Regenerate, GoOn
    <3> QED  BY <2>1, <2>3, <3>1 DEF CleanInv, Surface
  <2> QED  BY <1>4, <2>2, <2>3 DEF Regenerate
<1>5. CASE Diff
  <2>1. work.gen[Surface(step)] = index.gen[Surface(step)]
        /\ UNCHANGED <<green, readme_ver, work, index, HEAD, tag, clean>>
    BY <1>5 DEF Diff, copies
  <2>2. CASE step = "diff_vulkan"
    <3>1. step' = "regenerate_metal"  BY <1>5, <2>2 DEF Diff, GoOn
    <3> QED  BY <2>1, <2>2, <3>1 DEF CleanInv, Surface
  <2>3. CASE step = "diff_metal"
    <3>1. step' = "qa_gate"  BY <1>5, <2>3 DEF Diff, GoOn
    <3> QED  BY <2>1, <2>3, <3>1 DEF CleanInv, Surface
  <2> QED  BY <1>5, <2>2, <2>3 DEF Diff
<1>6. CASE Gate
  <2>1. UNCHANGED <<green, readme_ver, work, index, HEAD, tag>>
        /\ (clean' => clean /\ work.src \in green)
    <3>1. CASE work.src \in green /\ clean' = clean  BY <1>6, <3>1 DEF Gate, copies
    <3>2. CASE clean' = FALSE  BY <1>6, <3>2 DEF Gate, copies
    <3> QED  BY <1>6, <3>1, <3>2 DEF Gate
  <2>2. step \in Gates /\ step' \in {"metal_gate", "vulkan_gate", "git_tag", "off"}
    BY <1>6 DEF Gate, Gates, GoOn
  <2> QED  BY <2>1, <2>2 DEF CleanInv, Gates
<1>7. CASE GitTag  BY <1>7 DEF GitTag, GoOn, CleanInv, copies
<1>8. CASE Push  BY <1>8 DEF Push, GoOnOrNot, GoOn, CleanInv, copies
<1>9. CASE Archive  BY <1>9 DEF Archive, GoOn, CleanInv, copies
<1>10. CASE GhCreate  BY <1>10 DEF GhCreate, GoOnOrNot, GoOn, CleanInv, copies
<1>11. CASE GhUpload  BY <1>11 DEF GhUpload, GoOnOrNot, GoOn, CleanInv, copies
<1>12. CASE UNCHANGED vars  BY <1>12 DEF vars, CleanInv, copies
<1> QED
  BY <1>1, <1>2, <1>3, <1>4, <1>5, <1>6, <1>7, <1>8, <1>9, <1>10, <1>11, <1>12 DEF Next

\* A tag, once made, keeps naming what it names.
LEMMA CarefulKept ==
  ASSUME TypeInv, RunInv, CleanInv, CarefulInv, [Next]_vars
  PROVE  CarefulInv'
<1>1. CASE GitTag
  <2>1. /\ tag \notin DOMAIN local /\ local' = Put(local, tag, HEAD)
        /\ careful' = (IF clean THEN careful \cup {tag} ELSE careful)
        /\ UNCHANGED <<green, readme_ver>> /\ step = "git_tag"
    BY <1>1 DEF GitTag
  <2>2. \A t \in DOMAIN local : t \in DOMAIN local' /\ local'[t] = local[t]
    BY <2>1 DEF Put
  <2>3. tag \in DOMAIN local' /\ local'[tag] = HEAD  BY <2>1 DEF Put
  <2>4. ASSUME clean
        PROVE  HEAD.src \in green /\ HEAD.gen = Generated(HEAD.src) /\ readme_ver[HEAD.src] = tag
    <3>1. /\ index = HEAD /\ work.src = HEAD.src /\ HEAD.src \in green
          /\ HEAD.gen["vulkan"] = HEAD.src /\ HEAD.gen["metal"] = HEAD.src
          /\ tag # "" => readme_ver[HEAD.src] = tag
      BY <2>1, <2>4 DEF CleanInv, Late
    <3>2. tag # ""  BY <2>1, TagsAssumption DEF RunInv, Late
    <3>3. HEAD.gen \in [Surfaces -> Sources]  BY DEF TypeInv, Trees
    <3>4. HEAD.gen = Generated(HEAD.src)  BY <3>1, <3>3 DEF Generated, Surfaces
    <3> QED  BY <3>1, <3>2, <3>4
  <2> QED  BY <2>1, <2>2, <2>3, <2>4 DEF CarefulInv
<1>2. CASE UNCHANGED <<careful, local, green, readme_ver>>  BY <1>2 DEF CarefulInv
<1>3. GitTag \/ UNCHANGED <<careful, local, green, readme_ver>>
  BY DEF Next, Develop, Start, Fails, Regenerate, Diff, Gate, Push, Archive, GhCreate, GhUpload,
         vars
<1> QED  BY <1>1, <1>2, <1>3

\* A clean run publishes only what the gates passed, in sync with its sources and under its name.
THEOREM CleanReleases == Spec => []CarefulReleaseIsChecked
<1>1. Init => CleanInv /\ CarefulInv
  BY DEF Init, CleanInv, CarefulInv
<1>2. TypeInv /\ RunInv /\ CleanInv /\ CarefulInv /\ [Next]_vars => (CleanInv /\ CarefulInv)'
  BY CleanKept, CarefulKept
<1>3. TagInv /\ CarefulInv => CarefulReleaseIsChecked
  BY DEF TagInv, CarefulInv, CarefulReleaseIsChecked
<1> QED  BY <1>1, <1>2, <1>3, Invariant, PTL DEF Spec
=============================================================================
