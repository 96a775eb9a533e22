------------------------------- MODULE Release ------------------------------
(***************************************************************************)
(* scripts/release.sh: regenerate both GPU surfaces, compare them with     *)
(* git, run the three gates, then tag, push and publish. The script works  *)
(* on three copies of the repository: it regenerates, compares and tests   *)
(* the working tree, compares it with the index, and tags HEAD. A          *)
(* developer may edit, generate, stage and commit at any time, the hour    *)
(* the gates take included, and may run the script again after it failed.  *)
(***************************************************************************)
EXTENDS Naturals, FiniteSets

CONSTANTS Sources,     \* states of everything that is not generated
          Tags,
          MaxMoves     \* bound: what the developer does to the repository

ASSUME MaxMovesAssumption == MaxMoves \in Nat

ASSUME TagsAssumption == "" \notin Tags

Surfaces == {"vulkan", "metal"}

Gates == {"qa_gate", "metal_gate", "vulkan_gate"}

\* Generated files are told apart by the sources they were generated from.
Trees == [src : Sources, gen : [Surfaces -> Sources]]

VARIABLES green,       \* the sources that pass every gate
          readme_ver,  \* the version line of README.md in each of the sources
          work, index, HEAD,
          step,        \* where release.sh is, "off" when it is not running
          tag,         \* its argument, "" to verify only
          passed,      \* the gates that passed in this run
          local, remote,      \* tags of the clone and of origin: tag -> tree
          released, assets,   \* GitHub releases, and the tarballs attached: tag -> tree
          tarball,     \* /tmp/cheatah-gpu-<tag>.tar.gz: tag -> tree
          earlier,     \* the tags there were when this run began
          clean,       \* all was committed when the run began, nobody touched anything since and no
                       \* gate was skipped
          careful,     \* the tags that were made in a clean run
          moves

copies == <<work, index, HEAD>>
published == <<remote, released, assets>>
vars == <<green, readme_ver, copies, step, tag, passed, earlier, local, published, tarball, clean, careful, moves>>

\* f with x at t.
Put(f, t, x) == [u \in DOMAIN f \cup {t} |-> IF u = t THEN x ELSE f[u]]

\* What f has at t, if anything.
Under(f, t) == {f[u] : u \in DOMAIN f \cap {t}}

Empty == [t \in {} |-> 0]

Generated(src) == [s \in Surfaces |-> src]

Init ==
    /\ green \in SUBSET Sources
    /\ readme_ver \in [Sources -> Tags]
    /\ work \in Trees
    /\ index = work
    /\ HEAD = work
    /\ step = "off"
    /\ tag = ""
    /\ passed = {}
    /\ earlier = {}
    /\ local = Empty /\ remote = Empty /\ released = Empty /\ assets = Empty /\ tarball = Empty
    /\ clean = FALSE
    /\ careful = {}
    /\ moves = 0

-----------------------------------------------------------------------------
(* The developer *)

Develop ==
    /\ moves < MaxMoves
    /\ moves' = moves + 1
    /\ clean' = FALSE
    /\ \/ \E s \in Sources : work' = [work EXCEPT !.src = s] /\ UNCHANGED <<index, HEAD>>
       \/ work' = [work EXCEPT !.gen = Generated(work.src)] /\ UNCHANGED <<index, HEAD>>
       \/ index' = work /\ UNCHANGED <<work, HEAD>>
       \/ HEAD' = index /\ UNCHANGED <<work, index>>
    /\ UNCHANGED <<green, readme_ver, step, tag, passed, earlier, local, published, tarball, careful>>

-----------------------------------------------------------------------------
(* The script *)

\* The steps in order; with no tag the script is over after the gates.
After == [regenerate_vulkan |-> "diff_vulkan", diff_vulkan |-> "regenerate_metal",
          regenerate_metal |-> "diff_metal", diff_metal |-> "qa_gate",
          qa_gate |-> "metal_gate", metal_gate |-> "vulkan_gate", vulkan_gate |-> "git_tag",
          git_tag |-> "push", push |-> "archive", archive |-> "gh_create",
          gh_create |-> "gh_upload", gh_upload |-> "off"]

Steps == DOMAIN After

Surface(s) == IF s \in {"regenerate_vulkan", "diff_vulkan"} THEN "vulkan" ELSE "metal"

\* README.md must name the tag.
Start(t) ==
    /\ step = "off"
    /\ t # "" => readme_ver[work.src] = t
    /\ step' = "regenerate_vulkan"
    /\ tag' = t
    /\ passed' = {}
    /\ earlier' = DOMAIN local
    /\ clean' = (work = index /\ index = HEAD)
    /\ UNCHANGED <<green, readme_ver, copies, local, published, tarball, careful, moves>>

GoOn == step' = IF step = "vulkan_gate" /\ tag = "" THEN "off" ELSE After[step]

\* A step that talks to a server may have its effect and fail nevertheless.
GoOnOrNot == GoOn \/ step' = "off"

\* A step fails, and so does the script.
Fails ==
    /\ step \in Steps
    /\ step' = "off"
    /\ UNCHANGED <<green, readme_ver, copies, tag, passed, earlier, local, published, tarball, clean, careful, moves>>

Regenerate ==
    /\ step \in {"regenerate_vulkan", "regenerate_metal"}
    /\ work' = [work EXCEPT !.gen[Surface(step)] = work.src]
    /\ GoOn
    /\ UNCHANGED <<green, readme_ver, index, HEAD, tag, passed, earlier, local, published, tarball, clean, careful, moves>>

\* Mutant: a surface that differs is reported, not refused.
DiffIgnored ==
    /\ step \in {"diff_vulkan", "diff_metal"}
    /\ GoOn
    /\ UNCHANGED <<green, readme_ver, copies, tag, passed, earlier, local, published, tarball, clean, careful, moves>>

\* git diff --quiet: the working tree against the index.
Diff ==
    /\ step \in {"diff_vulkan", "diff_metal"}
    /\ work.gen[Surface(step)] = index.gen[Surface(step)]
    /\ GoOn
    /\ UNCHANGED <<green, readme_ver, copies, tag, passed, earlier, local, published, tarball, clean, careful, moves>>

\* Mutant: a gate that fails is reported, not refused.
GateIgnored ==
    /\ step \in Gates
    /\ passed' = IF work.src \in green THEN passed \cup {step} ELSE passed
    /\ GoOn
    /\ UNCHANGED <<green, readme_ver, copies, tag, earlier, local, published, tarball, clean, careful, moves>>

\* A gate tests the working tree. The QA gate also compares README.md with the index, and passes
\* untested where QA_GATE_SKIP=1 is set.
Gate ==
    /\ step \in Gates
    /\ \/ /\ work.src \in green
          /\ step = "qa_gate" => readme_ver[work.src] = readme_ver[index.src]
          /\ clean' = clean
       \/ step = "qa_gate" /\ clean' = FALSE
    /\ passed' = passed \cup {step}
    /\ GoOn
    /\ UNCHANGED <<green, readme_ver, copies, tag, earlier, local, published, tarball, careful, moves>>

\* Mutant: git tag -f, a tag that exists is moved.
GitTagForced ==
    /\ step = "git_tag"
    /\ local' = Put(local, tag, HEAD)
    /\ careful' = IF clean THEN careful \cup {tag} ELSE careful
    /\ GoOn
    /\ UNCHANGED <<green, readme_ver, copies, tag, passed, earlier, published, tarball, clean, moves>>

\* git tag -a: it tags HEAD, and fails when the tag exists.
GitTag ==
    /\ step = "git_tag"
    /\ tag \notin DOMAIN local
    /\ local' = Put(local, tag, HEAD)
    /\ careful' = IF clean THEN careful \cup {tag} ELSE careful
    /\ GoOn
    /\ UNCHANGED <<green, readme_ver, copies, tag, passed, earlier, published, tarball, clean, moves>>

\* Mutant: a push that fails is ignored.
PushIgnored ==
    /\ step = "push"
    /\ remote' \in {remote, Put(remote, tag, local[tag])}
    /\ GoOn
    /\ UNCHANGED <<green, readme_ver, copies, tag, passed, earlier, local, released, assets, tarball, clean, careful, moves>>

\* git push of one tag: origin takes it when it is new or the same there.
Push ==
    /\ step = "push"
    /\ tag \in DOMAIN remote => remote[tag] = local[tag]
    /\ remote' = Put(remote, tag, local[tag])
    /\ GoOnOrNot
    /\ UNCHANGED <<green, readme_ver, copies, tag, passed, earlier, local, released, assets, tarball, clean, careful, moves>>

\* git archive of the tag.
Archive ==
    /\ step = "archive"
    /\ tarball' = Put(tarball, tag, local[tag])
    /\ GoOn
    /\ UNCHANGED <<green, readme_ver, copies, tag, passed, earlier, local, published, clean, careful, moves>>

\* gh release create: a release on the tag origin has; gh makes the tag when origin has none.
GhCreate ==
    /\ step = "gh_create"
    /\ tag \notin DOMAIN released
    /\ released' = Put(released, tag, IF tag \in DOMAIN remote THEN remote[tag] ELSE HEAD)
    /\ GoOnOrNot
    /\ UNCHANGED <<green, readme_ver, copies, tag, passed, earlier, local, remote, assets, tarball, clean, careful, moves>>

GhUpload ==
    /\ step = "gh_upload"
    /\ tag \notin DOMAIN assets
    /\ assets' = Put(assets, tag, tarball[tag])
    /\ GoOnOrNot
    /\ UNCHANGED <<green, readme_ver, copies, tag, passed, earlier, local, remote, released, tarball, clean, careful, moves>>

Next ==
    \/ Develop
    \/ \E t \in Tags \cup {""} : Start(t)
    \/ Fails
    \/ Regenerate \/ Diff \/ Gate
    \/ GitTag \/ Push \/ Archive \/ GhCreate \/ GhUpload

Spec == Init /\ [][Next]_vars

-----------------------------------------------------------------------------
(* Properties *)

TypeOK ==
    /\ {work, index, HEAD} \subseteq Trees
    /\ step \in Steps \cup {"off"}
    /\ tag \in Tags \cup {""}
    /\ passed \subseteq Gates
    /\ \A f \in {local, remote, released, assets, tarball} :
           DOMAIN f \subseteq Tags /\ \A t \in DOMAIN f : f[t] \in Trees
    /\ clean \in BOOLEAN
    /\ careful \subseteq Tags

\* "A release can NEVER ship generated code without checking it" (release.sh:12-14), as far as it is
\* true: a tag origin has names sources that pass the gates, with both surfaces generated from them
\* and a README that names it, if all was committed when the run began, nothing was touched in it and
\* QA_GATE_SKIP was not set.
CarefulReleaseIsChecked ==
    \A t \in careful \cap DOMAIN remote :
        /\ remote[t].src \in green
        /\ remote[t].gen = Generated(remote[t].src)
        /\ readme_ver[remote[t].src] = t

\* Whatever the developer did meanwhile, nothing leaves the machine before the three gates passed in
\* the same run (release.sh:56-64 against 72-78).
GatedFirst == [][published' # published => passed = Gates]_vars

\* What a release offers is what its tag on origin names, source tarball included (release.sh:73-78).
ReleaseMatchesTag ==
    \A t \in DOMAIN released :
        /\ t \in DOMAIN remote /\ released[t] = remote[t]
        /\ t \in DOMAIN assets => assets[t] = remote[t]

\* A step leaves what the servers have under the tags of earlier runs as it is.
EarlierKept ==
    \A t \in earlier : /\ Under(remote', t) = Under(remote, t)
                       /\ Under(released', t) = Under(released, t)
                       /\ Under(assets', t) = Under(assets, t)

\* A tag stands for one run: under a tag that an earlier run made, whether that run ended well or
\* failed anywhere, nothing on a server appears or changes; a release that failed halfway stays as it
\* is (release.sh:72-78).
NoRetry == [][EarlierKept]_vars

=============================================================================
