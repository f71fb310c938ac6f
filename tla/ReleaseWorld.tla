---------------------------- MODULE ReleaseWorld ----------------------------
(***************************************************************************)
(* What the release scripts look at: the working tree, the installed       *)
(* toolchain and its private attestation, the published onedir artifact    *)
(* under dist/, the receipt file given to the acceptance run; and the      *)
(* checks of release_identity.py and dist_manifest.py over them.  A digest *)
(* is the value itself: a build identity (build_id), an artifact           *)
(* (artifact_id, file count and size) and its executable (exe_sha256) are  *)
(* equal exactly when their bytes are.                                     *)
(***************************************************************************)
EXTENDS Naturals

CONSTANTS
  None,
  Commits,    \* commits the developer may be on
  Tools,      \* toolchains that may be installed
  Locked,     \* those scripts/build_lock.json accepts
  MaxEvents   \* bound on what the developer and the machine do meanwhile

ASSUME ReleaseAssumption ==
  /\ None \notin Commits \cup Tools
  /\ Locked \subseteq Tools
  /\ MaxEvents \in Nat

VARIABLES
  head, clean,  \* HEAD, and whether the working tree is clean
  tools,        \* the toolchain installed
  attested,     \* .release/toolchain-attestation.json
  dist,         \* dist/RetirementPet, or None
  using,        \* who runs an executable from it
  supplied,     \* the receipt file of the acceptance run, None when it is none
  events

world == <<head, clean, tools, attested, dist, using, supplied, events>>

Attestations == [of : Tools, stamp : 0..MaxEvents]

\* The embedded build-info.json and the identity compiled into the EXE.
BuildInfo == [commit : Commits, attest : Attestations, run : {0, 1}]

\* rest: the other files, as built; short of one that is not required; or
\* against the policy (a required file missing, a forbidden one, too large).
Artifacts == [exe : BuildInfo, info : BuildInfo, rest : {"built", "short", "bad"}]

\* None is neither of these, nor an outcome, a verdict or an exit code.
ASSUME NoneAssumption ==
  /\ None \notin Attestations /\ None \notin BuildInfo /\ None \notin Artifacts
  /\ None \notin {"PASS", "FAIL", "INVALID", "SKIP", "GO", "NO-GO", "INVALID_RUN"}
  /\ None \notin {0, 1, 2}

WorldTypeOK ==
  /\ head \in Commits /\ clean \in BOOLEAN /\ tools \in Tools
  /\ attested \in Attestations
  /\ dist \in Artifacts \cup {None} /\ supplied \in Artifacts \cup {None}
  /\ using \subseteq {"gate", "stray"}
  /\ events \in 0..MaxEvents

-----------------------------------------------------------------------------
\* git_identity / current_source
Source == [commit |-> head, clean |-> clean]

\* The packages and versions the public lock names are the ones installed.
LockAccepts == tools \in Locked

\* The fingerprints taken now are those of the attestation.
Attested(attestation) == attestation.of = tools

ToolchainVerified(attestation, expected) ==
  /\ LockAccepts
  /\ Attested(attestation)
  /\ expected \in {None, attestation}

\* Every build input of the staged tree is the blob of that commit.
SnapshotMatches(staged, commit) == staged = commit

\* validate_distribution: src is what the caller believes of the source, r
\* the receipt expected or None, probed the identity the running EXE gave.
Distribution(a, src, expected, r, needsProbe, probed) ==
  /\ a # None
  /\ needsProbe => probed = a.info
  /\ a.rest # "bad"
  /\ expected \in {None, a.info}
  /\ a.info.commit = src.commit
  /\ src.clean
  /\ r \in {None, a}

\* What a probed executable answers: its identity, or nothing that is one.
Answers(a) == IF a = None THEN {None} ELSE {a.exe, None}

\* A candidate may be replaced only when no process runs from it.
Movable == using = {}

-----------------------------------------------------------------------------
\* The developer and the machine.
Event == events < MaxEvents /\ events' = events + 1

EditSource ==
  /\ Event /\ clean' = ~clean
  /\ UNCHANGED <<head, tools, attested, dist, using, supplied>>

Commit ==
  /\ Event
  /\ head' \in Commits \ {head} /\ clean' = TRUE
  /\ UNCHANGED <<tools, attested, dist, using, supplied>>

Upgrade ==
  /\ Event
  /\ tools' \in Tools \ {tools}
  /\ UNCHANGED <<head, clean, attested, dist, using, supplied>>

\* release_identity.py attest-toolchain
Attest ==
  /\ Event
  /\ LockAccepts
  /\ attested' = [of |-> tools, stamp |-> events + 1]
  /\ UNCHANGED <<head, clean, tools, dist, using, supplied>>

\* What a build with an accepted toolchain writes as its receipt.
Receipts ==
  {[exe |-> i, info |-> i, rest |-> "built"] : i \in {b \in BuildInfo : b.attest.of \in Locked}}

\* Another build's receipt, or nothing that is one, takes the place of the file.
ReceiptReplaced ==
  /\ Event
  /\ supplied' \in (Receipts \cup {None}) \ {supplied}
  /\ UNCHANGED <<head, clean, tools, attested, dist, using>>

\* A cleaner or a virus scanner takes a file of the published artifact.
FileLost ==
  /\ Event
  /\ dist # None /\ dist.rest = "built"
  /\ dist' = [dist EXCEPT !.rest = "short"]
  /\ UNCHANGED <<head, clean, tools, attested, using, supplied>>

\* A pet left behind by a harness, or started by hand, ends.
StrayCloses ==
  /\ "stray" \in using /\ using' = using \ {"stray"}
  /\ UNCHANGED <<head, clean, tools, attested, dist, supplied, events>>

WorldStep == \/ EditSource \/ Commit \/ Upgrade \/ Attest \/ ReceiptReplaced
             \/ FileLost \/ StrayCloses
=============================================================================
