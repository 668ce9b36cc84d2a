----------------------------- MODULE GitEvidence -----------------------------
(***************************************************************************)
(* The Git evidence of a checkpoint and its comparison after a rollback:   *)
(* git_snapshot asks Git and compare_git_snapshots decides whether a human *)
(* must look.  Any query may fail.  The evidence is advice: nothing of     *)
(* .git is ever rewritten.                                                 *)
(***************************************************************************)
EXTENDS Naturals

CONSTANTS
  Contents,  \* what a query may print
  Nothing    \* an empty text; no query prints a digest of it

Queries == {"head", "branch", "index", "status"}

\* What a repository would answer: a detached head has no branch name, and a
\* repository without a commit no head; an empty index listing is a listing.
Repositories ==
  [git : BOOLEAN, head : Contents \cup {Nothing},
   branch : Contents \cup {Nothing}, index : Contents, status : Contents]

\* run_bytes, run_text and _git_digest: a failed query is the empty text, and
\* so is the digest of its output; the digest of an output never is.
Answer(repository, query, failed) ==
  IF query \in failed THEN Nothing ELSE repository[query]

NoEvidence ==
  [is_git |-> FALSE, head |-> Nothing, branch |-> Nothing,
   index |-> Nothing, status |-> Nothing]

Snapshot(repository, failed) ==
  IF ~repository.git THEN NoEvidence
  ELSE [is_git |-> TRUE,
        head   |-> Answer(repository, "head", failed),
        branch |-> Answer(repository, "branch", failed),
        index  |-> Answer(repository, "index", failed),
        status |-> Answer(repository, "status", failed)]

\* digest_changed has a third answer; the two texts are compared as they are.
DigestChanged(left, right) ==
  IF left = Nothing \/ right = Nothing THEN "unknown"
  ELSE IF left = right THEN "no" ELSE "yes"

MetadataChanged(before, after) ==
  \/ before.head # after.head
  \/ before.branch # after.branch
  \/ DigestChanged(before.index, after.index) = "yes"

Unknown(before, after) ==
  "unknown" \in {DigestChanged(before.index, after.index),
                 DigestChanged(before.status, after.status)}

\* compare_git_snapshots(...)["requires_git_review"].
RequiresReview(before, after) ==
  \/ before.is_git # after.is_git
  \/ /\ before.is_git /\ after.is_git
     /\ \/ MetadataChanged(before, after)
        \/ DigestChanged(before.status, after.status) = "yes"
        \/ Unknown(before, after)

=============================================================================
