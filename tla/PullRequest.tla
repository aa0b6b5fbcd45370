---------------------------- MODULE PullRequest ----------------------------
(***************************************************************************)
(* applyExactChangesAndOpenPullRequest (apps/worker/src/github/client.ts): *)
(* call by call, the approved changes become a commit on the base they     *)
(* were verified on, a branch with a name derived from the operation, and  *)
(* one pull request.  Somebody may push to the default branch, answers are *)
(* lost, and the operation is repeated.                                    *)
(*                                                                         *)
(* Abstractions.  One repository; a head of its default branch is its      *)
(* number.  Trees and blobs are named by their content, so that making     *)
(* them changes nothing; what is left of a tree is whether it is the one   *)
(* that was verified.  Every commit made is a number of its own: its time  *)
(* is part of it.                                                          *)
(***************************************************************************)
EXTENDS Naturals, Sequences, FiniteSets

CONSTANTS
  Operations,  \* operations: an operation key with the request made for it
  RequestOf,   \* what is asked in each of them
  Workers,     \* calls of the client at a time
  MaxPushes,   \* bound: pushes to the default branch
  MaxCommits,  \* bound: commits made
  None

(* base: the head the changes were verified on; digest: the changes have   *)
(* the digest that was approved; workflow: a workflow file is touched;     *)
(* second: the id of the workflow approval; exact: the changes give the    *)
(* tree that was verified.                                                 *)
Request == [base : 0..MaxPushes, digest : BOOLEAN, workflow : BOOLEAN,
            second : {"none", "the same", "another"}, exact : BOOLEAN]

PullRequestAssumption ==
  /\ RequestOf \in [Operations -> Request]
  /\ MaxPushes \in Nat /\ MaxCommits \in Nat /\ None \notin Nat

VARIABLES
  head,      \* head of the default branch
  commits,   \* the commits made: of which operation, its tree exact or not, its parent
  branches,  \* the head of the branch of every operation, or None
  pulls,     \* open pull requests of every branch, by the head they were opened with
  calls      \* calls under way

vars == <<head, commits, branches, pulls, calls>>

NoCall == [step |-> "idle", op |-> None, expected |-> None, commit |-> None]

Init ==
  /\ head = 0 /\ commits = <<>>
  /\ branches = [o \in Operations |-> None]
  /\ pulls = [o \in Operations |-> {}]
  /\ calls = [w \in Workers |-> NoCall]

-----------------------------------------------------------------------------
Goes(w, step) == calls' = [calls EXCEPT ![w].step = step]

(* computeGitHubChangesDigest of what is to be applied is the digest that  *)
(* was approved.                                                           *)
ChangesApproved(request) == request.digest

(* The checks before a credential is asked for; a change of a workflow     *)
(* needs an approval of its own.                                           *)
Acceptable(request) ==
  ChangesApproved(request) /\ (request.workflow => request.second = "another")

(* A call for an operation, the first or a repeated one.                   *)
Begin(w) ==
  /\ calls[w].step \in {"idle", "answered", "branch_conflict", "failed"}
  /\ Len(commits) < MaxCommits
  /\ \E o \in Operations :
       /\ Acceptable(RequestOf[o])
       /\ \E expected \in {None} \union {c \in DOMAIN commits : commits[c].op = o} :
            calls' = [calls EXCEPT ![w] =
              [step |-> "base", op |-> o, expected |-> expected, commit |-> None]]
  /\ UNCHANGED <<head, commits, branches, pulls>>

RequestIn(w) == RequestOf[calls[w].op]

(* #assertBaseHead, three times on the way.                                *)
BaseStands(w) == head = RequestIn(w).base

AssertBaseHead(w) ==
  /\ \E pair \in {<<"base", "tree">>, <<"base again", "branch">>, <<"base at last", "check">>} :
       calls[w].step = pair[1] /\ Goes(w, IF BaseStands(w) THEN pair[2] ELSE "failed")
  /\ UNCHANGED <<head, commits, branches, pulls>>

TreeMatchesUnchecked(request) == TRUE

(* The tree that GitHub made, and its computeGitHubTreeDigest, are the     *)
(* ones that were verified.                                                *)
TreeMatches(request) == request.exact

(* #getCommit, #getTree, #createBlobsAndTree, and the comparison.          *)
Materialize(w) ==
  /\ calls[w].step = "tree"
  /\ Goes(w, IF TreeMatches(RequestIn(w)) THEN "commit" ELSE "failed")
  /\ UNCHANGED <<head, commits, branches, pulls>>

(* #createCommit.                                                          *)
CreateCommit(w) ==
  /\ calls[w].step = "commit" /\ Len(commits) < MaxCommits
  /\ commits' = Append(commits, [op |-> calls[w].op, exact |-> RequestIn(w).exact,
                                 parent |-> RequestIn(w).base])
  /\ calls' = [calls EXCEPT ![w].step = "base again", ![w].commit = Len(commits) + 1]
  /\ UNCHANGED <<head, branches, pulls>>

(* #updateDeterministicBranch: what to do with the branch as it is read.   *)
NextOnBranch(call, existing) ==
  CASE existing = call.commit -> "base at last"
    [] existing = None /\ call.expected = None -> "create"
    [] existing # None /\ existing = call.expected -> "move"
    [] OTHER -> "branch_conflict"

ReadBranch(w) ==
  /\ calls[w].step = "branch"
  /\ Goes(w, NextOnBranch(calls[w], branches[calls[w].op]))
  /\ UNCHANGED <<head, commits, branches, pulls>>

(* The POST of the ref; GitHub refuses a ref that exists.                  *)
CreateRef(w) ==
  /\ calls[w].step = "create"
  /\ IF branches[calls[w].op] = None
     THEN branches' = [branches EXCEPT ![calls[w].op] = calls[w].commit] /\ Goes(w, "base at last")
     ELSE Goes(w, "failed") /\ UNCHANGED branches
  /\ UNCHANGED <<head, commits, pulls>>

(* The PATCH of the ref, without force: GitHub moves it forward only, to a *)
(* commit that comes after its head.  The parent of the new commit is the  *)
(* base, so it comes after no commit of the branch.                        *)
UpdateRef(w) ==
  /\ calls[w].step = "move"
  /\ Goes(w, "failed")
  /\ UNCHANGED <<head, commits, branches, pulls>>

CheckBranch(w) ==
  /\ calls[w].step = "check"
  /\ Goes(w, IF branches[calls[w].op] = calls[w].commit THEN "list" ELSE "branch_conflict")
  /\ UNCHANGED <<head, commits, branches, pulls>>

(* #listOpenPullRequests and #openOrReusePullRequest: an open one is       *)
(* reused if it has the commit as its head.                                *)
ListPulls(w) ==
  LET open == pulls[calls[w].op]
  IN /\ calls[w].step = "list"
     /\ Goes(w, CASE open = {} -> "open"
                  [] open = {calls[w].commit} -> "answered"
                  [] OTHER -> "failed")
     /\ UNCHANGED <<head, commits, branches, pulls>>

(* GitHub refuses a second open pull request of a branch.                  *)
OpenPull(w) ==
  /\ calls[w].step = "open"
  /\ IF pulls[calls[w].op] = {}
     THEN pulls' = [pulls EXCEPT ![calls[w].op] = {calls[w].commit}] /\ Goes(w, "answered")
     ELSE Goes(w, "failed") /\ UNCHANGED pulls
  /\ UNCHANGED <<head, commits, branches>>

(* A request fails, its answer is lost, or the call is.                    *)
Lose(w) ==
  /\ calls[w].step \notin {"idle", "answered", "branch_conflict", "failed"}
  /\ Goes(w, "failed")
  /\ UNCHANGED <<head, commits, branches, pulls>>

(* Somebody pushes to the default branch.                                  *)
Push == head < MaxPushes /\ head' = head + 1 /\ UNCHANGED <<commits, branches, pulls, calls>>

Next ==
  \/ Push
  \/ \E w \in Workers :
       \/ Begin(w) \/ AssertBaseHead(w) \/ Materialize(w) \/ CreateCommit(w) \/ ReadBranch(w)
       \/ CreateRef(w) \/ UpdateRef(w) \/ CheckBranch(w) \/ ListPulls(w) \/ OpenPull(w) \/ Lose(w)

Spec == Init /\ [][Next]_vars

-----------------------------------------------------------------------------
(* The variables have their types.                                         *)
TypeOK ==
  /\ head \in 0..MaxPushes /\ Len(commits) <= MaxCommits
  /\ \A o \in Operations : /\ branches[o] \in {None} \union DOMAIN commits
                           /\ pulls[o] \subseteq DOMAIN commits
  /\ \A w \in Workers : calls[w].commit \in {None} \union DOMAIN commits

(* A branch of the product holds one commit, made from the approved        *)
(* changes on the base they were verified on, with the tree that was       *)
(* verified; an open pull request offers the head of its branch, and there *)
(* is one at most; a call that is answered names both, however calls are   *)
(* repeated and run beside each other (applyExactChangesAndOpenPullRequest). *)
OnlyTheVerified ==
  /\ \A o \in Operations : branches[o] # None =>
       LET commit == commits[branches[o]] IN
       /\ commit.op = o /\ commit.exact /\ commit.parent = RequestOf[o].base
       /\ Acceptable(RequestOf[o])
  /\ \A o \in Operations : pulls[o] # {} => pulls[o] = {branches[o]}
  /\ \A w \in Workers : calls[w].step = "answered" =>
       branches[calls[w].op] = calls[w].commit /\ pulls[calls[w].op] = {calls[w].commit}

(* A repeated call reconciles the branch that the operation made before:   *)
(* it does not take it for somebody else's (requirements 21.10).           *)
RetriesReconcile ==
  \A w \in Workers : calls[w].step = "branch_conflict" =>
    LET branch == branches[calls[w].op]
    IN branch = None \/ commits[branch] # commits[calls[w].commit]
=============================================================================
