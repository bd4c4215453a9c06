------------------------------ MODULE RunReview ------------------------------
(***************************************************************************)
(* The way of a completed run to review and back                           *)
(* (internal/orchestrator/service.go: Merge, Commit, OpenPullRequests,     *)
(* SyncReviewFeedback, DispatchQueuedReviewFeedback; git_pr_validation.go).*)
(*                                                                         *)
(* Several processes execute the commands.  Commit and OpenPullRequests    *)
(* exclude each other by a lock file; the other commands take no lock.     *)
(* Each git, gh or store call is a step; a call that fails ends its        *)
(* command, and a process may die between any two.  Dry runs, which write  *)
(* nothing, are left out.                                                  *)
(*                                                                         *)
(* A repository of a workspace is a target.  Its contents are abstracted   *)
(* to the set of edits in them: every commit is made on top of the base    *)
(* branch, so it is the set of edits it adds to the base.                  *)
(***************************************************************************)
EXTENDS Integers, FiniteSets, FiniteSetsExt

CONSTANTS
  Procs,
  NumTargets,   \* targets, in the order in which commands visit them
  Selections,   \* bound: the targets of all tickets, or of the one that --ticket names;
                \* a command without targets does nothing
  PerTarget,    \* bound: review comments on each pull request
  MaxItems,     \* git_pr.review_feedback.max_items_per_sync
  Checks,       \* git_pr.required_checks
  RequireAll,   \* git_pr.require_all
  Forbidden,    \* edits of files that git_pr.forbidden_file_patterns match
  NewDirectory, \* of each target, the edits of files in a directory that its base does not have
  MaxEdits,     \* bound: edits
  MaxOps,       \* bound: commands
  MaxFaults     \* bound: failing calls and dying processes

Targets  == 1..NumTargets
Edits    == 1..MaxEdits
Comments == Targets \X (1..PerTarget)
None     == "none"
Dead     == "dead"
CheckNames == {"tests", "forbidden_files", "ticket_workflow", "clean_tree"}

ASSUME ReviewAssumption ==
  /\ NumTargets \in Nat \ {0} /\ Selections \subseteq (SUBSET Targets) \ {{}} /\ PerTarget \in Nat /\ MaxItems \in Nat \ {0}
  /\ Checks \subseteq CheckNames /\ RequireAll \in BOOLEAN
  /\ MaxEdits \in Nat /\ NumTargets <= MaxEdits /\ MaxOps \in Nat /\ MaxFaults \in Nat
  /\ Forbidden \subseteq Edits /\ NewDirectory \in [Targets -> SUBSET Edits]
  /\ None \notin Procs /\ Dead \notin Procs

VARIABLES
  run,        \* status of the run
  lock,       \* who created the lock file
  dirty,      \* edits in the working tree of each target
  stash,      \* edits in its stash
  tip,        \* what the branch of the run adds to the base
  saved,      \* edits that a commit has ever held
  remote,     \* what the pushed branch adds to the base
  pulls,      \* targets with a pull request on GitHub
  rows,       \* run_pull_requests
  feedback,   \* comments: on GitHub only, or the status of their row
  asked,      \* what was saved when the row of a comment was written
  told,       \* comments that agents were given
  merged,     \* targets on which wsm merge was called
  call,       \* the command that each process executes
  unwritten,  \* rows left unwritten after git or gh had done its part
  early,      \* comments whose row was written while a commit was under way
  late,       \* edits made while a commit was under way
  overlooked, \* edits of forbidden files that git status did not name to a check
  edits, ops, faults

git  == <<dirty, stash, tip, saved>>
hub  == <<remote, pulls>>
fb   == <<feedback, asked, told>>
past == <<unwritten, early, late, overlooked>>
vars == <<run, lock, git, hub, rows, fb, merged, call, past, edits, ops, faults>>

Row   == [sha : SUBSET Edits, url : BOOLEAN]
NoRow == [url |-> FALSE]
Idle == [op |-> None, pc |-> "idle"]
Rank == [none |-> 0, posted |-> 1, queued |-> 2, new |-> 3, addressed |-> 4]
Mutating == {"commit", "pr"}

Labels == {"look", "snapshot", "checkout", "apply", "drop", "commit", "row", "list",
           "mark", "push", "create", "read", "fetch", "store", "iterate", "merge"}

TypeOK ==
  /\ run \in {"running", "completed", "closed"}
  /\ lock \in Procs \union {None, Dead}
  /\ dirty \in [Targets -> SUBSET Edits] /\ stash \in [Targets -> SUBSET Edits]
  /\ tip \in [Targets -> SUBSET Edits] /\ saved \in [Targets -> SUBSET Edits]
  /\ remote \in [Targets -> SUBSET Edits] /\ pulls \subseteq Targets
  /\ rows \in [Targets -> Row \union {NoRow}]
  /\ feedback \in [Comments -> DOMAIN Rank]
  /\ asked \in [Comments -> SUBSET Edits] /\ told \subseteq Comments
  /\ merged \subseteq Targets
  /\ \A p \in Procs : call[p] = Idle \/ (call[p].pc \in Labels /\ call[p].todo \subseteq Targets)
  /\ unwritten \subseteq Mutating \X Targets /\ early \subseteq Comments /\ late \subseteq 1..edits
  /\ overlooked \subseteq Forbidden
  /\ edits \in 0..MaxEdits /\ ops \in 0..MaxOps /\ faults \in 0..MaxFaults

\* A run was completed, and its agents have left an edit in each target.
Init ==
  /\ run = "completed" /\ lock = None
  /\ dirty  = [k \in Targets |-> {k}] /\ stash = [k \in Targets |-> {}]
  /\ tip    = [k \in Targets |-> {}] /\ saved = [k \in Targets |-> {}]
  /\ remote = [k \in Targets |-> {}] /\ pulls = {}
  /\ rows   = [k \in Targets |-> NoRow]
  /\ feedback = [c \in Comments |-> "none"]
  /\ asked  = [c \in Comments |-> {}] /\ told = {} /\ merged = {}
  /\ call   = [p \in Procs |-> Idle]
  /\ unwritten = {} /\ early = {} /\ late = {} /\ overlooked = {}
  /\ edits = NumTargets /\ ops = 0 /\ faults = 0

-----------------------------------------------------------------------------
At(p, op, pc) == call[p].op = op /\ call[p].pc = pc
Goto(p, pc)   == call' = [call EXCEPT ![p].pc = pc]
Now(p)        == Min(call[p].todo)
Inside(p)     == call[p].op \in Mutating
Committing    == \E p \in Procs : call[p].op = "commit"

\* The deferred release removes the file.
Release(p) == lock' = IF Inside(p) THEN None ELSE lock
Return(p)  == call' = [call EXCEPT ![p] = Idle] /\ Release(p)

\* The next target, or the end of the command.
NextTarget(p, pc) ==
  IF call[p].todo = {Now(p)}
  THEN Return(p)
  ELSE /\ call' = [call EXCEPT ![p] = [op |-> @.op, pc |-> pc, todo |-> @.todo \ {Now(p)}]]
       /\ UNCHANGED lock

Start(p, op, pc, todo) ==
  /\ call[p] = Idle /\ ops < MaxOps
  /\ ops' = ops + 1
  /\ call' = [call EXCEPT ![p] = [op |-> op, pc |-> pc, todo |-> todo]]

ListRunPullRequests(K) == {k \in K : rows[k] # NoRow}

\* Mutant: the lock file is opened without O_EXCL.
acquireRunMutationLock_NotExclusive(p) == lock # Dead /\ lock' = p

\* acquireRunMutationLock: a file that exists refuses the command at once.
acquireRunMutationLock(p) == lock = None /\ lock' = p

\* What git status --short names: of a directory that is not tracked, the directory
\* and none of its files.  Paths that git puts in quotes, which no pattern with an
\* end matches, are left out.
Named(k) == IF tip[k] \cap NewDirectory[k] = {} THEN dirty[k] \ NewDirectory[k] ELSE dirty[k]

\* The checks that look at the working tree; what the tests and the documents of
\* the ticket say is given.
CheckPasses(c, k, passing) ==
  CASE c = "forbidden_files" -> Named(k) \cap Forbidden = {}
    [] c = "clean_tree"      -> dirty[k] = {}
    [] OTHER                 -> c \in passing

\* The verdicts of the checks that are given.
Verdicts == SUBSET {"tests", "ticket_workflow"}

\* Before a commit the tree is dirty, and clean_tree does not apply.
Applicable(op) == IF op = "pr" THEN Checks ELSE Checks \ {"clean_tree"}

\* Mutant: require_all is not looked at, one passing check is enough.
ChecksPass_Any(op, k, passing) ==
  LET Passed == {c \in Applicable(op) : CheckPasses(c, k, passing)}
  IN  Applicable(op) = {} \/ Passed # {}

\* runGitPRValidations
ChecksPass(op, k, passing) ==
  LET Passed == {c \in Applicable(op) : CheckPasses(c, k, passing)}
  IN  \/ Applicable(op) = {}
      \/ IF RequireAll THEN Passed = Applicable(op) ELSE Passed # {}

-----------------------------------------------------------------------------
(* Commit *)

CommitStart(p) ==
  /\ run = "completed"
  /\ \E K \in Selections : Start(p, "commit", "look", K)
  /\ acquireRunMutationLock(p)
  /\ UNCHANGED <<run, git, hub, rows, fb, merged, past, edits, faults>>

CommitClean(p) ==
  /\ At(p, "commit", "look") /\ dirty[Now(p)] = {}
  /\ NextTarget(p, "look")
  /\ UNCHANGED <<run, git, hub, rows, fb, merged, past, edits, ops, faults>>

CommitCheck(p) ==
  LET k == Now(p) IN
  /\ At(p, "commit", "look") /\ dirty[k] # {}
  /\ \E passing \in Verdicts :
       IF ChecksPass("commit", k, passing)
       THEN /\ Goto(p, "snapshot") /\ UNCHANGED lock
            /\ overlooked' = overlooked \union (Forbidden \cap (dirty[k] \ Named(k)))
       ELSE Return(p) /\ UNCHANGED overlooked
  /\ UNCHANGED <<run, git, hub, rows, fb, merged, unwritten, early, late, edits, ops, faults>>

\* git stash push -u
Snapshot(p) ==
  LET k == Now(p) IN
  /\ At(p, "commit", "snapshot")
  /\ stash' = [stash EXCEPT ![k] = @ \union dirty[k]]
  /\ dirty' = [dirty EXCEPT ![k] = {}]
  /\ call' = [call EXCEPT ![p] = [op |-> "commit", pc |-> "checkout", todo |-> @.todo,
                                  snap |-> dirty[k]]]
  /\ UNCHANGED <<run, lock, tip, saved, hub, rows, fb, merged, past, edits, ops, faults>>

\* git checkout -B branch base: what the branch had is no longer on it.
Checkout(p) ==
  /\ At(p, "commit", "checkout")
  /\ tip' = [tip EXCEPT ![Now(p)] = {}]
  /\ Goto(p, "apply")
  /\ UNCHANGED <<run, lock, dirty, stash, saved, hub, rows, fb, merged, past, edits, ops, faults>>

\* git stash apply --index
Apply(p) ==
  /\ At(p, "commit", "apply")
  /\ dirty' = [dirty EXCEPT ![Now(p)] = @ \union call[p].snap]
  /\ Goto(p, "drop")
  /\ UNCHANGED <<run, lock, stash, tip, saved, hub, rows, fb, merged, past, edits, ops, faults>>

\* Mutant: a snapshot that cannot be applied is dropped.
ApplyConflict_Dropped(p) ==
  LET k == Now(p) IN
  /\ At(p, "commit", "apply")
  /\ faults < MaxFaults /\ faults' = faults + 1
  /\ stash' = [stash EXCEPT ![k] = @ \ call[p].snap]
  /\ Return(p)
  /\ UNCHANGED <<run, dirty, tip, saved, hub, rows, fb, merged, past, edits, ops>>

\* The snapshot does not fit the base: it is kept, and the tree holds its edits
\* with conflict marks or none of them.
ApplyConflict(p) ==
  LET k == Now(p) IN
  /\ At(p, "commit", "apply")
  /\ faults < MaxFaults /\ faults' = faults + 1
  /\ \E S \in {{}, call[p].snap} : dirty' = [dirty EXCEPT ![k] = @ \union S]
  /\ Return(p)
  /\ UNCHANGED <<run, stash, tip, saved, hub, rows, fb, merged, past, edits, ops>>

\* git stash drop.  The snapshot's entry is named by its place, stash@{0}, here and
\* in Apply: nobody else stashes while a commit is under way.
Drop(p) ==
  /\ At(p, "commit", "drop")
  /\ stash' = [stash EXCEPT ![Now(p)] = @ \ call[p].snap]
  /\ call' = [call EXCEPT ![p] = [op |-> "commit", pc |-> "commit", todo |-> @.todo]]
  /\ UNCHANGED <<run, lock, dirty, tip, saved, hub, rows, fb, merged, past, edits, ops, faults>>

\* git add -A and git commit
GitCommit(p) ==
  LET k == Now(p) IN
  /\ At(p, "commit", "commit") /\ dirty[k] # {}
  /\ tip' = [tip EXCEPT ![k] = dirty[k]]
  /\ saved' = [saved EXCEPT ![k] = @ \union dirty[k]]
  /\ dirty' = [dirty EXCEPT ![k] = {}]
  /\ Goto(p, "row")
  /\ UNCHANGED <<run, lock, stash, hub, rows, fb, merged, past, edits, ops, faults>>

\* Mutant: a row that exists keeps its commit.
CommitRow_KeepsSha(p) ==
  LET k == Now(p) IN
  /\ At(p, "commit", "row")
  /\ rows' = [rows EXCEPT ![k] = IF @ = NoRow THEN [sha |-> tip[k], url |-> FALSE] ELSE @]
  /\ unwritten' = unwritten \ {<<"commit", k>>}
  /\ Goto(p, "list")
  /\ UNCHANGED <<run, lock, git, hub, fb, merged, early, late, overlooked, edits, ops, faults>>

\* git rev-parse HEAD and UpsertRunPullRequest; a row that exists keeps its URL.
CommitRow(p) ==
  LET k == Now(p) IN
  /\ At(p, "commit", "row")
  /\ rows' = [rows EXCEPT ![k] = [sha |-> tip[k], url |-> @.url]]
  /\ unwritten' = unwritten \ {<<"commit", k>>}
  /\ Goto(p, "list")
  /\ UNCHANGED <<run, lock, git, hub, fb, merged, early, late, overlooked, edits, ops, faults>>

-----------------------------------------------------------------------------
(* transitionReviewFeedbackStatus, after a commit and after a pull request *)

Mark == [commit |-> [from |-> "queued", to |-> "new"],
         pr     |-> [from |-> "new",    to |-> "addressed"]]

ListRunReviewFeedback(status) == {c \in Comments : feedback[c] = status}

\* Whatever the row has become since it was listed.
UpdateRunReviewFeedbackStatus(c, status) == feedback' = [feedback EXCEPT ![c] = status]

\* Mutant: a pull request answers what is queued as well.
Listed_AnyOpen(p) ==
  {c \in Comments : c[1] = Now(p) /\ feedback[c] \in {"queued", "new"}}

Listed(p) == {c \in ListRunReviewFeedback(Mark[call[p].op].from) : c[1] = Now(p)}

ListFeedback(p) ==
  /\ call[p].pc = "list"
  /\ IF Listed(p) = {}
     THEN NextTarget(p, "look")
     ELSE /\ call' = [call EXCEPT ![p] = [op |-> @.op, pc |-> "mark", todo |-> @.todo,
                                          list |-> Listed(p)]]
          /\ UNCHANGED lock
  /\ UNCHANGED <<run, git, hub, rows, fb, merged, past, edits, ops, faults>>

MarkFeedback(p) ==
  /\ call[p].pc = "mark"
  /\ LET c == CHOOSE x \in call[p].list : \A y \in call[p].list : x[2] <= y[2] IN
       /\ UpdateRunReviewFeedbackStatus(c, Mark[call[p].op].to)
       /\ IF call[p].list = {c}
          THEN NextTarget(p, "look")
          ELSE call' = [call EXCEPT ![p].list = @ \ {c}] /\ UNCHANGED lock
  /\ UNCHANGED <<run, git, hub, rows, asked, told, merged, past, edits, ops, faults>>

-----------------------------------------------------------------------------
(* OpenPullRequests *)

PRStart(p) ==
  /\ run = "completed"
  /\ \E K \in Selections :
       LET Candidates == ListRunPullRequests(K) IN
       Candidates # {} /\ Start(p, "pr", "look", Candidates)
  /\ acquireRunMutationLock(p)
  /\ UNCHANGED <<run, git, hub, rows, fb, merged, past, edits, faults>>

\* A row with a URL is not pushed again.
PRExists(p) ==
  /\ At(p, "pr", "look") /\ rows[Now(p)].url
  /\ Goto(p, "list")
  /\ UNCHANGED <<run, lock, git, hub, rows, fb, merged, past, edits, ops, faults>>

PRCheck(p) ==
  /\ At(p, "pr", "look") /\ ~rows[Now(p)].url
  /\ \E passing \in Verdicts :
       IF ChecksPass("pr", Now(p), passing) THEN Goto(p, "push") /\ UNCHANGED lock
                                            ELSE Return(p)
  /\ UNCHANGED <<run, git, hub, rows, fb, merged, past, edits, ops, faults>>

\* git push: no commit of the branch is an ancestor of another, so a branch that
\* was pushed before is accepted only as it is.
Push(p) ==
  LET k == Now(p) IN
  /\ At(p, "pr", "push")
  /\ IF remote[k] \in {{}, tip[k]}
     THEN remote' = [remote EXCEPT ![k] = tip[k]] /\ Goto(p, "create") /\ UNCHANGED lock
     ELSE Return(p) /\ UNCHANGED remote
  /\ UNCHANGED <<run, git, pulls, rows, fb, merged, past, edits, ops, faults>>

\* gh pr create: one pull request for a branch, and none without commits.  When it
\* fails after it has created the pull request, the command fails at the row.
Create(p) ==
  LET k == Now(p) IN
  /\ At(p, "pr", "create")
  /\ IF k \notin pulls /\ remote[k] # {}
     THEN pulls' = pulls \union {k} /\ Goto(p, "row") /\ UNCHANGED lock
     ELSE Return(p) /\ UNCHANGED pulls
  /\ UNCHANGED <<run, git, remote, rows, fb, merged, past, edits, ops, faults>>

\* Mutant: the row keeps the state it was read with.
PRRow_NotOpen(p) ==
  LET k == Now(p) IN
  /\ At(p, "pr", "row")
  /\ unwritten' = unwritten \ {<<"pr", k>>}
  /\ Goto(p, "list")
  /\ UNCHANGED <<run, lock, git, hub, rows, fb, merged, early, late, overlooked, edits, ops, faults>>

\* UpsertRunPullRequest; under the lock the row is the one that was read.
PRRow(p) ==
  LET k == Now(p) IN
  /\ At(p, "pr", "row")
  /\ rows' = [rows EXCEPT ![k].url = TRUE]
  /\ unwritten' = unwritten \ {<<"pr", k>>}
  /\ Goto(p, "list")
  /\ UNCHANGED <<run, lock, git, hub, fb, merged, early, late, overlooked, edits, ops, faults>>

-----------------------------------------------------------------------------
(* SyncReviewFeedback *)

SyncStart(p) ==
  /\ run = "completed"
  /\ \E K \in Selections :
       LET Candidates == {k \in ListRunPullRequests(K) : rows[k].url} IN
       Candidates # {} /\ Start(p, "sync", "read", Candidates)
  /\ UNCHANGED <<run, lock, git, hub, rows, fb, merged, past, edits, faults>>

\* ListRunReviewFeedback, once for all targets.
SyncRead(p) ==
  /\ At(p, "sync", "read")
  /\ call' = [call EXCEPT ![p] = [op |-> "sync", pc |-> "fetch", todo |-> @.todo,
                                  known |-> feedback, left |-> MaxItems]]
  /\ UNCHANGED <<run, lock, git, hub, rows, fb, merged, past, edits, ops, faults>>

SyncNext(p, left) ==
  call' = [call EXCEPT ![p] =
             IF @.todo = {Now(p)} \/ left = 0
             THEN Idle
             ELSE [op |-> "sync", pc |-> "fetch", todo |-> @.todo \ {Now(p)},
                   known |-> @.known, left |-> left]]

\* The comments and the reviews of a pull request.
SyncFetch(p) ==
  LET found == {c \in Comments : c[1] = Now(p) /\ feedback[c] # "none"} IN
  /\ At(p, "sync", "fetch")
  /\ IF found = {}
     THEN SyncNext(p, call[p].left)
     ELSE call' = [call EXCEPT ![p] = [op |-> "sync", pc |-> "store", todo |-> @.todo,
                                       known |-> @.known, left |-> @.left, list |-> found]]
  /\ UNCHANGED <<run, lock, git, hub, rows, fb, merged, past, edits, ops, faults>>

\* Mutant: what is fetched is queued, known or not.
StatusToStore_Queued(p, c) == "queued"

\* The status that the row had when it was read.
StatusToStore(p, c) ==
  IF Rank[call[p].known[c]] >= Rank["queued"] THEN call[p].known[c] ELSE "queued"

\* The whole row is written, over whatever it has become.
UpsertRunReviewFeedback(c, status) ==
  /\ feedback' = [feedback EXCEPT ![c] = status]
  /\ asked' = [asked EXCEPT ![c] = IF feedback[c] = "posted" THEN saved[c[1]] ELSE @]
  /\ early' = IF feedback[c] = "posted" /\ Committing THEN early \union {c} ELSE early

\* A known comment uses up the budget like a new one.
SyncStore(p) ==
  /\ At(p, "sync", "store")
  /\ LET c == CHOOSE x \in call[p].list : \A y \in call[p].list : x[2] <= y[2]
         left == call[p].left - 1
     IN /\ UpsertRunReviewFeedback(c, StatusToStore(p, c))
        /\ IF call[p].list = {c} \/ left = 0
           THEN SyncNext(p, left)
           ELSE call' = [call EXCEPT ![p].list = @ \ {c}, ![p].left = left]
  /\ UNCHANGED <<run, lock, git, hub, rows, told, merged, unwritten, late, overlooked, edits, ops, faults>>

-----------------------------------------------------------------------------
(* DispatchQueuedReviewFeedback and Merge *)

\* The first rows in queue order, up to the number the caller gives; without one, all.
DispatchStart(p) ==
  LET Queued == ListRunReviewFeedback("queued") IN
  /\ Queued # {} /\ call[p] = Idle /\ ops < MaxOps /\ ops' = ops + 1
  /\ call' = [call EXCEPT ![p] = [op |-> "dispatch", pc |-> "iterate", todo |-> {},
                                  list |-> Queued]]
  /\ UNCHANGED <<run, lock, git, hub, rows, fb, merged, past, edits, faults>>

\* Iterate (see RunAgents): the agents are given the feedback and restarted.  The
\* rows stay queued.
DispatchIterate(p) ==
  /\ At(p, "dispatch", "iterate") /\ run # "closed"
  /\ told' = told \union call[p].list
  /\ run' = "running"
  /\ Return(p)
  /\ UNCHANGED <<git, hub, rows, feedback, asked, merged, past, edits, ops, faults>>

\* Merge looks at all workspaces first and takes the dirty ones.
MergeStart(p) ==
  LET Dirty == {k \in Targets : dirty[k] # {}} IN
  /\ run = "completed" /\ Dirty # {}
  /\ Start(p, "merge", "merge", Dirty)
  /\ UNCHANGED <<run, lock, git, hub, rows, fb, merged, past, edits, faults>>

MergeOne(p) ==
  /\ At(p, "merge", "merge")
  /\ merged' = merged \union {Now(p)}
  /\ NextTarget(p, "merge")
  /\ UNCHANGED <<run, git, hub, rows, fb, past, edits, ops, faults>>

-----------------------------------------------------------------------------
(* Failures *)

\* A git, gh or store call fails and its command returns the error.
Fails(p) ==
  /\ call[p] # Idle
  /\ faults < MaxFaults /\ faults' = faults + 1
  /\ unwritten' = IF call[p].pc = "row" THEN unwritten \union {<<call[p].op, Now(p)>>} ELSE unwritten
  /\ Return(p)
  /\ UNCHANGED <<run, git, hub, rows, fb, merged, early, late, overlooked, edits, ops>>

\* The process dies, and its lock file stays.
Dies(p) ==
  /\ call[p] # Idle
  /\ faults < MaxFaults /\ faults' = faults + 1
  /\ call' = [call EXCEPT ![p] = Idle]
  /\ lock' = IF Inside(p) THEN Dead ELSE lock
  /\ UNCHANGED <<run, git, hub, rows, fb, merged, past, edits, ops>>

-----------------------------------------------------------------------------
(* Agents and reviewers *)

\* An agent or its user edits a workspace, at any time.
Edit(k) ==
  /\ run # "closed" /\ edits < MaxEdits
  /\ edits' = edits + 1
  /\ dirty' = [dirty EXCEPT ![k] = @ \union {edits'}]
  /\ late' = IF Committing THEN late \union {edits'} ELSE late
  /\ UNCHANGED <<run, lock, stash, tip, saved, hub, rows, fb, merged, call, unwritten, early, overlooked, ops, faults>>

\* The agents have ended and a status query completes the run.
AgentsDone ==
  /\ run = "running" /\ run' = "completed"
  /\ UNCHANGED <<lock, git, hub, rows, fb, merged, call, past, edits, ops, faults>>

\* Close, when its gates are open (see RunClose).
CloseRun ==
  /\ run = "completed" /\ run' = "closed"
  /\ \A k \in Targets : dirty[k] = {}
  /\ UNCHANGED <<lock, git, hub, rows, fb, merged, call, past, edits, ops, faults>>

Comment(c) ==
  /\ c[1] \in pulls /\ feedback[c] = "none"
  /\ \A n \in 1..(c[2] - 1) : feedback[<<c[1], n>>] # "none"
  /\ feedback' = [feedback EXCEPT ![c] = "posted"]
  /\ UNCHANGED <<run, lock, git, hub, rows, asked, told, merged, call, past, edits, ops, faults>>

-----------------------------------------------------------------------------
Step(p) ==
  \/ CommitStart(p) \/ CommitClean(p) \/ CommitCheck(p) \/ Snapshot(p) \/ Checkout(p)
  \/ Apply(p) \/ ApplyConflict(p) \/ Drop(p) \/ GitCommit(p) \/ CommitRow(p)
  \/ ListFeedback(p) \/ MarkFeedback(p)
  \/ PRStart(p) \/ PRExists(p) \/ PRCheck(p) \/ Push(p) \/ Create(p) \/ PRRow(p)
  \/ SyncStart(p) \/ SyncRead(p) \/ SyncFetch(p) \/ SyncStore(p)
  \/ DispatchStart(p) \/ DispatchIterate(p) \/ MergeStart(p) \/ MergeOne(p)
  \/ Fails(p) \/ Dies(p)

Next ==
  \/ \E p \in Procs : Step(p)
  \/ \E k \in Targets : Edit(k)
  \/ \E c \in Comments : Comment(c)
  \/ AgentsDone \/ CloseRun

Spec == Init /\ [][Next]_vars

-----------------------------------------------------------------------------
\* The lock file is there exactly while one process commits or opens pull
\* requests, or because one died doing so: no error return leaves it behind
\* (acquireRunMutationLock and the deferred releases).
LockMatches ==
  /\ \A p \in Procs : Inside(p) <=> lock = p
  /\ lock = Dead => faults > 0

\* Between commands the row of a target names the commit its branch is at, so a
\* pull request describes what it is made of.  A commit that failed half-way leaves
\* its edits in the tree or in the stash (Commit, prepareCommitBranch).
RowNamesTip ==
  \A k \in Targets :
    rows[k] # NoRow /\ lock = None =>
      \/ rows[k].sha = tip[k]
      \/ dirty[k] \union stash[k] # {}
      \/ <<"commit", k>> \in unwritten

\* A pull request that no row knows cannot be created again and is never synced;
\* it exists only while its creator holds the lock, died with it, or could not
\* read the answer or write the row (OpenPullRequests).
UnrecordedIsLocked ==
  \A k \in pulls : rows[k].url \/ lock # None \/ <<"pr", k>> \in unwritten

\* Whatever fails and whoever dies while a working tree is moved onto the base,
\* each edit is in the tree, in the stash or was committed (prepareCommitBranch).
EditsAreSomewhere ==
  1..edits \subseteq UNION {dirty[k] \union stash[k] \union saved[k] : k \in Targets}

\* With require_all, the edits of forbidden files that were ever committed are those
\* that no check was shown: they were made while a commit was under way, or were in
\* a directory that git did not track when their target was checked.  Nothing comes
\* in through the stash, the moved branch or a commit that failed half-way
\* (runGitPRValidations, gitStatusShortLines).
ForbiddenStaysOut ==
  RequireAll /\ "forbidden_files" \in Checks =>
    \A k \in Targets : saved[k] \cap Forbidden \subseteq late \union overlooked

\* A comment is called addressed only when something has been committed since its
\* row was written, unless that was during a commit: that commit counts as an answer.
AddressedAfterCommit ==
  \A c \in Comments :
    feedback[c] = "addressed" => saved[c[1]] # asked[c] \/ c \in early

\* No command takes a comment back to an earlier status, except one that read the
\* row before another command moved it: a sync that writes the status it has read,
\* or a commit that marks a row it had listed as queued (SyncReviewFeedback,
\* transitionReviewFeedbackStatus).
FeedbackForward ==
  [][\A c \in Comments :
       \/ Rank[feedback'[c]] >= Rank[feedback[c]]
       \/ \E p \in Procs :
            At(p, "sync", "store") /\ Rank[call[p].known[c]] < Rank[feedback[c]]
       \/ \E p \in Procs :
            At(p, "commit", "mark") /\ c \in call[p].list /\ feedback[c] = "addressed"]_vars

\* What the documents say of addressed: the answer is on the pull request.
AddressedDelivered ==
  \A c \in Comments :
    feedback[c] = "addressed" => ~(remote[c[1]] \subseteq asked[c])

=============================================================================
