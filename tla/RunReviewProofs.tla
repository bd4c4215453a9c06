--------------------------- MODULE RunReviewProofs ---------------------------
(***************************************************************************)
(* Proofs about RunReview, for every number of processes, targets, edits,  *)
(* comments, commands and faults.                                          *)
(*                                                                         *)
(* The calls are typed first, and a lemma for each command says what its   *)
(* steps make of them.  Then the lock: whoever is inside is alone, so while*)
(* a commit is at a target nobody else touches its branch, its stash or its*)
(* row; only agents add to the tree.  IInv says what such a commit relies  *)
(* on from step to step (CommitKnows, Checked, FeedbackKnown) and which    *)
(* exceptions the properties that hold between commands have during one    *)
(* (RecordInv, TipInv).  Each part is kept by a lemma of its own.          *)
(***************************************************************************)
EXTENDS RunReview, WellFoundedInduction, TLAPS

Todo     == (SUBSET Targets) \ {{}}
Lists    == (SUBSET Comments) \ {{}}
Statuses == {"none", "posted", "queued", "new", "addressed"}

\* The calls, by the fields that they have.
CommitCalls   == [op : {"commit"}, pc : {"look", "snapshot", "commit", "row", "list"}, todo : Todo]
MovingCalls   == [op : {"commit"}, pc : {"checkout", "apply", "drop"}, todo : Todo, snap : SUBSET Edits]
PRCalls       == [op : {"pr"}, pc : {"look", "push", "create", "row", "list"}, todo : Todo]
MarkCalls     == [op : {"commit", "pr"}, pc : {"mark"}, todo : Todo, list : Lists]
ReadCalls     == [op : {"sync"}, pc : {"read"}, todo : Todo]
FetchCalls    == [op : {"sync"}, pc : {"fetch"}, todo : Todo, known : [Comments -> Statuses], left : Nat \ {0}]
StoreCalls    == [op : {"sync"}, pc : {"store"}, todo : Todo, known : [Comments -> Statuses], left : Nat \ {0},
                  list : Lists]
DispatchCalls == [op : {"dispatch"}, pc : {"iterate"}, todo : {{}}, list : Lists]
MergeCalls    == [op : {"merge"}, pc : {"merge"}, todo : Todo]

Calls == {Idle} \union CommitCalls \union MovingCalls \union PRCalls \union MarkCalls \union ReadCalls
           \union FetchCalls \union StoreCalls \union DispatchCalls \union MergeCalls

TypeInv ==
  /\ run \in {"running", "completed", "closed"}
  /\ lock \in Procs \union {None, Dead}
  /\ dirty \in [Targets -> SUBSET Edits] /\ stash \in [Targets -> SUBSET Edits]
  /\ tip \in [Targets -> SUBSET Edits] /\ saved \in [Targets -> SUBSET Edits]
  /\ remote \in [Targets -> SUBSET Edits] /\ pulls \subseteq Targets
  /\ rows \in [Targets -> Row \union {NoRow}]
  /\ feedback \in [Comments -> Statuses]
  /\ asked \in [Comments -> SUBSET Edits] /\ told \subseteq Comments
  /\ merged \subseteq Targets
  /\ call \in [Procs -> Calls]
  /\ unwritten \subseteq Mutating \X Targets /\ early \subseteq Comments /\ late \subseteq 1..edits
  /\ overlooked \subseteq Forbidden
  /\ edits \in 0..MaxEdits /\ ops \in 0..MaxOps /\ faults \in 0..MaxFaults

\* What a commit knows of the target it is at: something is there to be committed,
\* and the snapshot is in the stash until the tree has its edits back.
CommitKnows(p) ==
  LET k == Now(p) IN
  /\ At(p, "commit", "snapshot") \/ At(p, "commit", "commit") => dirty[k] # {}
  /\ At(p, "commit", "checkout") \/ At(p, "commit", "apply") =>
       call[p].snap # {} /\ call[p].snap \subseteq stash[k]
  /\ At(p, "commit", "drop") => call[p].snap # {} /\ call[p].snap \subseteq dirty[k]

\* Each edit is numbered by the count, and what is to be committed is not committed yet.
Fresh ==
  /\ \A k \in Targets : saved[k] \subseteq 1..edits
  /\ \A k \in Targets : dirty[k] \subseteq 1..edits /\ dirty[k] \cap saved[k] = {}
  /\ \A p \in Procs : call[p] \in MovingCalls =>
       call[p].snap \subseteq 1..edits /\ call[p].snap \cap saved[Now(p)] = {}

\* What no check was shown.
Unseen == late \union overlooked

\* Between the check and the commit the forbidden files in the tree are unseen ones.
Checked(p) ==
  call[p].op = "commit" /\ call[p].pc \in {"snapshot", "checkout", "apply", "drop", "commit"} =>
    /\ dirty[Now(p)] \cap Forbidden \subseteq Unseen
    /\ call[p] \in MovingCalls => call[p].snap \cap Forbidden \subseteq Unseen

CheckInv == RequireAll /\ "forbidden_files" \in Checks => \A p \in Procs : Checked(p)

\* The pull requests that no row knows, apart from one whose row is about to be written.
RecordInv ==
  lock = Dead \/
    \A k \in pulls : \/ rows[k].url \/ <<"pr", k>> \in unwritten
                     \/ \E p \in Procs : At(p, "pr", "row") /\ Now(p) = k

\* A process that opens pull requests visits targets that have rows.
RowsThere == \A p \in Procs : call[p].op = "pr" => \A k \in call[p].todo : rows[k] # NoRow

Settled(k) ==
  \/ rows[k].sha = tip[k]
  \/ dirty[k] \union stash[k] # {}
  \/ <<"commit", k>> \in unwritten

TipInv ==
  lock = Dead \/
    \A k \in Targets : rows[k] # NoRow =>
      Settled(k) \/ \E p \in Procs : At(p, "commit", "row") /\ Now(p) = k

\* Something was committed since the row of comment c was written.
Answered(c) == asked[c] # saved[c[1]] \/ c \in early

Known(c) == feedback[c] \notin {"none", "posted"}

\* What a command knows of the comments in its hands.
FeedbackKnown(p) ==
  /\ call[p].op = "commit" /\ call[p].pc \in {"row", "list", "mark"} =>
       \A c \in Comments : c[1] = Now(p) => Answered(c)
  /\ call[p] \in MarkCalls => \A c \in call[p].list : Known(c) /\ Answered(c) /\ c[1] = Now(p)
  /\ call[p] \in FetchCalls \union StoreCalls =>
       \A c \in Comments : call[p].known[c] \in {"new", "addressed"} => Known(c) /\ Answered(c)

AnswerInv ==
  /\ \A c \in Comments : asked[c] \subseteq saved[c[1]]
  /\ \A c \in Comments : feedback[c] \in {"new", "addressed"} => Answered(c)
  /\ \A p \in Procs : FeedbackKnown(p)

IInv ==
  /\ TypeInv /\ LockMatches /\ Fresh /\ EditsAreSomewhere /\ ForbiddenStaysOut
  /\ CheckInv /\ RecordInv /\ RowsThere /\ TipInv /\ AnswerInv
  /\ \A p \in Procs : CommitKnows(p)

-----------------------------------------------------------------------------
(* The first target and the first comment *)

LEMMA Smallest ==
  ASSUME NEW S, S \subseteq Nat, S # {}
  PROVE  \E x \in S : \A y \in S : x <= y
<1>1. PICK x \in S : \A y \in S : ~ (<<y, x>> \in OpToRel(<, Nat))
  BY WFMin, NatLessThanWellFounded
<1>2. \A y \in S : ~ (y < x)
  BY <1>1 DEF OpToRel
<1> QED BY <1>2

LEMMA FirstTarget ==
  ASSUME NEW S \in Todo
  PROVE  Min(S) \in S /\ Min(S) \in Targets
<1>1. S \subseteq Nat /\ S # {}
  BY ReviewAssumption DEF Todo, Targets
<1>2. \E x \in S : \A y \in S : x <= y
  BY <1>1, Smallest
<1> QED BY <1>2 DEF Min, Todo

LEMMA FirstComment ==
  ASSUME NEW L \in Lists
  PROVE  (CHOOSE x \in L : \A y \in L : x[2] <= y[2]) \in L
<1>1. \A x \in L : x[2] \in Nat
  BY ReviewAssumption DEF Lists, Comments
<1>2. {x[2] : x \in L} \subseteq Nat /\ {x[2] : x \in L} # {}
  BY <1>1 DEF Lists
<1>3. PICK n \in {x[2] : x \in L} : \A m \in {x[2] : x \in L} : n <= m
  BY <1>2, Smallest
<1>4. \E x \in L : \A y \in L : x[2] <= y[2]
  BY <1>3
<1> QED BY <1>4

LEMMA RankKnown == DOMAIN Rank = Statuses /\ \A s \in Statuses : Rank[s] \in 0..4
  BY DEF Rank, Statuses

-----------------------------------------------------------------------------
(* The calls *)

\* What a call is, by its place.
LEMMA CallKnown ==
  ASSUME TypeInv, NEW p \in Procs
  PROVE  /\ call[p] \in Calls
         /\ At(p, "commit", "look") \/ At(p, "commit", "snapshot") \/ At(p, "commit", "commit")
              \/ At(p, "commit", "row") => call[p] \in CommitCalls
         /\ At(p, "commit", "checkout") \/ At(p, "commit", "apply") \/ At(p, "commit", "drop") =>
              call[p] \in MovingCalls
         /\ At(p, "pr", "look") \/ At(p, "pr", "push") \/ At(p, "pr", "create") \/ At(p, "pr", "row") =>
              call[p] \in PRCalls
         /\ call[p].pc = "list" => call[p] \in CommitCalls \union PRCalls
         /\ call[p].pc = "mark" => call[p] \in MarkCalls
         /\ At(p, "sync", "read") => call[p] \in ReadCalls
         /\ At(p, "sync", "fetch") => call[p] \in FetchCalls
         /\ At(p, "sync", "store") => call[p] \in StoreCalls
         /\ At(p, "dispatch", "iterate") => call[p] \in DispatchCalls
         /\ At(p, "merge", "merge") => call[p] \in MergeCalls
<1>1. call[p] \in Calls
  BY DEF TypeInv
<1> QED
  BY <1>1 DEF Calls, CommitCalls, MovingCalls, PRCalls, MarkCalls, ReadCalls, FetchCalls, StoreCalls,
              DispatchCalls, MergeCalls, Idle, At, None

\* Every call but a dispatch and none at all is at a target.
LEMMA NowKnown ==
  ASSUME TypeInv, NEW p \in Procs, call[p] \notin {Idle} \union DispatchCalls
  PROVE  call[p].todo \in Todo /\ Now(p) \in call[p].todo /\ Now(p) \in Targets
<1>1. call[p].todo \in Todo
  BY DEF TypeInv, Calls, CommitCalls, MovingCalls, PRCalls, MarkCalls, ReadCalls, FetchCalls, StoreCalls, MergeCalls
<1> QED BY <1>1, FirstTarget DEF Now

LEMMA Replaced ==
  ASSUME TypeInv, NEW p \in Procs, NEW r \in Calls, call' = [call EXCEPT ![p] = r]
  PROVE  /\ call' \in [Procs -> Calls] /\ call'[p] = r
         /\ \A q \in Procs : q # p => call'[q] = call[q]
  BY DEF TypeInv

\* A command that goes on at the same target, with the same fields.
LEMMA Going ==
  ASSUME TypeInv, NEW p \in Procs, NEW pc, Goto(p, pc)
  PROVE  /\ call[p] \in CommitCalls /\ pc \in {"look", "snapshot", "commit", "row", "list"} =>
              call'[p] = [op |-> "commit", pc |-> pc, todo |-> call[p].todo]
         /\ call[p] \in PRCalls /\ pc \in {"look", "push", "create", "row", "list"} =>
              call'[p] = [op |-> "pr", pc |-> pc, todo |-> call[p].todo]
         /\ call[p] \in MovingCalls /\ pc \in {"apply", "drop"} =>
              call'[p] = [op |-> "commit", pc |-> pc, todo |-> call[p].todo, snap |-> call[p].snap]
         /\ \A q \in Procs : q # p => call'[q] = call[q]
         /\ call' \in [Procs -> Calls] \/ call'[p] \notin Calls
<1>1. call \in [Procs -> Calls] /\ call' = [call EXCEPT ![p] = [call[p] EXCEPT !.pc = pc]]
  BY DEF TypeInv, Goto
<1>2. call'[p] = [call[p] EXCEPT !.pc = pc] /\ \A q \in Procs : q # p => call'[q] = call[q]
  BY <1>1
<1>3. call[p] \in CommitCalls => [call[p] EXCEPT !.pc = pc] = [op |-> "commit", pc |-> pc, todo |-> call[p].todo]
  BY DEF CommitCalls
<1>4. call[p] \in PRCalls => [call[p] EXCEPT !.pc = pc] = [op |-> "pr", pc |-> pc, todo |-> call[p].todo]
  BY DEF PRCalls
<1>5. call[p] \in MovingCalls => [call[p] EXCEPT !.pc = pc] =
        [op |-> "commit", pc |-> pc, todo |-> call[p].todo, snap |-> call[p].snap]
  BY DEF MovingCalls
<1>6. call' \in [Procs -> Calls] \/ call'[p] \notin Calls
  BY <1>1, <1>2
<1> QED BY <1>2, <1>3, <1>4, <1>5, <1>6

LEMMA Returning ==
  ASSUME TypeInv, NEW p \in Procs, Return(p)
  PROVE  /\ call' \in [Procs -> Calls] /\ call'[p] = Idle
         /\ \A q \in Procs : q # p => call'[q] = call[q]
         /\ lock' = IF Inside(p) THEN None ELSE lock
<1>1. Idle \in Calls
  BY DEF Calls
<1> QED BY <1>1, Replaced DEF Return, Release

\* A command that has dealt with its target returns, or begins with the next one.
LEMMA NextKnown ==
  ASSUME TypeInv, NEW p \in Procs,
         \/ call[p] \in CommitCalls \union PRCalls \union MarkCalls /\ NextTarget(p, "look")
         \/ call[p] \in MergeCalls /\ NextTarget(p, "merge")
  PROVE  /\ call' \in [Procs -> Calls]
         /\ \A q \in Procs : q # p => call'[q] = call[q]
         /\ \/ call'[p] = Idle /\ lock' = IF Inside(p) THEN None ELSE lock
            \/ /\ call'[p] = [op |-> call[p].op, pc |-> IF call[p].op = "merge" THEN "merge" ELSE "look",
                              todo |-> call[p].todo \ {Now(p)}]
               /\ call[p].todo \ {Now(p)} \in Todo
               /\ lock' = lock
<1>1. CASE call[p].todo = {Now(p)}
  BY <1>1, Returning DEF NextTarget
<1>2. CASE call[p].todo # {Now(p)}
  <2> DEFINE pc == IF call[p].op = "merge" THEN "merge" ELSE "look"
             next == [op |-> call[p].op, pc |-> pc, todo |-> call[p].todo \ {Now(p)}]
  <2>1. call[p] \notin {Idle} \union DispatchCalls
    BY DEF CommitCalls, PRCalls, MarkCalls, MergeCalls, Idle, DispatchCalls
  <2>2. call[p].todo \ {Now(p)} \in Todo
    BY <1>2, <2>1, NowKnown DEF Todo
  <2>3. call' = [call EXCEPT ![p] = next] /\ lock' = lock
    BY <1>2 DEF NextTarget, CommitCalls, PRCalls, MarkCalls, MergeCalls
  <2>4. next \in Calls
    BY <2>2 DEF CommitCalls, PRCalls, MarkCalls, MergeCalls, Calls
  <2> HIDE DEF next
  <2>5. /\ call' \in [Procs -> Calls] /\ call'[p] = next
        /\ \A q \in Procs : q # p => call'[q] = call[q]
    BY <2>3, <2>4, Replaced
  <2> QED BY <2>2, <2>3, <2>5 DEF next
<1> QED BY <1>1, <1>2

LEMMA Starting ==
  ASSUME TypeInv, NEW p \in Procs, NEW op, NEW pc, NEW todo \in Todo, Start(p, op, pc, todo),
         <<op, pc>> \in {<<"commit", "look">>, <<"pr", "look">>, <<"sync", "read">>, <<"merge", "merge">>}
  PROVE  /\ call' \in [Procs -> Calls]
         /\ \A q \in Procs : q # p => call'[q] = call[q]
         /\ call[p] = Idle /\ call'[p] = [op |-> op, pc |-> pc, todo |-> todo]
         /\ ops' \in 0..MaxOps
<1>1. [op |-> op, pc |-> pc, todo |-> todo] \in Calls
  BY DEF Calls, CommitCalls, PRCalls, ReadCalls, MergeCalls
<1>2. ops' \in 0..MaxOps
  BY ReviewAssumption DEF Start, TypeInv
<1> QED BY <1>1, <1>2, Replaced DEF Start

\* The calls of the other processes stay as they are.
OthersStay(p) == call' \in [Procs -> Calls] /\ \A q \in Procs : q # p => call'[q] = call[q]

\* Process p goes on with the fields it has.
On(p, pc) == OthersStay(p) /\ call'[p] = [op |-> call[p].op, pc |-> pc, todo |-> call[p].todo]

Returned(p) == OthersStay(p) /\ call'[p] = Idle /\ lock' = IF Inside(p) THEN None ELSE lock

\* It begins with its next target.
Onward(p) ==
  /\ OthersStay(p) /\ lock' = lock
  /\ call'[p] = [op |-> call[p].op, pc |-> IF call[p].op = "merge" THEN "merge" ELSE "look",
                 todo |-> call[p].todo \ {Now(p)}]
  /\ call[p].todo \ {Now(p)} \in Todo

LEMMA StartKnown ==
  ASSUME TypeInv, NEW p \in Procs
  PROVE  /\ CommitStart(p) => /\ OthersStay(p) /\ call[p] = Idle
                              /\ call'[p] \in CommitCalls /\ call'[p].pc = "look"
                              /\ lock = None /\ lock' = p /\ ops' \in 0..MaxOps
         /\ PRStart(p) => /\ OthersStay(p) /\ call[p] = Idle
                          /\ call'[p] \in PRCalls /\ call'[p].pc = "look"
                          /\ \A k \in call'[p].todo : rows[k] # NoRow
                          /\ lock = None /\ lock' = p /\ ops' \in 0..MaxOps
         /\ SyncStart(p) => /\ OthersStay(p) /\ call[p] = Idle /\ call'[p] \in ReadCalls
                            /\ lock' = lock /\ ops' \in 0..MaxOps
         /\ DispatchStart(p) => /\ OthersStay(p) /\ call[p] = Idle /\ call'[p] \in DispatchCalls
                                /\ lock' = lock /\ ops' \in 0..MaxOps
         /\ MergeStart(p) => /\ OthersStay(p) /\ call[p] = Idle /\ call'[p] \in MergeCalls
                             /\ lock' = lock /\ ops' \in 0..MaxOps
<1> USE DEF OthersStay
<1>1. ASSUME CommitStart(p)
      PROVE  /\ OthersStay(p) /\ call[p] = Idle /\ call'[p] \in CommitCalls /\ call'[p].pc = "look"
             /\ lock = None /\ lock' = p /\ ops' \in 0..MaxOps
  <2>1. PICK K \in Selections : Start(p, "commit", "look", K)
    BY <1>1 DEF CommitStart
  <2>2. K \in Todo
    BY ReviewAssumption DEF Todo
  <2>3. /\ call' \in [Procs -> Calls] /\ \A q \in Procs : q # p => call'[q] = call[q]
        /\ call[p] = Idle /\ call'[p] = [op |-> "commit", pc |-> "look", todo |-> K]
        /\ ops' \in 0..MaxOps
    BY <2>1, <2>2, Starting
  <2>4. lock = None /\ lock' = p
    BY <1>1 DEF CommitStart, acquireRunMutationLock
  <2> QED BY <2>2, <2>3, <2>4 DEF CommitCalls
<1>2. ASSUME PRStart(p)
      PROVE  /\ OthersStay(p) /\ call[p] = Idle /\ call'[p] \in PRCalls /\ call'[p].pc = "look"
             /\ \A k \in call'[p].todo : rows[k] # NoRow
             /\ lock = None /\ lock' = p /\ ops' \in 0..MaxOps
  <2>1. PICK K \in Selections : ListRunPullRequests(K) # {} /\ Start(p, "pr", "look", ListRunPullRequests(K))
    BY <1>2 DEF PRStart
  <2> DEFINE cand == ListRunPullRequests(K)
  <2>2. cand \in Todo /\ \A k \in cand : rows[k] # NoRow
    BY <2>1, ReviewAssumption DEF Todo, ListRunPullRequests
  <2> HIDE DEF cand
  <2>3. /\ call' \in [Procs -> Calls] /\ \A q \in Procs : q # p => call'[q] = call[q]
        /\ call[p] = Idle /\ call'[p] = [op |-> "pr", pc |-> "look", todo |-> cand]
        /\ ops' \in 0..MaxOps
    BY <2>1, <2>2, Starting DEF cand
  <2>4. lock = None /\ lock' = p
    BY <1>2 DEF PRStart, acquireRunMutationLock
  <2> QED BY <2>2, <2>3, <2>4 DEF PRCalls
<1>3. ASSUME SyncStart(p)
      PROVE  /\ OthersStay(p) /\ call[p] = Idle /\ call'[p] \in ReadCalls /\ lock' = lock /\ ops' \in 0..MaxOps
  <2>1. PICK K \in Selections :
          LET Candidates == {k \in ListRunPullRequests(K) : rows[k].url}
          IN  Candidates # {} /\ Start(p, "sync", "read", Candidates)
    BY <1>3 DEF SyncStart
  <2> DEFINE cand == {k \in ListRunPullRequests(K) : rows[k].url}
  <2>2. cand \in Todo
    BY <2>1, ReviewAssumption DEF Todo, ListRunPullRequests
  <2>3. Start(p, "sync", "read", cand)
    BY <2>1
  <2> HIDE DEF cand
  <2>4. /\ call' \in [Procs -> Calls] /\ \A q \in Procs : q # p => call'[q] = call[q]
        /\ call[p] = Idle /\ call'[p] = [op |-> "sync", pc |-> "read", todo |-> cand]
        /\ ops' \in 0..MaxOps
    BY <2>2, <2>3, Starting
  <2> QED BY <1>3, <2>2, <2>4 DEF ReadCalls, SyncStart
<1>4. ASSUME DispatchStart(p)
      PROVE  /\ OthersStay(p) /\ call[p] = Idle /\ call'[p] \in DispatchCalls /\ lock' = lock
             /\ ops' \in 0..MaxOps
  <2> DEFINE queued == ListRunReviewFeedback("queued")
             next == [op |-> "dispatch", pc |-> "iterate", todo |-> {}, list |-> queued]
  <2>1. queued \in Lists
    BY <1>4 DEF DispatchStart, Lists, ListRunReviewFeedback
  <2>2. next \in DispatchCalls
    BY <2>1 DEF DispatchCalls
  <2>3. call' = [call EXCEPT ![p] = next] /\ call[p] = Idle /\ lock' = lock
    BY <1>4 DEF DispatchStart
  <2>4. ops' \in 0..MaxOps
    BY <1>4, ReviewAssumption DEF DispatchStart, TypeInv
  <2> HIDE DEF next
  <2> QED BY <2>2, <2>3, <2>4, Replaced DEF Calls
<1>5. ASSUME MergeStart(p)
      PROVE  /\ OthersStay(p) /\ call[p] = Idle /\ call'[p] \in MergeCalls /\ lock' = lock /\ ops' \in 0..MaxOps
  <2> DEFINE unclean == {k \in Targets : dirty[k] # {}}
  <2>1. unclean \in Todo /\ Start(p, "merge", "merge", unclean)
    BY <1>5 DEF MergeStart, Todo
  <2> HIDE DEF unclean
  <2>2. /\ call' \in [Procs -> Calls] /\ \A q \in Procs : q # p => call'[q] = call[q]
        /\ call[p] = Idle /\ call'[p] = [op |-> "merge", pc |-> "merge", todo |-> unclean]
        /\ ops' \in 0..MaxOps
    BY <2>1, Starting
  <2> QED BY <1>5, <2>1, <2>2 DEF MergeCalls, MergeStart
<1> QED BY <1>1, <1>2, <1>3, <1>4, <1>5

LEMMA CommitKnown ==
  ASSUME TypeInv, NEW p \in Procs
  PROVE  /\ CommitClean(p) => Returned(p) \/ Onward(p)
         /\ CommitCheck(p) => Returned(p) \/ (On(p, "snapshot") /\ lock' = lock)
         /\ Snapshot(p) => /\ OthersStay(p)
                           /\ call'[p] = [op |-> "commit", pc |-> "checkout", todo |-> call[p].todo,
                                          snap |-> dirty[Now(p)]]
         /\ Checkout(p) => /\ OthersStay(p)
                           /\ call'[p] = [op |-> "commit", pc |-> "apply", todo |-> call[p].todo,
                                          snap |-> call[p].snap]
         /\ Apply(p) => /\ OthersStay(p)
                        /\ call'[p] = [op |-> "commit", pc |-> "drop", todo |-> call[p].todo,
                                       snap |-> call[p].snap]
         /\ ApplyConflict(p) => Returned(p)
         /\ Drop(p) => On(p, "commit")
         /\ GitCommit(p) => On(p, "row")
         /\ CommitRow(p) => On(p, "list")
<1> USE DEF OthersStay, On, Returned, Onward
<1>1. ASSUME CommitClean(p) PROVE Returned(p) \/ Onward(p)
  <2>1. call[p] \in CommitCalls /\ NextTarget(p, "look")
    BY <1>1, CallKnown DEF CommitClean
  <2> QED BY <2>1, NextKnown
<1>2. ASSUME CommitCheck(p) PROVE Returned(p) \/ (On(p, "snapshot") /\ lock' = lock)
  <2>1. call[p] \in CommitCalls /\ (Return(p) \/ (Goto(p, "snapshot") /\ lock' = lock))
    BY <1>2, CallKnown DEF CommitCheck
  <2>2. CASE Return(p)
    BY <2>2, Returning
  <2>3. CASE Goto(p, "snapshot") /\ lock' = lock
    <3>1. call[p].op = "commit" /\ [op |-> "commit", pc |-> "snapshot", todo |-> call[p].todo] \in Calls
      BY <2>1 DEF CommitCalls, Calls
    <3> QED BY <2>1, <2>3, <3>1, Going
  <2> QED BY <2>1, <2>2, <2>3
<1>3. ASSUME Snapshot(p)
      PROVE  /\ OthersStay(p)
             /\ call'[p] = [op |-> "commit", pc |-> "checkout", todo |-> call[p].todo, snap |-> dirty[Now(p)]]
  <2> DEFINE next == [op |-> "commit", pc |-> "checkout", todo |-> call[p].todo, snap |-> dirty[Now(p)]]
  <2>1. call[p] \in CommitCalls
    BY <1>3, CallKnown DEF Snapshot
  <2>2. call[p] \notin {Idle} \union DispatchCalls
    BY <2>1 DEF CommitCalls, Idle, DispatchCalls
  <2>3. next \in MovingCalls
    BY <2>2, NowKnown DEF TypeInv, MovingCalls
  <2>4. call' = [call EXCEPT ![p] = next]
    BY <1>3 DEF Snapshot
  <2> HIDE DEF next
  <2>5. OthersStay(p) /\ call'[p] = next
    BY <2>3, <2>4, Replaced DEF Calls
  <2> QED BY <2>5 DEF next
<1>4. ASSUME Checkout(p) \/ Apply(p)
      PROVE  /\ OthersStay(p)
             /\ Checkout(p) => call'[p] = [op |-> "commit", pc |-> "apply", todo |-> call[p].todo, snap |-> call[p].snap]
             /\ Apply(p) => call'[p] = [op |-> "commit", pc |-> "drop", todo |-> call[p].todo, snap |-> call[p].snap]
  <2>1. call[p] \in MovingCalls
    BY <1>4, CallKnown DEF Checkout, Apply
  <2>2. \A pc \in {"apply", "drop"} :
          [op |-> "commit", pc |-> pc, todo |-> call[p].todo, snap |-> call[p].snap] \in Calls
    BY <2>1 DEF MovingCalls, Calls
  <2>3. CASE Checkout(p)
    <3>1. Goto(p, "apply") /\ ~Apply(p)
      BY <2>3 DEF Checkout, Apply, At
    <3> QED BY <2>1, <2>2, <3>1, Going
  <2>4. CASE Apply(p)
    <3>1. Goto(p, "drop") /\ ~Checkout(p)
      BY <2>4 DEF Apply, Checkout, At
    <3> QED BY <2>1, <2>2, <3>1, Going
  <2> QED BY <1>4, <2>3, <2>4
<1>5. ASSUME ApplyConflict(p) PROVE Returned(p)
  BY <1>5, Returning DEF ApplyConflict
<1>6. ASSUME Drop(p) PROVE On(p, "commit")
  <2> DEFINE next == [op |-> "commit", pc |-> "commit", todo |-> call[p].todo]
  <2>1. call[p] \in MovingCalls
    BY <1>6, CallKnown DEF Drop
  <2>2. next \in Calls /\ call[p].op = "commit"
    BY <2>1 DEF MovingCalls, CommitCalls, Calls
  <2>3. call' = [call EXCEPT ![p] = next]
    BY <1>6 DEF Drop
  <2> HIDE DEF next
  <2>4. OthersStay(p) /\ call'[p] = next
    BY <2>2, <2>3, Replaced
  <2> QED BY <2>2, <2>4 DEF next
<1>7. ASSUME GitCommit(p) \/ CommitRow(p)
      PROVE  (GitCommit(p) => On(p, "row")) /\ (CommitRow(p) => On(p, "list"))
  <2>1. call[p] \in CommitCalls
    BY <1>7, CallKnown DEF GitCommit, CommitRow
  <2>2. call[p].op = "commit" /\ \A pc \in {"row", "list"} : [op |-> "commit", pc |-> pc, todo |-> call[p].todo] \in Calls
    BY <2>1 DEF CommitCalls, Calls
  <2>3. CASE GitCommit(p)
    <3>1. Goto(p, "row") /\ ~CommitRow(p)
      BY <2>3 DEF GitCommit, CommitRow, At
    <3> QED BY <2>1, <2>2, <3>1, Going
  <2>4. CASE CommitRow(p)
    <3>1. Goto(p, "list") /\ ~GitCommit(p)
      BY <2>4 DEF GitCommit, CommitRow, At
    <3> QED BY <2>1, <2>2, <3>1, Going
  <2> QED BY <1>7, <2>3, <2>4
<1> QED BY <1>1, <1>2, <1>3, <1>4, <1>5, <1>6, <1>7

\* A comment of the list is marked, and then the next one, or the next target's turn has come.
Marked(p) ==
  \/ Returned(p) \/ Onward(p)
  \/ /\ OthersStay(p) /\ lock' = lock /\ call'[p] \in MarkCalls
     /\ call'[p].op = call[p].op /\ call'[p].todo = call[p].todo /\ call'[p].list \subseteq call[p].list

LEMMA FeedbackStepsKnown ==
  ASSUME TypeInv, NEW p \in Procs
  PROVE  /\ ListFeedback(p) =>
              \/ Returned(p) \/ Onward(p)
              \/ /\ OthersStay(p) /\ lock' = lock
                 /\ Listed(p) \in Lists
                 /\ call'[p] = [op |-> call[p].op, pc |-> "mark", todo |-> call[p].todo, list |-> Listed(p)]
         /\ MarkFeedback(p) =>
              /\ Marked(p)
              /\ \E c \in call[p].list : feedback' = [feedback EXCEPT ![c] = Mark[call[p].op].to]
<1> USE DEF OthersStay, On, Returned, Onward
<1>1. ASSUME ListFeedback(p)
      PROVE  \/ Returned(p) \/ Onward(p)
             \/ /\ OthersStay(p) /\ lock' = lock
                /\ Listed(p) \in Lists
                /\ call'[p] = [op |-> call[p].op, pc |-> "mark", todo |-> call[p].todo, list |-> Listed(p)]
  <2>1. call[p] \in CommitCalls \union PRCalls
    BY <1>1, CallKnown DEF ListFeedback
  <2>2. CASE Listed(p) = {}
    BY <1>1, <2>1, <2>2, NextKnown DEF ListFeedback
  <2>3. CASE Listed(p) # {}
    <3> DEFINE next == [op |-> call[p].op, pc |-> "mark", todo |-> call[p].todo, list |-> Listed(p)]
    <3>1. Listed(p) \in Lists
      BY <2>3 DEF Lists, Listed, ListRunReviewFeedback
    <3>2. next \in MarkCalls
      BY <2>1, <3>1 DEF CommitCalls, PRCalls, MarkCalls
    <3>3. call' = [call EXCEPT ![p] = next] /\ lock' = lock
      BY <1>1, <2>3 DEF ListFeedback
    <3> HIDE DEF next
    <3>4. OthersStay(p) /\ call'[p] = next
      BY <3>2, <3>3, Replaced DEF Calls
    <3> QED BY <3>1, <3>3, <3>4 DEF next
  <2> QED BY <2>2, <2>3
<1>2. ASSUME MarkFeedback(p)
      PROVE  /\ Marked(p)
             /\ \E c \in call[p].list : feedback' = [feedback EXCEPT ![c] = Mark[call[p].op].to]
  <2> DEFINE c == CHOOSE x \in call[p].list : \A y \in call[p].list : x[2] <= y[2]
  <2>1. call[p] \in MarkCalls
    BY <1>2, CallKnown DEF MarkFeedback
  <2>2. call[p].list \in Lists /\ c \in call[p].list
    BY <2>1, FirstComment DEF MarkCalls
  <2>3. feedback' = [feedback EXCEPT ![c] = Mark[call[p].op].to]
    BY <1>2 DEF MarkFeedback, UpdateRunReviewFeedbackStatus
  <2>4. CASE call[p].list = {c}
    <3>1. NextTarget(p, "look")
      BY <1>2, <2>4 DEF MarkFeedback
    <3> QED BY <2>1, <2>2, <2>3, <3>1, NextKnown DEF Marked
  <2>5. CASE call[p].list # {c}
    <3> DEFINE next == [op |-> call[p].op, pc |-> "mark", todo |-> call[p].todo, list |-> call[p].list \ {c}]
    <3>1. call' = [call EXCEPT ![p].list = @ \ {c}] /\ lock' = lock
      BY <1>2, <2>5 DEF MarkFeedback
    <3>2. [call[p] EXCEPT !.list = call[p].list \ {c}] = next
      BY <2>1 DEF MarkCalls
    <3>3. call[p].list \ {c} \in Lists
      BY <2>2, <2>5 DEF Lists
    <3>4. next \in MarkCalls
      BY <2>1, <3>3 DEF MarkCalls
    <3>5. call' = [call EXCEPT ![p] = [call[p] EXCEPT !.list = call[p].list \ {c}]]
      BY <3>1
    <3>6. call' = [call EXCEPT ![p] = next]
      BY <3>2, <3>5
    <3> HIDE DEF next, c
    <3>7. OthersStay(p) /\ call'[p] = next
      BY <3>4, <3>6, Replaced DEF Calls
    <3>8. Marked(p)
      BY <3>1, <3>4, <3>7 DEF Marked, next
    <3> QED BY <2>2, <2>3, <3>8
  <2> QED BY <2>4, <2>5
<1> QED BY <1>1, <1>2

LEMMA PRKnown ==
  ASSUME TypeInv, NEW p \in Procs
  PROVE  /\ PRExists(p) => On(p, "list")
         /\ PRCheck(p) => Returned(p) \/ (On(p, "push") /\ lock' = lock)
         /\ Push(p) => Returned(p) \/ (On(p, "create") /\ lock' = lock)
         /\ Create(p) => \/ Returned(p) /\ pulls' = pulls
                         \/ On(p, "row") /\ lock' = lock /\ pulls' = pulls \union {Now(p)}
         /\ PRRow(p) => On(p, "list")
<1> USE DEF OthersStay, On, Returned
<1>1. ASSUME call[p] \in PRCalls, NEW pc \in {"list", "push", "create", "row"}, Goto(p, pc)
      PROVE  On(p, pc)
  <2>1. call[p].op = "pr" /\ [op |-> "pr", pc |-> pc, todo |-> call[p].todo] \in Calls
    BY <1>1 DEF PRCalls, Calls
  <2> QED BY <1>1, <2>1, Going
<1>2. PRExists(p) => On(p, "list")
  BY <1>1, CallKnown DEF PRExists
<1>3. PRCheck(p) => Returned(p) \/ (On(p, "push") /\ lock' = lock)
  BY <1>1, CallKnown, Returning DEF PRCheck
<1>4. Push(p) => Returned(p) \/ (On(p, "create") /\ lock' = lock)
  BY <1>1, CallKnown, Returning DEF Push
<1>5. Create(p) => \/ Returned(p) /\ pulls' = pulls
                   \/ On(p, "row") /\ lock' = lock /\ pulls' = pulls \union {Now(p)}
  BY <1>1, CallKnown, Returning DEF Create
<1>6. PRRow(p) => On(p, "list")
  BY <1>1, CallKnown DEF PRRow
<1> QED BY <1>2, <1>3, <1>4, <1>5, <1>6

\* A sync has the rows in its memory.
Synced(p) ==
  /\ OthersStay(p) /\ lock' = lock
  /\ \/ call'[p] = Idle
     \/ call'[p] \in FetchCalls \union StoreCalls /\ call'[p].known = call[p].known

LEMMA SyncNextKnown ==
  ASSUME TypeInv, NEW p \in Procs, call[p] \in FetchCalls \union StoreCalls,
         NEW left \in Nat, SyncNext(p, left)
  PROVE  /\ OthersStay(p)
         /\ call'[p] = Idle \/ (call'[p] \in FetchCalls /\ call'[p].known = call[p].known)
<1>1. CASE call[p].todo = {Now(p)} \/ left = 0
  <2>1. call' = [call EXCEPT ![p] = Idle] /\ Idle \in Calls
    BY <1>1 DEF SyncNext, Calls
  <2> QED BY <2>1, Replaced DEF OthersStay
<1>2. CASE ~(call[p].todo = {Now(p)} \/ left = 0)
  <2> DEFINE next == [op |-> "sync", pc |-> "fetch", todo |-> call[p].todo \ {Now(p)},
                      known |-> call[p].known, left |-> left]
  <2>1. call[p] \notin {Idle} \union DispatchCalls
    BY DEF FetchCalls, StoreCalls, Idle, DispatchCalls
  <2>2. call[p].todo \ {Now(p)} \in Todo
    BY <1>2, <2>1, NowKnown DEF Todo
  <2>3. next \in FetchCalls
    BY <1>2, <2>2 DEF FetchCalls, StoreCalls
  <2>4. call' = [call EXCEPT ![p] = next]
    BY <1>2 DEF SyncNext
  <2>5. next.known = call[p].known
    OBVIOUS
  <2> HIDE DEF next
  <2> QED BY <2>3, <2>4, <2>5, Replaced DEF Calls, OthersStay
<1> QED BY <1>1, <1>2

LEMMA SyncKnown ==
  ASSUME TypeInv, NEW p \in Procs
  PROVE  /\ SyncRead(p) => OthersStay(p) /\ call'[p] \in FetchCalls /\ call'[p].known = feedback
         /\ SyncFetch(p) => call[p] \in FetchCalls /\ Synced(p)
         /\ SyncStore(p) => /\ call[p] \in StoreCalls /\ Synced(p)
                            /\ \E c \in call[p].list :
                                 UpsertRunReviewFeedback(c, StatusToStore(p, c))
<1> USE DEF OthersStay, Synced
<1>1. ASSUME SyncRead(p)
      PROVE  OthersStay(p) /\ call'[p] \in FetchCalls /\ call'[p].known = feedback
  <2> DEFINE next == [op |-> "sync", pc |-> "fetch", todo |-> call[p].todo, known |-> feedback, left |-> MaxItems]
  <2>1. call[p] \in ReadCalls
    BY <1>1, CallKnown DEF SyncRead
  <2>2. next \in FetchCalls /\ next.known = feedback
    BY <2>1, ReviewAssumption DEF ReadCalls, FetchCalls, TypeInv
  <2>3. call' = [call EXCEPT ![p] = next]
    BY <1>1 DEF SyncRead
  <2> HIDE DEF next
  <2> QED BY <2>2, <2>3, Replaced DEF Calls
<1>2. ASSUME SyncFetch(p)
      PROVE  call[p] \in FetchCalls /\ Synced(p)
  <2> DEFINE found == {c \in Comments : c[1] = Now(p) /\ feedback[c] # "none"}
             next == [op |-> "sync", pc |-> "store", todo |-> call[p].todo,
                      known |-> call[p].known, left |-> call[p].left, list |-> found]
  <2>1. call[p] \in FetchCalls
    BY <1>2, CallKnown DEF SyncFetch
  <2>2. CASE found = {}
    <3>1. SyncNext(p, call[p].left) /\ lock' = lock /\ call[p].left \in Nat
      BY <1>2, <2>1, <2>2 DEF SyncFetch, FetchCalls
    <3> QED BY <2>1, <3>1, SyncNextKnown
  <2>3. CASE found # {}
    <3>1. found \in Lists
      BY <2>3 DEF Lists
    <3>2. next \in StoreCalls /\ next.known = call[p].known
      BY <2>1, <3>1 DEF FetchCalls, StoreCalls
    <3>3. call' = [call EXCEPT ![p] = next] /\ lock' = lock
      BY <1>2, <2>3 DEF SyncFetch
    <3> HIDE DEF next, found
    <3> QED BY <2>1, <3>2, <3>3, Replaced DEF Calls
  <2> QED BY <2>2, <2>3
<1>3. ASSUME SyncStore(p)
      PROVE  /\ call[p] \in StoreCalls /\ Synced(p)
             /\ \E c \in call[p].list : UpsertRunReviewFeedback(c, StatusToStore(p, c))
  <2> DEFINE c == CHOOSE x \in call[p].list : \A y \in call[p].list : x[2] <= y[2]
             left == call[p].left - 1
  <2>1. call[p] \in StoreCalls
    BY <1>3, CallKnown DEF SyncStore
  <2>2. call[p].list \in Lists /\ c \in call[p].list /\ left \in Nat
    BY <2>1, FirstComment DEF StoreCalls
  <2>3. UpsertRunReviewFeedback(c, StatusToStore(p, c)) /\ lock' = lock
    BY <1>3 DEF SyncStore
  <2>4. CASE call[p].list = {c} \/ left = 0
    <3>1. SyncNext(p, left)
      BY <1>3, <2>4 DEF SyncStore
    <3> HIDE DEF c, left
    <3> QED BY <2>1, <2>2, <2>3, <3>1, SyncNextKnown
  <2>5. CASE ~(call[p].list = {c} \/ left = 0)
    <3> DEFINE next == [op |-> "sync", pc |-> "store", todo |-> call[p].todo,
                        known |-> call[p].known, left |-> left, list |-> call[p].list \ {c}]
    <3>1. call' = [call EXCEPT ![p].list = @ \ {c}, ![p].left = left]
      BY <1>3, <2>5 DEF SyncStore
    <3>2. call \in [Procs -> Calls]
      BY DEF TypeInv
    <3> HIDE DEF c, left
    <3> DEFINE mid == [op |-> "sync", pc |-> "store", todo |-> call[p].todo,
                       known |-> call[p].known, left |-> call[p].left, list |-> call[p].list \ {c}]
    <3>9. [call[p] EXCEPT !.list = call[p].list \ {c}] = mid
      BY <2>1 DEF StoreCalls
    <3>10. [mid EXCEPT !.left = left] = next
      OBVIOUS
    <3>3. [[call[p] EXCEPT !.list = call[p].list \ {c}] EXCEPT !.left = left] = next
      BY <3>9, <3>10
    <3>4. call' = [call EXCEPT ![p] = [[call[p] EXCEPT !.list = call[p].list \ {c}] EXCEPT !.left = left]]
      BY <3>1, <3>2
    <3>5. call' = [call EXCEPT ![p] = next]
      BY <3>3, <3>4
    <3>6. call[p].list \ {c} \in Lists /\ left \in Nat \ {0}
      BY <2>2, <2>5 DEF Lists
    <3>7. next \in StoreCalls /\ next.known = call[p].known
      BY <2>1, <3>6 DEF StoreCalls
    <3> HIDE DEF next
    <3>8. Synced(p)
      BY <2>3, <3>5, <3>7, Replaced DEF Calls
    <3> QED BY <2>1, <2>2, <2>3, <3>8
  <2> QED BY <2>4, <2>5
<1> QED BY <1>1, <1>2, <1>3

LEMMA OtherStepsKnown ==
  ASSUME TypeInv, NEW p \in Procs
  PROVE  /\ DispatchIterate(p) => call[p] \in DispatchCalls /\ Returned(p)
         /\ MergeOne(p) => call[p] \in MergeCalls /\ (Returned(p) \/ Onward(p))
         /\ Fails(p) => Returned(p)
         /\ Dies(p) => OthersStay(p) /\ call'[p] = Idle /\ lock' = IF Inside(p) THEN Dead ELSE lock
<1> USE DEF OthersStay, Returned, Onward
<1>1. DispatchIterate(p) => call[p] \in DispatchCalls /\ Returned(p)
  BY CallKnown, Returning DEF DispatchIterate
<1>2. MergeOne(p) => call[p] \in MergeCalls /\ (Returned(p) \/ Onward(p))
  BY CallKnown, NextKnown DEF MergeOne
<1>3. Fails(p) => Returned(p)
  BY Returning DEF Fails
<1>4. Dies(p) => OthersStay(p) /\ call'[p] = Idle /\ lock' = IF Inside(p) THEN Dead ELSE lock
  BY Replaced DEF Dies, Calls
<1> QED BY <1>1, <1>2, <1>3, <1>4

-----------------------------------------------------------------------------
(* Types and the lock *)

\* What a step of process p does to the lock file.
LockMove(p) ==
  \/ lock' = lock /\ (Inside(p)' <=> Inside(p))
  \/ lock = None /\ lock' = p /\ Inside(p)'
  \/ Inside(p) /\ ~Inside(p)' /\ (lock' = None \/ (lock' = Dead /\ faults' > 0))

LEMMA LockMoves ==
  ASSUME NEW p \in Procs
  PROVE  /\ call'[p].op = call[p].op /\ lock' = lock => LockMove(p)
         /\ Returned(p) => LockMove(p) /\ OthersStay(p)
         /\ Onward(p) => LockMove(p) /\ OthersStay(p)
         /\ \A pc : On(p, pc) => OthersStay(p) /\ (lock' = lock => LockMove(p))
<1>1. ~(Idle.op \in Mutating)
  BY DEF Idle, Mutating, None
<1>2. call'[p].op = call[p].op /\ lock' = lock => LockMove(p)
  BY DEF LockMove, Inside
<1>3. Returned(p) => LockMove(p) /\ OthersStay(p)
  BY <1>1 DEF Returned, LockMove, Inside
<1>4. Onward(p) => LockMove(p) /\ OthersStay(p)
  BY <1>2 DEF Onward
<1>5. \A pc : On(p, pc) => OthersStay(p) /\ (lock' = lock => LockMove(p))
  BY <1>2 DEF On
<1> QED BY <1>2, <1>3, <1>4, <1>5

LEMMA StartMoves ==
  ASSUME TypeInv, NEW p \in Procs,
         CommitStart(p) \/ PRStart(p) \/ SyncStart(p) \/ DispatchStart(p) \/ MergeStart(p)
  PROVE  OthersStay(p) /\ LockMove(p) /\ TypeInv'
<1>1. OthersStay(p) /\ LockMove(p) /\ ops' \in 0..MaxOps /\ lock' \in {lock, p}
  BY StartKnown DEF LockMove, Inside, Idle, Mutating, None, CommitCalls, PRCalls, ReadCalls, DispatchCalls, MergeCalls
<1>2. UNCHANGED <<run, git, hub, rows, fb, merged, past, edits, faults>>
  BY DEF CommitStart, PRStart, SyncStart, DispatchStart, MergeStart
<1> QED BY <1>1, <1>2 DEF TypeInv, OthersStay, git, hub, fb, past

LEMMA CommitMoves ==
  ASSUME TypeInv, NEW p \in Procs
  PROVE  /\ CommitClean(p) \/ CommitCheck(p) => OthersStay(p) /\ LockMove(p) /\ TypeInv'
         /\ Snapshot(p) \/ Checkout(p) \/ Apply(p) => OthersStay(p) /\ LockMove(p) /\ TypeInv'
         /\ ApplyConflict(p) \/ Drop(p) => OthersStay(p) /\ LockMove(p) /\ TypeInv'
         /\ GitCommit(p) \/ CommitRow(p) => OthersStay(p) /\ LockMove(p) /\ TypeInv'
<1>1. ASSUME CommitClean(p) \/ CommitCheck(p)
      PROVE  OthersStay(p) /\ LockMove(p) /\ TypeInv'
  <2>1. OthersStay(p) /\ LockMove(p)
    BY <1>1, CommitKnown, LockMoves
  <2>2. UNCHANGED <<run, git, hub, rows, fb, merged, unwritten, early, late, edits, ops, faults>>
    BY <1>1 DEF CommitClean, CommitCheck, past
  <2>3. overlooked' \subseteq Forbidden
    BY <1>1 DEF CommitClean, CommitCheck, past, TypeInv
  <2> QED BY <2>1, <2>2, <2>3 DEF TypeInv, OthersStay, LockMove, git, hub, fb
<1>2. ASSUME Snapshot(p) \/ Checkout(p) \/ Apply(p)
      PROVE  OthersStay(p) /\ LockMove(p) /\ TypeInv'
  <2>1. call[p].op = "commit" /\ lock' = lock
    BY <1>2 DEF Snapshot, Checkout, Apply, At
  <2> DEFINE next(pc, snap) == [op |-> "commit", pc |-> pc, todo |-> call[p].todo, snap |-> snap]
  <2>8. \A pc, snap : next(pc, snap).op = "commit"
    OBVIOUS
  <2>9. OthersStay(p) /\ \E pc, snap : call'[p] = next(pc, snap)
    BY <1>2, CommitKnown
  <2> HIDE DEF next
  <2>2. OthersStay(p) /\ call'[p].op = "commit"
    BY <2>8, <2>9
  <2>3. LockMove(p)
    BY <2>1, <2>2, LockMoves
  <2>4. call[p] \in CommitCalls \union MovingCalls /\ Now(p) \in Targets
    BY <1>2, CallKnown, NowKnown DEF Snapshot, Checkout, Apply, CommitCalls, MovingCalls, Idle, DispatchCalls
  <2>5. CASE Snapshot(p)
    BY <2>1, <2>2, <2>3, <2>4, <2>5 DEF TypeInv, OthersStay, Snapshot, hub, fb, past
  <2>6. CASE Checkout(p)
    BY <2>1, <2>2, <2>3, <2>4, <2>6 DEF TypeInv, OthersStay, Checkout, hub, fb, past
  <2>7. CASE Apply(p)
    <3>1. call[p].snap \subseteq Edits
      BY <2>7, CallKnown DEF Apply, MovingCalls
    <3> QED BY <2>1, <2>2, <2>3, <2>4, <2>7, <3>1 DEF TypeInv, OthersStay, Apply, hub, fb, past
  <2> QED BY <1>2, <2>5, <2>6, <2>7
<1>3. ASSUME ApplyConflict(p) \/ Drop(p)
      PROVE  OthersStay(p) /\ LockMove(p) /\ TypeInv'
  <2>1. call[p] \in MovingCalls /\ call[p].snap \subseteq Edits
    BY <1>3, CallKnown DEF ApplyConflict, Drop, MovingCalls, At
  <2>2. Now(p) \in Targets
    BY <2>1, NowKnown DEF MovingCalls, Idle, DispatchCalls
  <2>3. OthersStay(p) /\ LockMove(p)
    BY <1>3, CommitKnown, LockMoves DEF Drop
  <2>4. CASE ApplyConflict(p)
    <3>1. dirty' \in [Targets -> SUBSET Edits]
      BY <2>1, <2>2, <2>4 DEF ApplyConflict, TypeInv
    <3>2. faults' \in 0..MaxFaults
      BY <2>4, ReviewAssumption DEF ApplyConflict, TypeInv
    <3> QED BY <2>3, <2>4, <3>1, <3>2 DEF TypeInv, OthersStay, LockMove, ApplyConflict, hub, fb, past
  <2>5. CASE Drop(p)
    BY <2>1, <2>2, <2>3, <2>5 DEF TypeInv, OthersStay, Drop, hub, fb, past
  <2> QED BY <1>3, <2>4, <2>5
<1>4. ASSUME GitCommit(p) \/ CommitRow(p)
      PROVE  OthersStay(p) /\ LockMove(p) /\ TypeInv'
  <2>1. call[p] \in CommitCalls
    BY <1>4, CallKnown DEF GitCommit, CommitRow
  <2>2. Now(p) \in Targets
    BY <2>1, NowKnown DEF CommitCalls, Idle, DispatchCalls
  <2>3. OthersStay(p) /\ LockMove(p)
    BY <1>4, CommitKnown, LockMoves DEF GitCommit, CommitRow
  <2>4. CASE GitCommit(p)
    BY <2>2, <2>3, <2>4 DEF TypeInv, OthersStay, GitCommit, hub, fb, past
  <2>5. CASE CommitRow(p)
    <3>5. rows[Now(p)] \in Row => rows[Now(p)].url \in BOOLEAN
      BY DEF Row
    <3>6. NoRow.url \in BOOLEAN
      BY DEF NoRow
    <3>1. rows[Now(p)].url \in BOOLEAN /\ tip[Now(p)] \in SUBSET Edits
      BY <2>2, <3>5, <3>6 DEF TypeInv
    <3>2. rows' = [rows EXCEPT ![Now(p)] = [sha |-> tip[Now(p)], url |-> rows[Now(p)].url]]
      BY <2>5 DEF CommitRow
    <3>3. [sha |-> tip[Now(p)], url |-> rows[Now(p)].url] \in Row
      BY <3>1 DEF Row
    <3>4. rows' \in [Targets -> Row \union {NoRow}]
      BY <3>2, <3>3 DEF TypeInv
    <3> QED BY <2>3, <2>5, <3>4 DEF TypeInv, OthersStay, CommitRow, git, hub, fb
  <2> QED BY <1>4, <2>4, <2>5
<1> QED BY <1>1, <1>2, <1>3, <1>4

LEMMA MarkTo == Mark["commit"].to = "new" /\ Mark["pr"].to = "addressed"
                /\ Mark["commit"].from = "queued" /\ Mark["pr"].from = "new"
  BY DEF Mark

LEMMA FeedbackMoves ==
  ASSUME TypeInv, NEW p \in Procs, ListFeedback(p) \/ MarkFeedback(p)
  PROVE  OthersStay(p) /\ LockMove(p) /\ TypeInv'
<1>1. CASE ListFeedback(p)
  <2> DEFINE next == [op |-> call[p].op, pc |-> "mark", todo |-> call[p].todo, list |-> Listed(p)]
  <2>1. next.op = call[p].op
    OBVIOUS
  <2>2. \/ Returned(p) \/ Onward(p)
        \/ OthersStay(p) /\ lock' = lock /\ call'[p] = next
    BY <1>1, FeedbackStepsKnown
  <2> HIDE DEF next
  <2>3. OthersStay(p) /\ LockMove(p)
    BY <2>1, <2>2, LockMoves
  <2>4. UNCHANGED <<run, git, hub, rows, fb, merged, past, edits, ops, faults>>
    BY <1>1 DEF ListFeedback
  <2> QED BY <2>3, <2>4 DEF TypeInv, OthersStay, LockMove, git, hub, fb, past
<1>2. CASE MarkFeedback(p)
  <2>1. call[p] \in MarkCalls
    BY <1>2, CallKnown DEF MarkFeedback
  <2>2. call[p].op \in {"commit", "pr"} /\ call[p].list \subseteq Comments
    BY <2>1 DEF MarkCalls, Lists
  <2>3. PICK c \in call[p].list : feedback' = [feedback EXCEPT ![c] = Mark[call[p].op].to]
    BY <1>2, FeedbackStepsKnown
  <2>4. Mark[call[p].op].to \in Statuses
    BY <2>2, MarkTo DEF Statuses
  <2>5. feedback' \in [Comments -> Statuses]
    BY <2>2, <2>3, <2>4 DEF TypeInv
  <2>6. OthersStay(p) /\ LockMove(p)
    BY <1>2, FeedbackStepsKnown, LockMoves DEF Marked
  <2>7. UNCHANGED <<run, git, hub, rows, asked, told, merged, past, edits, ops, faults>>
    BY <1>2 DEF MarkFeedback
  <2> QED BY <2>5, <2>6, <2>7 DEF TypeInv, OthersStay, LockMove, git, hub, past
<1> QED BY <1>1, <1>2

LEMMA NoRowIsNone == NoRow \notin Row
  BY DEF NoRow, Row

LEMMA PRMoves ==
  ASSUME TypeInv, RowsThere, NEW p \in Procs, PRExists(p) \/ PRCheck(p) \/ Push(p) \/ Create(p) \/ PRRow(p)
  PROVE  OthersStay(p) /\ LockMove(p) /\ TypeInv'
<1>1. call[p] \in PRCalls
  BY CallKnown DEF PRExists, PRCheck, Push, Create, PRRow
<1>2. Now(p) \in Targets
  BY <1>1, NowKnown DEF PRCalls, Idle, DispatchCalls
<1>3. OthersStay(p) /\ LockMove(p)
  BY PRKnown, LockMoves DEF PRExists, PRRow
<1>4. CASE PRExists(p) \/ PRCheck(p)
  <2>1. UNCHANGED <<run, git, hub, rows, fb, merged, past, edits, ops, faults>>
    BY <1>4 DEF PRExists, PRCheck
  <2> QED BY <1>3, <2>1 DEF TypeInv, OthersStay, LockMove, git, hub, fb, past
<1>5. CASE Push(p)
  <2>1. remote' \in [Targets -> SUBSET Edits]
    BY <1>2, <1>5 DEF Push, TypeInv
  <2> QED BY <1>3, <1>5, <2>1 DEF TypeInv, OthersStay, LockMove, Push, git, fb, past
<1>6. CASE Create(p)
  <2>1. pulls' \subseteq Targets
    BY <1>2, <1>6 DEF Create, TypeInv
  <2> QED BY <1>3, <1>6, <2>1 DEF TypeInv, OthersStay, LockMove, Create, git, fb, past
<1>7. CASE PRRow(p)
  <2>1. rows' = [rows EXCEPT ![Now(p)] = [rows[Now(p)] EXCEPT !.url = TRUE]]
    BY <1>7 DEF PRRow, TypeInv
  <2>4. Now(p) \in call[p].todo /\ call[p].op = "pr"
    BY <1>1, NowKnown DEF PRCalls, Idle, DispatchCalls
  <2>5. rows[Now(p)] \in Row
    BY <1>2, <2>4 DEF RowsThere, TypeInv
  <2>2. rows[Now(p)] \in Row => [rows[Now(p)] EXCEPT !.url = TRUE] \in Row
    BY DEF Row
  <2>3. rows' \in [Targets -> Row \union {NoRow}]
    BY <1>2, <2>1, <2>2, <2>5 DEF TypeInv
  <2> QED BY <1>3, <1>7, <2>3 DEF TypeInv, OthersStay, LockMove, PRRow, git, hub, fb
<1> QED BY <1>4, <1>5, <1>6, <1>7

LEMMA Stored ==
  ASSUME TypeInv, NEW p \in Procs, call[p] \in StoreCalls, NEW c \in Comments
  PROVE  \/ StatusToStore(p, c) = "queued"
         \/ StatusToStore(p, c) = call[p].known[c] /\ call[p].known[c] \in {"queued", "new", "addressed"}
<1>1. call[p].known[c] \in Statuses
  BY DEF StoreCalls
<1> QED BY <1>1 DEF StatusToStore, Rank, Statuses

LEMMA SyncMoves ==
  ASSUME TypeInv, NEW p \in Procs, SyncRead(p) \/ SyncFetch(p) \/ SyncStore(p)
  PROVE  OthersStay(p) /\ LockMove(p) /\ TypeInv'
<1>1. ~Inside(p)
  BY DEF SyncRead, SyncFetch, SyncStore, At, Inside, Mutating
<1>2. OthersStay(p) /\ ~Inside(p)' /\ lock' = lock
  <2>1. OthersStay(p) /\ call'[p] \in {Idle} \union FetchCalls \union StoreCalls
    BY SyncKnown DEF Synced
  <2>2. lock' = lock
    BY DEF SyncRead, SyncFetch, SyncStore
  <2> QED BY <2>1, <2>2 DEF Inside, Mutating, Idle, None, FetchCalls, StoreCalls
<1>3. LockMove(p)
  BY <1>1, <1>2 DEF LockMove
<1>4. CASE SyncRead(p) \/ SyncFetch(p)
  <2>1. UNCHANGED <<run, git, hub, rows, fb, merged, past, edits, ops, faults>>
    BY <1>4 DEF SyncRead, SyncFetch
  <2> QED BY <1>2, <1>3, <2>1 DEF TypeInv, OthersStay, git, hub, fb, past
<1>5. CASE SyncStore(p)
  <2>1. call[p] \in StoreCalls
    BY <1>5, SyncKnown
  <2>2. PICK c \in call[p].list : UpsertRunReviewFeedback(c, StatusToStore(p, c))
    BY <1>5, SyncKnown
  <2>3. c \in Comments /\ c[1] \in Targets
    BY <2>1 DEF StoreCalls, Lists, Comments
  <2>4. StatusToStore(p, c) \in Statuses
    BY <2>1, <2>3, Stored DEF Statuses
  <2>5. /\ feedback' \in [Comments -> Statuses] /\ asked' \in [Comments -> SUBSET Edits]
        /\ early' \subseteq Comments
    BY <2>2, <2>3, <2>4 DEF UpsertRunReviewFeedback, TypeInv
  <2>6. UNCHANGED <<run, git, hub, rows, told, merged, unwritten, late, overlooked, edits, ops, faults>>
    BY <1>5 DEF SyncStore
  <2> QED BY <1>2, <1>3, <2>5, <2>6 DEF TypeInv, OthersStay, git, hub
<1> QED BY <1>4, <1>5

LEMMA OtherMoves ==
  ASSUME TypeInv, NEW p \in Procs, DispatchIterate(p) \/ MergeOne(p) \/ Fails(p) \/ Dies(p)
  PROVE  OthersStay(p) /\ LockMove(p) /\ TypeInv'
<1>1. CASE DispatchIterate(p)
  <2>1. OthersStay(p) /\ LockMove(p)
    BY <1>1, OtherStepsKnown, LockMoves
  <2>2. told' \subseteq Comments
    BY <1>1, OtherStepsKnown DEF DispatchIterate, TypeInv, DispatchCalls, Lists
  <2> QED BY <1>1, <2>1, <2>2 DEF TypeInv, OthersStay, LockMove, DispatchIterate, git, hub, past
<1>2. CASE MergeOne(p)
  <2>1. OthersStay(p) /\ LockMove(p) /\ call[p] \in MergeCalls
    BY <1>2, OtherStepsKnown, LockMoves
  <2>2. Now(p) \in Targets
    BY <2>1, NowKnown DEF MergeCalls, Idle, DispatchCalls
  <2> QED BY <1>2, <2>1, <2>2 DEF TypeInv, OthersStay, LockMove, MergeOne, git, hub, fb, past
<1>3. CASE Fails(p)
  <2>1. OthersStay(p) /\ LockMove(p)
    BY <1>3, OtherStepsKnown, LockMoves
  <2>2. faults' \in 0..MaxFaults
    BY <1>3, ReviewAssumption DEF Fails, TypeInv
  <2>3. call[p].pc = "row" => <<call[p].op, Now(p)>> \in Mutating \X Targets
    <3>1. call[p].pc = "row" => call[p] \in CommitCalls \union PRCalls
      BY DEF TypeInv, Calls, CommitCalls, MovingCalls, PRCalls, MarkCalls, ReadCalls, FetchCalls, StoreCalls,
             DispatchCalls, MergeCalls, Idle
    <3>2. call[p] \in CommitCalls \union PRCalls => Now(p) \in Targets
      BY NowKnown DEF CommitCalls, PRCalls, Idle, DispatchCalls
    <3> QED BY <3>1, <3>2 DEF CommitCalls, PRCalls, Mutating
  <2>4. unwritten' \subseteq Mutating \X Targets
    BY <1>3, <2>3 DEF Fails, TypeInv
  <2> QED BY <1>3, <2>1, <2>2, <2>4 DEF TypeInv, OthersStay, LockMove, Fails, git, hub, fb
<1>4. CASE Dies(p)
  <2>1. faults' \in 0..MaxFaults /\ faults' > 0
    BY <1>4, ReviewAssumption DEF Dies, TypeInv
  <2>2. OthersStay(p) /\ LockMove(p)
    BY <1>4, <2>1, OtherStepsKnown DEF LockMove, Inside, Idle, Mutating, None
  <2> QED BY <1>4, <2>1, <2>2 DEF TypeInv, OthersStay, LockMove, Dies, git, hub, fb, past
<1> QED BY <1>1, <1>2, <1>3, <1>4

LEMMA StepMoves ==
  ASSUME TypeInv, RowsThere, NEW p \in Procs, Step(p)
  PROVE  OthersStay(p) /\ LockMove(p) /\ TypeInv'
  BY StartMoves, CommitMoves, FeedbackMoves, PRMoves, SyncMoves, OtherMoves DEF Step

\* Agents, users and reviewers.
Outside ==
  \/ \E k \in Targets : Edit(k)
  \/ \E c \in Comments : Comment(c)
  \/ AgentsDone \/ CloseRun

LEMMA OutsideTyped ==
  ASSUME TypeInv, Outside
  PROVE  TypeInv' /\ call' = call /\ lock' = lock /\ faults' = faults
<1>1. ASSUME NEW k \in Targets, Edit(k)
      PROVE  TypeInv' /\ call' = call /\ lock' = lock /\ faults' = faults
  <2>1. edits' \in 1..MaxEdits /\ edits' = edits + 1
    BY <1>1, ReviewAssumption DEF Edit, TypeInv
  <2>2. dirty' \in [Targets -> SUBSET Edits]
    BY <1>1, <2>1 DEF Edit, TypeInv, Edits
  <2>3. late' \subseteq 1..edits'
    BY <1>1, <2>1 DEF Edit, TypeInv
  <2>4. edits' \in 0..MaxEdits
    BY <2>1, ReviewAssumption
  <2> QED BY <1>1, <2>2, <2>3, <2>4 DEF TypeInv, Edit, hub, fb
<1>2. ASSUME NEW c \in Comments, Comment(c)
      PROVE  TypeInv' /\ call' = call /\ lock' = lock /\ faults' = faults
  <2>1. feedback' \in [Comments -> Statuses]
    BY <1>2 DEF Comment, TypeInv, Statuses
  <2> QED BY <1>2, <2>1 DEF TypeInv, Comment, git, hub, past
<1>3. ASSUME AgentsDone \/ CloseRun
      PROVE  TypeInv' /\ call' = call /\ lock' = lock /\ faults' = faults
  BY <1>3 DEF AgentsDone, CloseRun, TypeInv, git, hub, fb, past
<1> QED BY <1>1, <1>2, <1>3 DEF Outside

LEMMA SameWork ==
  ASSUME TypeInv, NEW p \in Procs, Step(p), Inside(p)'
  PROVE  \/ CommitStart(p) \/ PRStart(p)
         \/ call'[p].op = call[p].op /\ call'[p].todo \subseteq call[p].todo
<1>1. ~(Idle.op \in Mutating)
  BY DEF Idle, Mutating, None
<1>2. call'[p] \notin {Idle} \union ReadCalls \union FetchCalls \union StoreCalls \union DispatchCalls \union MergeCalls
  BY <1>1 DEF Inside, Mutating, ReadCalls, FetchCalls, StoreCalls, DispatchCalls, MergeCalls
<1>3. /\ ~Returned(p) /\ ~Synced(p) /\ ~Fails(p) /\ ~Dies(p) /\ ~DispatchIterate(p)
      /\ ~SyncStart(p) /\ ~DispatchStart(p) /\ ~MergeStart(p) /\ ~SyncRead(p) /\ ~SyncFetch(p) /\ ~SyncStore(p)
  BY <1>2, StartKnown, SyncKnown, OtherStepsKnown DEF Returned, Synced
<1>4. Onward(p) => call'[p].op = call[p].op /\ call'[p].todo \subseteq call[p].todo
  BY DEF Onward
<1>5. \A pc : On(p, pc) => call'[p].op = call[p].op /\ call'[p].todo \subseteq call[p].todo
  BY DEF On
<1>6. CASE CommitClean(p) \/ CommitCheck(p) \/ ApplyConflict(p) \/ Drop(p) \/ GitCommit(p) \/ CommitRow(p)
  BY <1>3, <1>4, <1>5, <1>6, CommitKnown
<1>7. CASE Snapshot(p) \/ Checkout(p) \/ Apply(p)
  <2> DEFINE next(pc, snap) == [op |-> "commit", pc |-> pc, todo |-> call[p].todo, snap |-> snap]
  <2>1. \A pc, snap : next(pc, snap).op = "commit" /\ next(pc, snap).todo = call[p].todo
    OBVIOUS
  <2>2. \E pc, snap : call'[p] = next(pc, snap)
    BY <1>7, CommitKnown
  <2>3. call[p].op = "commit"
    BY <1>7 DEF Snapshot, Checkout, Apply, At
  <2> HIDE DEF next
  <2> QED BY <2>1, <2>2, <2>3
<1>8. CASE ListFeedback(p)
  <2> DEFINE next == [op |-> call[p].op, pc |-> "mark", todo |-> call[p].todo, list |-> Listed(p)]
  <2>1. next.op = call[p].op /\ next.todo = call[p].todo
    OBVIOUS
  <2>2. Onward(p) \/ call'[p] = next
    BY <1>3, <1>8, FeedbackStepsKnown
  <2> HIDE DEF next
  <2> QED BY <1>4, <2>1, <2>2
<1>9. CASE MarkFeedback(p)
  BY <1>3, <1>4, <1>9, FeedbackStepsKnown DEF Marked
<1>10. CASE PRExists(p) \/ PRCheck(p) \/ Push(p) \/ Create(p) \/ PRRow(p)
  BY <1>3, <1>5, <1>10, PRKnown
<1>11. CASE MergeOne(p)
  BY <1>3, <1>4, <1>11, OtherStepsKnown
<1> QED BY <1>3, <1>6, <1>7, <1>8, <1>9, <1>10, <1>11 DEF Step

\* A row is never taken away.
LEMMA RowsStay ==
  ASSUME TypeInv, NEW p \in Procs, Step(p), NEW k \in Targets, rows[k] # NoRow
  PROVE  rows'[k] # NoRow
<1>1. CASE CommitRow(p)
  <2>1. rows' = [rows EXCEPT ![Now(p)] = [sha |-> tip[Now(p)], url |-> rows[Now(p)].url]]
    BY <1>1 DEF CommitRow, TypeInv
  <2>2. [sha |-> tip[Now(p)], url |-> rows[Now(p)].url] # NoRow
    BY DEF NoRow
  <2> QED BY <2>1, <2>2 DEF TypeInv
<1>2. CASE PRRow(p)
  <2>1. rows' = [rows EXCEPT ![Now(p)] = [rows[Now(p)] EXCEPT !.url = TRUE]]
    BY <1>2 DEF PRRow, TypeInv
  <2>2. rows[k] \in Row => [rows[k] EXCEPT !.url = TRUE] \in Row
    BY DEF Row
  <2> QED BY <2>1, <2>2, NoRowIsNone DEF TypeInv
<1>3. CASE rows' = rows
  BY <1>3
<1> QED
  BY <1>1, <1>2, <1>3 DEF Step, CommitStart, CommitClean, CommitCheck, Snapshot, Checkout, Apply, ApplyConflict, Drop,
        GitCommit, ListFeedback, MarkFeedback, PRStart, PRExists, PRCheck, Push, Create, SyncStart, SyncRead,
        SyncFetch, SyncStore, DispatchStart, DispatchIterate, MergeStart, MergeOne, Fails, Dies

LEMMA RowsThereStep ==
  ASSUME TypeInv, RowsThere, NEW p \in Procs, Step(p)
  PROVE  RowsThere'
<1> SUFFICES ASSUME NEW q \in Procs, call'[q].op = "pr", NEW k \in call'[q].todo
             PROVE  rows'[k] # NoRow
  BY DEF RowsThere
<1>1. call'[q] \in Calls /\ (q # p => call'[q] = call[q])
  BY StepMoves DEF OthersStay
<1>2. call'[q].todo \subseteq Targets
  BY <1>1 DEF Calls, CommitCalls, MovingCalls, PRCalls, MarkCalls, ReadCalls, FetchCalls, StoreCalls,
              DispatchCalls, MergeCalls, Todo, Idle, None
<1>3. rows[k] # NoRow
  <2>1. CASE q # p
    BY <1>1, <2>1 DEF RowsThere
  <2>2. CASE q = p /\ PRStart(p)
    BY <2>2, StartKnown
  <2>3. CASE q = p /\ ~PRStart(p)
    <3>1. Inside(p)'
      BY <2>3 DEF Inside, Mutating
    <3>2. ~CommitStart(p)
      BY <2>3, StartKnown DEF CommitCalls
    <3> QED BY <2>3, <3>1, <3>2, SameWork DEF RowsThere
  <2> QED BY <2>1, <2>2, <2>3
<1> QED BY <1>2, <1>3, RowsStay

LEMMA TypeStep ==
  ASSUME TypeInv, RowsThere, [Next]_vars
  PROVE  TypeInv' /\ RowsThere'
<1>1. CASE UNCHANGED vars
  BY <1>1 DEF vars, TypeInv, RowsThere, git, hub, fb, past
<1>2. CASE Outside
  <2>1. rows' = rows
    BY <1>2 DEF Outside, Edit, Comment, AgentsDone, CloseRun
  <2> QED BY <1>2, <2>1, OutsideTyped DEF RowsThere
<1>3. CASE \E p \in Procs : Step(p)
  BY <1>3, StepMoves, RowsThereStep
<1> QED BY <1>1, <1>2, <1>3 DEF Next, Outside

LEMMA TypeStart == Init => TypeInv /\ RowsThere
<1> SUFFICES ASSUME Init PROVE TypeInv /\ RowsThere
  OBVIOUS
<1>1. Targets \subseteq Edits /\ NumTargets \in 0..MaxEdits /\ 0 \in 0..MaxOps /\ 0 \in 0..MaxFaults
  BY ReviewAssumption DEF Edits, Targets
<1>2. dirty \in [Targets -> SUBSET Edits] /\ feedback \in [Comments -> Statuses] /\ call \in [Procs -> Calls]
  BY <1>1 DEF Init, Statuses, Calls
<1>3. RowsThere
  BY DEF Init, RowsThere, Idle, None
<1> QED BY <1>1, <1>2, <1>3 DEF Init, TypeInv

\* The values and the calls of every state have the types that TypeOK names.
THEOREM TypeCorrect == Spec => []TypeOK
<1>1. TypeInv => TypeOK
  <2> SUFFICES ASSUME TypeInv, NEW p \in Procs
               PROVE  call[p] = Idle \/ (call[p].pc \in Labels /\ call[p].todo \subseteq Targets)
    BY RankKnown DEF TypeInv, TypeOK
  <2> QED BY DEF TypeInv, Calls, CommitCalls, MovingCalls, PRCalls, MarkCalls, ReadCalls, FetchCalls, StoreCalls,
                 DispatchCalls, MergeCalls, Todo, Labels
<1>2. TypeInv /\ RowsThere /\ [Next]_vars => TypeInv' /\ RowsThere'
  BY TypeStep
<1> QED BY <1>1, <1>2, TypeStart, PTL DEF Spec

-----------------------------------------------------------------------------
(* Who is inside is alone *)

LEMMA FaultsGrow ==
  ASSUME TypeInv, NEW p \in Procs, Step(p)
  PROVE  faults' >= faults
<1>1. CASE faults' = faults
  BY <1>1 DEF TypeInv
<1>2. CASE faults' = faults + 1
  BY <1>2 DEF TypeInv
<1> QED
  BY <1>1, <1>2 DEF Step, CommitStart, CommitClean, CommitCheck, Snapshot, Checkout, Apply, ApplyConflict, Drop,
        GitCommit, CommitRow, ListFeedback, MarkFeedback, PRStart, PRExists, PRCheck, Push, Create, PRRow, SyncStart,
        SyncRead, SyncFetch, SyncStore, DispatchStart, DispatchIterate, MergeStart, MergeOne, Fails, Dies

LEMMA LockStep ==
  ASSUME TypeInv, RowsThere, LockMatches, [Next]_vars
  PROVE  LockMatches'
<1>1. CASE UNCHANGED vars
  BY <1>1 DEF vars, LockMatches, Inside
<1>2. CASE Outside
  BY <1>2, OutsideTyped DEF LockMatches, Inside
<1>3. ASSUME NEW p \in Procs, Step(p)
      PROVE  LockMatches'
  <2>1. OthersStay(p) /\ LockMove(p) /\ faults' >= faults /\ TypeInv'
    BY <1>3, StepMoves, FaultsGrow
  <2>2. \A q \in Procs : q # p => (Inside(q)' <=> Inside(q))
    BY <2>1 DEF OthersStay, Inside
  <2>3. CASE lock' = lock /\ (Inside(p)' <=> Inside(p))
    BY <2>1, <2>2, <2>3 DEF LockMatches, TypeInv
  <2>4. CASE lock = None /\ lock' = p /\ Inside(p)'
    BY <2>2, <2>4, ReviewAssumption DEF LockMatches
  <2>5. CASE Inside(p) /\ ~Inside(p)' /\ (lock' = None \/ (lock' = Dead /\ faults' > 0))
    BY <2>2, <2>5, ReviewAssumption DEF LockMatches, None, Dead
  <2> QED BY <2>1, <2>3, <2>4, <2>5 DEF LockMove
<1> QED BY <1>1, <1>2, <1>3 DEF Next, Outside

\* Commit and OpenPullRequests hold the lock file, and nobody else does: it is there
\* exactly while one of them runs, or because one died, whatever fails on its way.
THEOREM LockCorrect == Spec => []LockMatches
<1>1. Init => LockMatches
  BY ReviewAssumption DEF Init, LockMatches, Inside, Idle, Mutating, None, Dead
<1> QED BY <1>1, LockStep, TypeStart, TypeStep, PTL DEF Spec

LEMMA Alone ==
  ASSUME LockMatches, NEW p \in Procs, NEW q \in Procs, Inside(p), Inside(q)
  PROVE  p = q
  BY DEF LockMatches

\* The steps that change the trees, the branches or what is saved.
GitAction(p) == Snapshot(p) \/ Checkout(p) \/ Apply(p) \/ ApplyConflict(p) \/ Drop(p) \/ GitCommit(p)

LEMMA GitSteps ==
  ASSUME NEW p \in Procs, Step(p)
  PROVE  /\ GitAction(p) => call[p].op = "commit"
         /\ ~GitAction(p) => UNCHANGED <<dirty, stash, tip, saved>>
         /\ UNCHANGED <<late, edits>> /\ overlooked \subseteq overlooked'
<1>1. GitAction(p) => call[p].op = "commit"
  BY DEF GitAction, Snapshot, Checkout, Apply, ApplyConflict, Drop, GitCommit, At
<1>2. GitAction(p) => UNCHANGED <<late, overlooked, edits>>
  BY DEF GitAction, Snapshot, Checkout, Apply, ApplyConflict, Drop, GitCommit, past
<1>3. ~GitAction(p) => UNCHANGED <<dirty, stash, tip, saved, late, edits>> /\ overlooked \subseteq overlooked'
  BY DEF GitAction, git, past, Step, CommitStart, CommitClean, CommitCheck, CommitRow, ListFeedback, MarkFeedback,
         PRStart, PRExists, PRCheck, Push, Create, PRRow, SyncStart, SyncRead, SyncFetch, SyncStore, DispatchStart,
         DispatchIterate, MergeStart, MergeOne, Fails, Dies
<1> QED BY <1>1, <1>2, <1>3

\* How a commit or an opening of pull requests comes to where it is.
LEMMA Places ==
  ASSUME TypeInv, NEW p \in Procs, Step(p), Inside(p)'
  PROVE  \/ call'[p].pc = "look"
         \/ /\ call'[p].op = call[p].op /\ call'[p].todo = call[p].todo /\ Now(p)' = Now(p)
            /\ \/ CommitCheck(p) /\ call'[p].pc = "snapshot"
               \/ Snapshot(p) /\ call'[p].pc = "checkout" /\ call'[p].snap = dirty[Now(p)]
               \/ Checkout(p) /\ call'[p].pc = "apply" /\ call'[p].snap = call[p].snap
               \/ Apply(p) /\ call'[p].pc = "drop" /\ call'[p].snap = call[p].snap
               \/ Drop(p) /\ call'[p].pc = "commit"
               \/ GitCommit(p) /\ call'[p].pc = "row"
               \/ CommitRow(p) /\ call'[p].pc = "list"
               \/ ListFeedback(p) /\ call'[p].pc = "mark" /\ call'[p].list = Listed(p)
               \/ MarkFeedback(p) /\ call'[p].pc = "mark" /\ call'[p].list \subseteq call[p].list
               \/ PRExists(p) /\ call'[p].pc = "list"
               \/ PRCheck(p) /\ call'[p].pc = "push"
               \/ Push(p) /\ call'[p].pc = "create"
               \/ Create(p) /\ call'[p].pc = "row"
               \/ PRRow(p) /\ call'[p].pc = "list"
<1>1. ~(Idle.op \in Mutating)
  BY DEF Idle, Mutating, None
<1>2. call'[p] \notin {Idle} \union ReadCalls \union FetchCalls \union StoreCalls \union DispatchCalls \union MergeCalls
  BY <1>1 DEF Inside, Mutating, ReadCalls, FetchCalls, StoreCalls, DispatchCalls, MergeCalls
<1>3. /\ ~Returned(p) /\ ~Synced(p) /\ ~Fails(p) /\ ~Dies(p) /\ ~DispatchIterate(p)
      /\ ~SyncStart(p) /\ ~DispatchStart(p) /\ ~MergeStart(p) /\ ~SyncRead(p) /\ ~SyncFetch(p) /\ ~SyncStore(p)
  BY <1>2, StartKnown, SyncKnown, OtherStepsKnown DEF Returned, Synced
<1>4. Onward(p) => call'[p].pc = "look"
  BY DEF Onward, Inside, Mutating
<1>5. \A pc : On(p, pc) => call'[p].op = call[p].op /\ call'[p].todo = call[p].todo /\ call'[p].pc = pc
  BY DEF On
<1>6. call'[p].todo = call[p].todo => Now(p)' = Now(p)
  BY DEF Now
<1>7. CASE CommitStart(p) \/ PRStart(p)
  BY <1>7, StartKnown
<1>8. CASE CommitClean(p) \/ CommitCheck(p) \/ ApplyConflict(p) \/ Drop(p) \/ GitCommit(p) \/ CommitRow(p)
  BY <1>3, <1>4, <1>5, <1>6, <1>8, CommitKnown
<1>9. CASE Snapshot(p) \/ Checkout(p) \/ Apply(p)
  <2> DEFINE next(pc, snap) == [op |-> "commit", pc |-> pc, todo |-> call[p].todo, snap |-> snap]
  <2>1. \A pc, snap : /\ next(pc, snap).op = "commit" /\ next(pc, snap).todo = call[p].todo
                      /\ next(pc, snap).pc = pc /\ next(pc, snap).snap = snap
    OBVIOUS
  <2>2. /\ Snapshot(p) => call'[p] = next("checkout", dirty[Now(p)])
        /\ Checkout(p) => call'[p] = next("apply", call[p].snap)
        /\ Apply(p) => call'[p] = next("drop", call[p].snap)
    BY <1>9, CommitKnown
  <2>3. call[p].op = "commit"
    BY <1>9 DEF Snapshot, Checkout, Apply, At
  <2> HIDE DEF next
  <2> QED BY <1>6, <1>9, <2>1, <2>2, <2>3
<1>10. CASE ListFeedback(p)
  <2> DEFINE next == [op |-> call[p].op, pc |-> "mark", todo |-> call[p].todo, list |-> Listed(p)]
  <2>1. next.op = call[p].op /\ next.todo = call[p].todo /\ next.pc = "mark" /\ next.list = Listed(p)
    OBVIOUS
  <2>2. Onward(p) \/ call'[p] = next
    BY <1>3, <1>10, FeedbackStepsKnown
  <2> HIDE DEF next
  <2> QED BY <1>4, <1>6, <1>10, <2>1, <2>2
<1>11. CASE MarkFeedback(p)
  <2>1. call'[p] \in MarkCalls => call'[p].pc = "mark"
    BY DEF MarkCalls
  <2> QED BY <1>3, <1>4, <1>6, <1>11, <2>1, FeedbackStepsKnown DEF Marked
<1>12. CASE PRExists(p) \/ PRCheck(p) \/ Push(p) \/ Create(p) \/ PRRow(p)
  BY <1>3, <1>5, <1>6, <1>12, PRKnown
<1>13. CASE MergeOne(p)
  <2>1. call[p].op = "merge" /\ ~Returned(p) /\ (Returned(p) \/ Onward(p))
    BY <1>3, <1>13, OtherStepsKnown DEF MergeOne, At
  <2> QED BY <2>1 DEF Onward, Inside, Mutating
<1> QED BY <1>3, <1>7, <1>8, <1>9, <1>10, <1>11, <1>12, <1>13 DEF Step

-----------------------------------------------------------------------------
(* Edits *)

\* What each step on a tree does to its target, for the edits.
LEMMA TreeSteps ==
  ASSUME TypeInv, NEW p \in Procs
  PROVE  /\ GitAction(p) => Now(p) \in Targets /\ call[p].op = "commit"
         /\ Checkout(p) \/ Apply(p) \/ ApplyConflict(p) \/ Drop(p) =>
              call[p] \in MovingCalls /\ call[p].snap \subseteq Edits
         /\ Snapshot(p) => /\ dirty' = [dirty EXCEPT ![Now(p)] = {}]
                           /\ stash' = [stash EXCEPT ![Now(p)] = stash[Now(p)] \union dirty[Now(p)]]
                           /\ saved' = saved
         /\ Checkout(p) => dirty' = dirty /\ stash' = stash /\ saved' = saved
         /\ Apply(p) => /\ dirty' = [dirty EXCEPT ![Now(p)] = dirty[Now(p)] \union call[p].snap]
                        /\ stash' = stash /\ saved' = saved
         /\ ApplyConflict(p) =>
              /\ \E S \in {{}, call[p].snap} : dirty' = [dirty EXCEPT ![Now(p)] = dirty[Now(p)] \union S]
              /\ stash' = stash /\ saved' = saved
         /\ Drop(p) => /\ stash' = [stash EXCEPT ![Now(p)] = stash[Now(p)] \ call[p].snap]
                       /\ dirty' = dirty /\ saved' = saved
         /\ GitCommit(p) => /\ dirty' = [dirty EXCEPT ![Now(p)] = {}]
                            /\ saved' = [saved EXCEPT ![Now(p)] = saved[Now(p)] \union dirty[Now(p)]]
                            /\ stash' = stash /\ dirty[Now(p)] # {}
<1>1. Checkout(p) \/ Apply(p) \/ ApplyConflict(p) \/ Drop(p) =>
        call[p] \in MovingCalls /\ call[p].snap \subseteq Edits
  BY CallKnown DEF Checkout, Apply, ApplyConflict, Drop, MovingCalls
<1>2. GitAction(p) => Now(p) \in Targets /\ call[p].op = "commit"
  BY CallKnown, NowKnown DEF GitAction, Snapshot, Checkout, Apply, ApplyConflict, Drop, GitCommit, At, MovingCalls,
     CommitCalls, Idle, DispatchCalls
<1>3. GitCommit(p) => dirty[Now(p)] # {}
  BY DEF GitCommit
<1> QED
  BY <1>1, <1>2, <1>3 DEF Snapshot, Checkout, Apply, ApplyConflict, Drop, GitCommit, TypeInv

\* A step outside commits leaves the trees to the agents, who add to them.
LEMMA OthersEdits ==
  ASSUME TypeInv, Outside
  PROVE  /\ UNCHANGED <<stash, tip, saved>> /\ overlooked' = overlooked
         /\ \/ UNCHANGED <<dirty, edits, late>>
            \/ \E k \in Targets :
                 /\ edits' = edits + 1
                 /\ dirty' = [dirty EXCEPT ![k] = dirty[k] \union {edits'}]
                 /\ late' = IF Committing THEN late \union {edits'} ELSE late
<1>1. ASSUME NEW k \in Targets, Edit(k)
      PROVE  /\ UNCHANGED <<stash, tip, saved>> /\ overlooked' = overlooked /\ edits' = edits + 1
             /\ dirty' = [dirty EXCEPT ![k] = dirty[k] \union {edits'}]
             /\ late' = IF Committing THEN late \union {edits'} ELSE late
  BY <1>1 DEF Edit, TypeInv
<1>2. ASSUME (\E c \in Comments : Comment(c)) \/ AgentsDone \/ CloseRun
      PROVE  UNCHANGED <<stash, tip, saved, overlooked>> /\ UNCHANGED <<dirty, edits, late>>
  BY <1>2 DEF Comment, AgentsDone, CloseRun, git, past
<1> QED BY <1>1, <1>2 DEF Outside

LEMMA CommitKnowsStep ==
  ASSUME TypeInv, RowsThere, LockMatches, \A p \in Procs : CommitKnows(p), NEW q \in Procs, [Next]_vars
  PROVE  CommitKnows(q)'
<1>1. CASE UNCHANGED vars
  BY <1>1 DEF vars, git, CommitKnows, Now, At
<1>2. CASE Outside
  <2>1. Inside(q) => call[q] \notin {Idle} \union DispatchCalls
    BY DEF Inside, Idle, DispatchCalls, Mutating, None
  <2>2. call[q].op = "commit" => Now(q) \in Targets
    BY <2>1, NowKnown DEF Inside, Mutating
  <2>3. CASE call[q].op # "commit"
    BY <1>2, <2>3, OutsideTyped DEF CommitKnows, At
  <2>4. CASE call[q].op = "commit"
    <3>1. CommitKnows(q)
      OBVIOUS
    <3>2. dirty[Now(q)] \subseteq dirty'[Now(q)] /\ stash' = stash /\ call' = call
      BY <1>2, <2>2, <2>4, OutsideTyped, OthersEdits DEF TypeInv
    <3> QED BY <3>1, <3>2 DEF CommitKnows, At, Now
  <2> QED BY <2>3, <2>4
<1>3. ASSUME NEW p \in Procs, Step(p)
      PROVE  CommitKnows(q)'
  <2>1. OthersStay(p)
    BY <1>3, StepMoves
  <2>2. CASE call'[q].op # "commit"
    BY <2>2 DEF CommitKnows, At
  <2>3. CASE q # p /\ call'[q].op = "commit"
    <3>1. call'[q] = call[q] /\ Inside(q)
      BY <2>1, <2>3 DEF OthersStay, Inside, Mutating
    <3>2. ~GitAction(p)
      BY <1>3, <2>3, <3>1, Alone, GitSteps DEF Inside, Mutating
    <3>3. dirty' = dirty /\ stash' = stash
      BY <1>3, <3>2, GitSteps
    <3> QED BY <3>1, <3>3 DEF CommitKnows, Now, At
  <2>4. CASE q = p /\ call'[p].op = "commit"
    <3>1. Inside(p)'
      BY <2>4 DEF Inside, Mutating
    <3>2. CommitKnows(p)
      OBVIOUS
    <3>3. CASE call'[p].pc \in {"look", "row", "list", "mark", "push", "create"}
      BY <2>4, <3>3 DEF CommitKnows, At
    <3>4. CASE CommitCheck(p) /\ call'[p].pc = "snapshot" /\ Now(p)' = Now(p)
      <4>1. dirty[Now(p)] # {} /\ dirty' = dirty
        BY <3>4 DEF CommitCheck, git
      <4> QED BY <2>4, <3>4, <4>1 DEF CommitKnows, At
    <3>5. CASE Snapshot(p) /\ call'[p].pc = "checkout" /\ call'[p].snap = dirty[Now(p)] /\ Now(p)' = Now(p)
      <4>1. dirty[Now(p)] # {}
        BY <3>2, <3>5 DEF CommitKnows, Snapshot
      <4>2. Now(p) \in Targets /\ stash'[Now(p)] = stash[Now(p)] \union dirty[Now(p)]
        BY <3>5, TreeSteps DEF GitAction, TypeInv
      <4> QED BY <2>4, <3>5, <4>1, <4>2 DEF CommitKnows, At
    <3>6. CASE Checkout(p) /\ call'[p].pc = "apply" /\ call'[p].snap = call[p].snap /\ Now(p)' = Now(p)
      <4>1. call[p].snap # {} /\ call[p].snap \subseteq stash[Now(p)] /\ stash' = stash
        BY <3>2, <3>6 DEF CommitKnows, Checkout
      <4> QED BY <2>4, <3>6, <4>1 DEF CommitKnows, At
    <3>7. CASE Apply(p) /\ call'[p].pc = "drop" /\ call'[p].snap = call[p].snap /\ Now(p)' = Now(p)
      <4>1. call[p].snap # {}
        BY <3>2, <3>7 DEF CommitKnows, Apply
      <4>2. dirty'[Now(p)] = dirty[Now(p)] \union call[p].snap
        BY <3>7, TreeSteps DEF GitAction, TypeInv
      <4> QED BY <2>4, <3>7, <4>1, <4>2 DEF CommitKnows, At
    <3>8. CASE Drop(p) /\ call'[p].pc = "commit" /\ Now(p)' = Now(p)
      <4>1. dirty[Now(p)] # {} /\ dirty' = dirty
        BY <3>2, <3>8 DEF CommitKnows, Drop
      <4> QED BY <2>4, <3>8, <4>1 DEF CommitKnows, At
    <3> QED BY <1>3, <2>4, <3>1, <3>3, <3>4, <3>5, <3>6, <3>7, <3>8, Places
  <2> QED BY <2>2, <2>3, <2>4
<1> QED BY <1>1, <1>2, <1>3 DEF Next, Outside

\* Who has a snapshot after a step had it before, or has just made it.
LEMMA SnapKnown ==
  ASSUME TypeInv, RowsThere, NEW p \in Procs, Step(p), NEW q \in Procs, call'[q] \in MovingCalls
  PROVE  \/ /\ call[q] \in MovingCalls /\ call'[q].snap = call[q].snap /\ Now(q)' = Now(q)
            /\ q # p \/ Checkout(p) \/ Apply(p)
         \/ Snapshot(p) /\ q = p /\ call'[q].snap = dirty[Now(q)] /\ Now(q)' = Now(q)
<1>1. OthersStay(p)
  BY StepMoves
<1>2. CASE q # p
  BY <1>1, <1>2 DEF OthersStay, Now
<1>3. CASE q = p
  <2>1. call'[p].op = "commit" /\ call'[p].pc \in {"checkout", "apply", "drop"} /\ Inside(p)'
    BY <1>3 DEF MovingCalls, Inside, Mutating
  <2>2. \/ Snapshot(p) /\ call'[p].snap = dirty[Now(p)] /\ Now(p)' = Now(p)
        \/ (Checkout(p) \/ Apply(p)) /\ call'[p].snap = call[p].snap /\ Now(p)' = Now(p)
    BY <2>1, Places
  <2>3. Checkout(p) \/ Apply(p) => call[p] \in MovingCalls
    BY TreeSteps
  <2> QED BY <1>3, <2>2, <2>3
<1> QED BY <1>2, <1>3

LEMMA FreshStep ==
  ASSUME TypeInv, RowsThere, LockMatches, Fresh, [Next]_vars
  PROVE  Fresh'
<1>1. CASE UNCHANGED vars
  BY <1>1 DEF vars, git, Fresh, Now
<1>2. CASE Outside
  <2>1. UNCHANGED <<stash, tip, saved>> /\ call' = call
    BY <1>2, OthersEdits, OutsideTyped
  <2>2. CASE UNCHANGED <<dirty, edits, late>>
    BY <2>1, <2>2 DEF Fresh, Now
  <2>3. ASSUME NEW k \in Targets, edits' = edits + 1, dirty' = [dirty EXCEPT ![k] = dirty[k] \union {edits'}]
        PROVE  Fresh'
    <3>1. 1..edits \subseteq 1..edits' /\ edits' \notin 1..edits /\ edits' \in 1..edits'
      BY <2>3 DEF TypeInv
    <3>2. \A j \in Targets : dirty'[j] \subseteq 1..edits' /\ dirty'[j] \cap saved[j] = {}
      BY <2>3, <3>1 DEF Fresh, TypeInv
    <3> QED BY <2>1, <3>1, <3>2 DEF Fresh, Now
  <2> QED BY <1>2, <2>2, <2>3, OthersEdits
<1>3. ASSUME NEW p \in Procs, Step(p)
      PROVE  Fresh'
  <2>1. edits' = edits
    BY <1>3, GitSteps
  <2>2. /\ \A k \in Targets : saved'[k] \subseteq 1..edits
        /\ \A k \in Targets : dirty'[k] \subseteq 1..edits /\ dirty'[k] \cap saved'[k] = {}
    <3>1. CASE ~GitAction(p)
      BY <1>3, <3>1, GitSteps DEF Fresh
    <3>2. CASE GitAction(p)
      <4>1. Now(p) \in Targets /\ dirty \in [Targets -> SUBSET Edits] /\ saved \in [Targets -> SUBSET Edits]
        BY <3>2, TreeSteps DEF TypeInv
      <4>2. CASE Snapshot(p) \/ Checkout(p) \/ Drop(p)
        BY <4>1, <4>2, TreeSteps DEF Fresh
      <4>3. CASE Apply(p) \/ ApplyConflict(p)
        <5>1. call[p] \in MovingCalls
          BY <4>3, TreeSteps
        <5>2. PICK S \in {{}, call[p].snap} : dirty' = [dirty EXCEPT ![Now(p)] = dirty[Now(p)] \union S]
          BY <4>3, TreeSteps
        <5>3. S \subseteq 1..edits /\ S \cap saved[Now(p)] = {} /\ saved' = saved
          BY <4>3, <5>1, TreeSteps DEF Fresh
        <5> QED BY <4>1, <5>2, <5>3 DEF Fresh
      <4>4. CASE GitCommit(p)
        BY <4>1, <4>4, TreeSteps DEF Fresh
      <4> QED BY <3>2, <4>2, <4>3, <4>4 DEF GitAction
    <3> QED BY <3>1, <3>2
  <2>3. ASSUME NEW q \in Procs, call'[q] \in MovingCalls
        PROVE  call'[q].snap \subseteq 1..edits /\ call'[q].snap \cap saved'[Now(q)'] = {}
    <3>1. CASE Snapshot(p) /\ q = p /\ call'[q].snap = dirty[Now(q)] /\ Now(q)' = Now(q)
      <4>1. Now(p) \in Targets /\ saved' = saved
        BY <3>1, TreeSteps DEF GitAction
      <4> QED BY <3>1, <4>1 DEF Fresh
    <3>2. CASE /\ call[q] \in MovingCalls /\ call'[q].snap = call[q].snap /\ Now(q)' = Now(q)
               /\ q # p \/ Checkout(p) \/ Apply(p)
      <4>1. saved' = saved
        <5>1. CASE q # p
          <6>1. ~(call[p].op = "commit")
            BY <3>2, <5>1, Alone DEF Inside, Mutating, MovingCalls
          <6> QED BY <1>3, <6>1, GitSteps
        <5>2. CASE Checkout(p) \/ Apply(p)
          BY <5>2, TreeSteps
        <5> QED BY <3>2, <5>1, <5>2
      <4> QED BY <3>2, <4>1 DEF Fresh
    <3> QED BY <1>3, <2>3, <3>1, <3>2, SnapKnown
  <2> QED BY <2>1, <2>2, <2>3 DEF Fresh
<1> QED BY <1>1, <1>2, <1>3 DEF Next, Outside

Somewhere(e) == \E k \in Targets : e \in dirty[k] \union stash[k] \union saved[k]

LEMMA SomewhereMeans == EditsAreSomewhere <=> \A e \in 1..edits : Somewhere(e)
  BY DEF EditsAreSomewhere, Somewhere

LEMMA SomewhereStep ==
  ASSUME TypeInv, EditsAreSomewhere, \A p \in Procs : CommitKnows(p), [Next]_vars
  PROVE  EditsAreSomewhere'
<1>1. CASE UNCHANGED vars
  BY <1>1 DEF vars, git, EditsAreSomewhere
<1>2. CASE Outside
  <2>1. UNCHANGED <<stash, tip, saved>>
    BY <1>2, OthersEdits
  <2>2. CASE UNCHANGED <<dirty, edits, late>>
    BY <2>1, <2>2 DEF EditsAreSomewhere
  <2>3. ASSUME NEW k \in Targets, edits' = edits + 1, dirty' = [dirty EXCEPT ![k] = dirty[k] \union {edits'}]
        PROVE  EditsAreSomewhere'
    <3>1. \A e \in 1..edits' : e \in 1..edits \/ e = edits'
      BY <2>3 DEF TypeInv
    <3>2. \A j \in Targets : dirty[j] \subseteq dirty'[j]
      BY <2>3 DEF TypeInv
    <3>3. edits' \in dirty'[k]
      BY <2>3 DEF TypeInv
    <3>4. \A e \in 1..edits : Somewhere(e)
      BY SomewhereMeans
    <3>5. \A e \in 1..edits' : Somewhere(e)'
      BY <2>1, <3>1, <3>2, <3>3, <3>4 DEF Somewhere
    <3> QED BY <3>5 DEF EditsAreSomewhere, Somewhere
  <2> QED BY <1>2, <2>2, <2>3, OthersEdits
<1>3. ASSUME NEW p \in Procs, Step(p)
      PROVE  EditsAreSomewhere'
  <2>1. edits' = edits
    BY <1>3, GitSteps
  <2>2. ASSUME NEW k \in Targets
        PROVE  dirty[k] \union stash[k] \union saved[k] \subseteq dirty'[k] \union stash'[k] \union saved'[k]
    <3>1. CASE ~GitAction(p)
      BY <1>3, <3>1, GitSteps
    <3>2. CASE GitAction(p)
      <4>1. /\ Now(p) \in Targets /\ dirty \in [Targets -> SUBSET Edits] /\ saved \in [Targets -> SUBSET Edits]
            /\ stash \in [Targets -> SUBSET Edits]
        BY <3>2, TreeSteps DEF TypeInv
      <4>2. Drop(p) => call[p].snap \subseteq dirty[Now(p)]
        BY DEF CommitKnows, Drop
      <4>3. CASE Snapshot(p) \/ Checkout(p) \/ Drop(p)
        BY <4>1, <4>2, <4>3, TreeSteps
      <4>4. CASE Apply(p) \/ ApplyConflict(p) \/ GitCommit(p)
        BY <4>1, <4>4, TreeSteps
      <4> QED BY <3>2, <4>3, <4>4 DEF GitAction
    <3> QED BY <3>1, <3>2
  <2>3. \A e \in 1..edits : Somewhere(e)
    BY SomewhereMeans
  <2>4. \A e \in 1..edits' : Somewhere(e)'
    BY <2>1, <2>2, <2>3 DEF Somewhere
  <2> QED BY <2>4 DEF EditsAreSomewhere, Somewhere
<1> QED BY <1>1, <1>2, <1>3 DEF Next, Outside

-----------------------------------------------------------------------------
(* What the checks keep out *)

LEMMA CheckedTree ==
  ASSUME RequireAll, "forbidden_files" \in Checks, NEW k, NEW passing, ChecksPass("commit", k, passing)
  PROVE  Named(k) \cap Forbidden = {}
<1>1. "forbidden_files" \in Applicable("commit")
  BY DEF Applicable
<1>2. CheckPasses("forbidden_files", k, passing)
  BY <1>1 DEF ChecksPass
<1> QED BY <1>2 DEF CheckPasses

LEMMA CheckStep ==
  ASSUME TypeInv, RowsThere, LockMatches, CheckInv, ForbiddenStaysOut, [Next]_vars
  PROVE  CheckInv' /\ ForbiddenStaysOut'
<1> SUFFICES ASSUME RequireAll, "forbidden_files" \in Checks
             PROVE  /\ \A q \in Procs : Checked(q)'
                    /\ \A k \in Targets : saved'[k] \cap Forbidden \subseteq Unseen'
  BY DEF CheckInv, ForbiddenStaysOut, Unseen
<1>0. /\ \A q \in Procs : Checked(q)
      /\ \A k \in Targets : saved[k] \cap Forbidden \subseteq Unseen
  BY DEF CheckInv, ForbiddenStaysOut, Unseen
<1>1. CASE UNCHANGED vars
  BY <1>0, <1>1 DEF vars, git, past, Checked, Now, Unseen
<1>2. CASE Outside
  <2>1. UNCHANGED <<stash, tip, saved, overlooked>> /\ call' = call
    BY <1>2, OthersEdits, OutsideTyped
  <2>2. CASE UNCHANGED <<dirty, edits, late>>
    BY <1>0, <2>1, <2>2 DEF Checked, Now, Unseen
  <2>3. ASSUME NEW k \in Targets, dirty' = [dirty EXCEPT ![k] = dirty[k] \union {edits'}],
               late' = IF Committing THEN late \union {edits'} ELSE late
        PROVE  /\ \A q \in Procs : Checked(q)'
               /\ \A j \in Targets : saved'[j] \cap Forbidden \subseteq Unseen'
    <3>1. Unseen \subseteq Unseen'
      BY <2>1, <2>3 DEF Unseen
    <3>2. ASSUME NEW q \in Procs PROVE Checked(q)'
      <4>1. CASE call[q].op # "commit"
        BY <2>1, <4>1 DEF Checked
      <4>2. CASE call[q].op = "commit"
        <5>1. late' = late \union {edits'}
          BY <2>3, <4>2 DEF Committing
        <5>2. Now(q) \in Targets
          BY <4>2, NowKnown DEF Idle, DispatchCalls, None
        <5>3. dirty'[Now(q)] \subseteq dirty[Now(q)] \union {edits'}
          BY <2>3, <5>2 DEF TypeInv
        <5> QED BY <1>0, <2>1, <5>1, <5>3 DEF Checked, Now, Unseen
      <4> QED BY <4>1, <4>2
    <3> QED BY <1>0, <2>1, <3>1, <3>2
  <2> QED BY <1>2, <2>2, <2>3, OthersEdits
<1>3. ASSUME NEW p \in Procs, Step(p)
      PROVE  /\ \A q \in Procs : Checked(q)'
             /\ \A k \in Targets : saved'[k] \cap Forbidden \subseteq Unseen'
  <2>1. OthersStay(p) /\ Unseen \subseteq Unseen'
    BY <1>3, StepMoves, GitSteps DEF Unseen
  <2>2. \A k \in Targets : saved'[k] \cap Forbidden \subseteq Unseen
    <3>1. CASE GitCommit(p)
      <4>1. Now(p) \in Targets /\ saved' = [saved EXCEPT ![Now(p)] = saved[Now(p)] \union dirty[Now(p)]]
        BY <3>1, TreeSteps DEF GitAction
      <4>2. dirty[Now(p)] \cap Forbidden \subseteq Unseen
        BY <1>0, <3>1 DEF Checked, GitCommit, At
      <4> QED BY <1>0, <4>1, <4>2 DEF TypeInv
    <3>2. CASE ~GitCommit(p)
      <4>1. saved' = saved
        BY <1>3, <3>2, GitSteps, TreeSteps DEF GitAction
      <4> QED BY <1>0, <4>1
    <3> QED BY <3>1, <3>2
  <2>3. ASSUME NEW q \in Procs PROVE Checked(q)'
    <3>1. CASE call'[q].op # "commit"
      BY <3>1 DEF Checked
    <3>2. CASE q # p /\ call'[q].op = "commit"
      <4>1. call'[q] = call[q]
        BY <2>1, <3>2 DEF OthersStay
      <4>2. ~GitAction(p)
        BY <1>3, <3>2, <4>1, Alone, GitSteps DEF Inside, Mutating
      <4>3. dirty' = dirty
        BY <1>3, <4>2, GitSteps
      <4> QED BY <1>0, <2>1, <4>1, <4>3 DEF Checked, Now
    <3>3. CASE q = p /\ call'[p].op = "commit"
      <4>1. Inside(p)' /\ (call'[p] \in MovingCalls => call'[p].pc \in {"checkout", "apply", "drop"})
        BY <3>3 DEF Inside, Mutating, MovingCalls
      <4>2. CASE call'[p].pc \in {"look", "row", "list", "mark", "push", "create"}
        BY <3>3, <4>2 DEF Checked
      <4>3. CASE CommitCheck(p) /\ call'[p].pc = "snapshot" /\ Now(p)' = Now(p)
        <5>1. \E passing \in Verdicts : ChecksPass("commit", Now(p), passing)
          <6>1. ~Return(p)
            BY <4>1, Returning DEF Inside, Idle, Mutating, None
          <6> QED BY <4>3, <6>1 DEF CommitCheck
        <5>2. Named(Now(p)) \cap Forbidden = {} /\ dirty' = dirty
          BY <4>3, <5>1, CheckedTree DEF CommitCheck, git
        <5>3. Forbidden \cap (dirty[Now(p)] \ Named(Now(p))) \subseteq overlooked'
          <6>1. ~Return(p)
            BY <4>1, Returning DEF Inside, Idle, Mutating, None
          <6> QED BY <4>3, <6>1 DEF CommitCheck
        <5>4. dirty'[Now(p)] \cap Forbidden \subseteq Unseen'
          BY <5>2, <5>3 DEF Unseen
        <5> QED BY <3>3, <4>1, <4>3, <5>4 DEF Checked
      <4>4. CASE Snapshot(p) /\ call'[p].pc = "checkout" /\ call'[p].snap = dirty[Now(p)] /\ Now(p)' = Now(p)
        <5>1. dirty[Now(p)] \cap Forbidden \subseteq Unseen
          BY <1>0, <4>4 DEF Checked, Snapshot, At
        <5>2. dirty'[Now(p)] = {}
          BY <4>4, TreeSteps DEF GitAction, TypeInv
        <5> QED BY <2>1, <3>3, <4>1, <4>4, <5>1, <5>2 DEF Checked
      <4>5. CASE (Checkout(p) \/ Apply(p)) /\ call'[p].snap = call[p].snap /\ Now(p)' = Now(p)
        <5>1. call[p] \in MovingCalls /\ Now(p) \in Targets
          BY <4>5, TreeSteps DEF GitAction
        <5>2. dirty[Now(p)] \cap Forbidden \subseteq Unseen /\ call[p].snap \cap Forbidden \subseteq Unseen
          BY <1>0, <4>5, <5>1 DEF Checked, Checkout, Apply, At
        <5>3. dirty'[Now(p)] \subseteq dirty[Now(p)] \union call[p].snap
          BY <4>5, <5>1, TreeSteps DEF TypeInv
        <5> QED BY <2>1, <3>3, <4>1, <4>5, <5>2, <5>3 DEF Checked
      <4>6. CASE Drop(p) /\ call'[p].pc = "commit" /\ Now(p)' = Now(p)
        <5>1. dirty[Now(p)] \cap Forbidden \subseteq Unseen /\ dirty' = dirty
          BY <1>0, <4>6 DEF Checked, Drop, At
        <5> QED BY <2>1, <3>3, <4>1, <4>6, <5>1 DEF Checked
      <4> QED BY <1>3, <4>1, <4>2, <4>3, <4>4, <4>5, <4>6, Places
    <3> QED BY <3>1, <3>2, <3>3
  <2> QED BY <2>1, <2>2, <2>3
<1> QED BY <1>1, <1>2, <1>3 DEF Next, Outside

-----------------------------------------------------------------------------
(* Rows and branches *)

LEMMA DeadStays ==
  ASSUME TypeInv, RowsThere, LockMatches, NEW p \in Procs, Step(p), lock = Dead
  PROVE  lock' = Dead
<1>1. LockMove(p) /\ ~Inside(p)
  BY StepMoves, ReviewAssumption DEF LockMatches
<1> QED BY <1>1 DEF LockMove, None, Dead

LEMMA RowSteps ==
  ASSUME TypeInv, RowsThere, NEW p \in Procs, Step(p)
  PROVE  /\ ~CommitRow(p) /\ ~PRRow(p) => rows' = rows /\ unwritten \subseteq unwritten'
         /\ ~Create(p) => pulls' = pulls
         /\ CommitRow(p) =>
              /\ Now(p) \in Targets /\ unwritten' = unwritten \ {<<"commit", Now(p)>>}
              /\ rows' = [rows EXCEPT ![Now(p)] = [sha |-> tip[Now(p)], url |-> rows[Now(p)].url]]
         /\ PRRow(p) =>
              /\ Now(p) \in Targets /\ unwritten' = unwritten \ {<<"pr", Now(p)>>}
              /\ rows[Now(p)] \in Row
              /\ rows' = [rows EXCEPT ![Now(p)] = [sha |-> rows[Now(p)].sha, url |-> TRUE]]
<1>1. ~CommitRow(p) /\ ~PRRow(p) => rows' = rows /\ unwritten \subseteq unwritten'
  BY DEF past, Step, CommitStart, CommitClean, CommitCheck, Snapshot, Checkout, Apply, ApplyConflict, Drop,
        GitCommit, ListFeedback, MarkFeedback, PRStart, PRExists, PRCheck, Push, Create, SyncStart, SyncRead,
        SyncFetch, SyncStore, DispatchStart, DispatchIterate, MergeStart, MergeOne, Fails, Dies
<1>2. ~Create(p) => pulls' = pulls
  BY DEF hub, Step, CommitStart, CommitClean, CommitCheck, Snapshot, Checkout, Apply, ApplyConflict, Drop,
        GitCommit, CommitRow, ListFeedback, MarkFeedback, PRStart, PRExists, PRCheck, Push, PRRow, SyncStart, SyncRead,
        SyncFetch, SyncStore, DispatchStart, DispatchIterate, MergeStart, MergeOne, Fails, Dies
<1>3. ASSUME CommitRow(p) \/ PRRow(p)
      PROVE  Now(p) \in Targets /\ Now(p) \in call[p].todo
  <2>1. call[p] \in CommitCalls \union PRCalls
    BY <1>3, CallKnown DEF CommitRow, PRRow
  <2> QED BY <2>1, NowKnown DEF CommitCalls, PRCalls, Idle, DispatchCalls
<1>4. CommitRow(p) => /\ unwritten' = unwritten \ {<<"commit", Now(p)>>}
                      /\ rows' = [rows EXCEPT ![Now(p)] = [sha |-> tip[Now(p)], url |-> rows[Now(p)].url]]
  BY <1>3 DEF CommitRow, TypeInv
<1>5. ASSUME PRRow(p)
      PROVE  /\ rows[Now(p)] \in Row /\ unwritten' = unwritten \ {<<"pr", Now(p)>>}
             /\ rows' = [rows EXCEPT ![Now(p)] = [sha |-> rows[Now(p)].sha, url |-> TRUE]]
  <2>1. call[p].op = "pr"
    BY <1>5 DEF PRRow, At
  <2>2. rows[Now(p)] \in Row
    BY <1>3, <1>5, <2>1 DEF RowsThere, TypeInv
  <2>6. \A r \in Row, u \in BOOLEAN : [r EXCEPT !.url = u] = [sha |-> r.sha, url |-> u]
    BY DEF Row
  <2>3. [rows[Now(p)] EXCEPT !.url = TRUE] = [sha |-> rows[Now(p)].sha, url |-> TRUE]
    BY <2>2, <2>6
  <2>4. rows' = [rows EXCEPT ![Now(p)] = [rows[Now(p)] EXCEPT !.url = TRUE]]
    BY <1>5 DEF PRRow, TypeInv
  <2>5. unwritten' = unwritten \ {<<"pr", Now(p)>>}
    BY <1>5 DEF PRRow
  <2> QED BY <2>2, <2>3, <2>4, <2>5
<1> QED BY <1>1, <1>2, <1>3, <1>4, <1>5

\* From the last step before its row, a command goes on by writing it, or ends.
LEMMA AtRow ==
  ASSUME NEW p \in Procs, Step(p), call[p].pc = "row", Inside(p)
  PROVE  \/ At(p, "commit", "row") /\ CommitRow(p)
         \/ At(p, "pr", "row") /\ PRRow(p)
         \/ Fails(p) /\ unwritten' = unwritten \union {<<call[p].op, Now(p)>>}
         \/ Dies(p)
<1>1. call[p] # Idle
  BY DEF Idle
<1>2. CommitRow(p) \/ PRRow(p) \/ Fails(p) \/ Dies(p)
  <2>1. /\ ~CommitStart(p) /\ ~PRStart(p) /\ ~SyncStart(p) /\ ~DispatchStart(p) /\ ~MergeStart(p)
        /\ ~CommitClean(p) /\ ~CommitCheck(p) /\ ~GitAction(p)
    BY <1>1 DEF CommitStart, PRStart, SyncStart, DispatchStart, MergeStart, Start, CommitClean, CommitCheck, GitAction,
                Snapshot, Checkout, Apply, ApplyConflict, Drop, GitCommit, At
  <2>2. /\ ~ListFeedback(p) /\ ~MarkFeedback(p) /\ ~PRExists(p) /\ ~PRCheck(p) /\ ~Push(p) /\ ~Create(p)
        /\ ~SyncRead(p) /\ ~SyncFetch(p) /\ ~SyncStore(p) /\ ~DispatchIterate(p) /\ ~MergeOne(p)
    BY DEF ListFeedback, MarkFeedback, PRExists, PRCheck, Push, Create, SyncRead, SyncFetch, SyncStore,
           DispatchIterate, MergeOne, At
  <2> QED BY <2>1, <2>2 DEF Step, GitAction
<1>3. CommitRow(p) => At(p, "commit", "row")
  BY DEF CommitRow
<1>4. PRRow(p) => At(p, "pr", "row")
  BY DEF PRRow
<1>5. Fails(p) => unwritten' = unwritten \union {<<call[p].op, Now(p)>>}
  BY DEF Fails
<1> QED BY <1>2, <1>3, <1>4, <1>5

LEMMA DyingInside ==
  ASSUME NEW p \in Procs, Dies(p), Inside(p)
  PROVE  lock' = Dead
  BY DEF Dies

\* Recorded: what RecordInv says of one pull request.
Recorded(k) ==
  \/ rows[k].url \/ <<"pr", k>> \in unwritten
  \/ \E p \in Procs : At(p, "pr", "row") /\ Now(p) = k

LEMMA RecordStep ==
  ASSUME TypeInv, RowsThere, LockMatches, RecordInv, [Next]_vars
  PROVE  RecordInv'
<1>1. CASE UNCHANGED vars
  BY <1>1 DEF vars, hub, past, RecordInv, At, Now
<1>2. CASE Outside
  <2>1. UNCHANGED <<rows, pulls, unwritten>>
    BY <1>2 DEF Outside, Edit, Comment, AgentsDone, CloseRun, hub, past
  <2> QED BY <1>2, <2>1, OutsideTyped DEF RecordInv, At, Now
<1>3. ASSUME NEW p \in Procs, Step(p)
      PROVE  RecordInv'
  <2>1. OthersStay(p)
    BY <1>3, StepMoves
  <2>2. CASE lock = Dead
    BY <1>3, <2>2, DeadStays DEF RecordInv
  <2>3. CASE lock' # Dead /\ lock # Dead
    <3> SUFFICES ASSUME NEW k \in Targets, k \in pulls' PROVE Recorded(k)'
      BY <1>3, StepMoves DEF RecordInv, Recorded, TypeInv
    <3>1. CASE k \notin pulls
      <4>1. Create(p) /\ k = Now(p) /\ On(p, "row")
        <5>1. Create(p)
          BY <1>3, <3>1, RowSteps
        <5>2. k = Now(p) /\ On(p, "row")
          BY <3>1, <5>1, PRKnown
        <5> QED BY <5>1, <5>2
      <4>2. call[p].op = "pr"
        BY <4>1 DEF Create, At
      <4>3. At(p, "pr", "row")' /\ Now(p)' = k
        BY <4>1, <4>2 DEF On, At, Now
      <4> QED BY <4>3 DEF Recorded
    <3>2. CASE k \in pulls
      <4>1. Recorded(k)
        BY <2>3, <3>2 DEF RecordInv, Recorded
      <4>2. rows[k].url => rows'[k].url
        <5>1. CASE CommitRow(p)
          <6> DEFINE next == [sha |-> tip[Now(p)], url |-> rows[Now(p)].url]
          <6>1. next.url = rows[Now(p)].url
            OBVIOUS
          <6>2. rows' = [rows EXCEPT ![Now(p)] = next]
            BY <1>3, <5>1, RowSteps
          <6> HIDE DEF next
          <6> QED BY <6>1, <6>2 DEF TypeInv
        <5>2. CASE PRRow(p)
          <6> DEFINE next == [sha |-> rows[Now(p)].sha, url |-> TRUE]
          <6>1. next.url = TRUE
            OBVIOUS
          <6>2. rows' = [rows EXCEPT ![Now(p)] = next]
            BY <1>3, <5>2, RowSteps
          <6> HIDE DEF next
          <6> QED BY <6>1, <6>2 DEF TypeInv
        <5>3. CASE ~CommitRow(p) /\ ~PRRow(p)
          BY <1>3, <5>3, RowSteps
        <5> QED BY <5>1, <5>2, <5>3
      <4>3. PRRow(p) /\ Now(p) = k => rows'[k].url
        <5> SUFFICES ASSUME PRRow(p), Now(p) = k PROVE rows'[k].url
          OBVIOUS
        <5> DEFINE next == [sha |-> rows[Now(p)].sha, url |-> TRUE]
        <5>1. next.url = TRUE
          OBVIOUS
        <5>2. rows' = [rows EXCEPT ![Now(p)] = next]
          BY <1>3, RowSteps
        <5> HIDE DEF next
        <5> QED BY <5>1, <5>2 DEF TypeInv
      <4>4. CASE rows[k].url
        BY <4>2, <4>4 DEF Recorded
      <4>5. CASE <<"pr", k>> \in unwritten
        <5>1. <<"pr", k>> \in unwritten' \/ (PRRow(p) /\ Now(p) = k)
          BY <1>3, <4>5, RowSteps
        <5> QED BY <4>3, <5>1 DEF Recorded
      <4>6. ASSUME NEW q \in Procs, At(q, "pr", "row"), Now(q) = k
            PROVE  Recorded(k)'
        <5>1. CASE q # p
          BY <2>1, <4>6, <5>1 DEF Recorded, OthersStay, At, Now
        <5>2. CASE q = p
          <6>1. call[p].pc = "row" /\ Inside(p) /\ call[p].op = "pr"
            BY <4>6, <5>2 DEF At, Inside, Mutating
          <6>2. ~Dies(p)
            BY <2>3, <6>1, DyingInside
          <6>3. PRRow(p) \/ <<"pr", k>> \in unwritten'
            BY <1>3, <4>6, <5>2, <6>1, <6>2, AtRow DEF At
          <6> QED BY <4>3, <4>6, <5>2, <6>3 DEF Recorded
        <5> QED BY <5>1, <5>2
      <4> QED BY <4>1, <4>4, <4>5, <4>6 DEF Recorded
    <3> QED BY <3>1, <3>2
  <2>4. CASE lock' = Dead
    BY <2>4 DEF RecordInv
  <2> QED BY <2>2, <2>3, <2>4
<1> QED BY <1>1, <1>2, <1>3 DEF Next, Outside

LEMMA RecordMeans == LockMatches /\ RecordInv => UnrecordedIsLocked
  BY ReviewAssumption DEF LockMatches, RecordInv, UnrecordedIsLocked, At, Inside, Mutating, None, Dead

\* What TipInv says of one target.
Following(k) ==
  rows[k] # NoRow => Settled(k) \/ \E p \in Procs : At(p, "commit", "row") /\ Now(p) = k

\* A step on a tree leaves a row right, or edits to be committed, or is the commit.
LEMMA TreeSettled ==
  ASSUME TypeInv, NEW p \in Procs, CommitKnows(p), GitAction(p), ~GitCommit(p), NEW k \in Targets,
         Settled(k), rows' = rows, unwritten \subseteq unwritten'
  PROVE  Settled(k)'
<1>0. Now(p) \in Targets /\ dirty \in [Targets -> SUBSET Edits] /\ stash \in [Targets -> SUBSET Edits]
  BY TreeSteps DEF TypeInv
<1>1. Checkout(p) => k # Now(p) \/ dirty'[k] \union stash'[k] # {}
  <2>1. Checkout(p) => call[p].snap # {} /\ call[p].snap \subseteq stash[Now(p)]
    BY DEF CommitKnows, Checkout
  <2> QED BY <2>1, TreeSteps
<1>2. tip'[k] = tip[k] \/ dirty'[k] \union stash'[k] # {}
  <2>1. ~Checkout(p) => tip' = tip
    BY DEF GitAction, Snapshot, Apply, ApplyConflict, Drop, GitCommit
  <2>2. Checkout(p) /\ k # Now(p) => tip'[k] = tip[k]
    BY DEF Checkout, TypeInv
  <2> QED BY <1>1, <2>1, <2>2
<1>3. dirty[k] \union stash[k] \subseteq dirty'[k] \union stash'[k]
  <2>1. Drop(p) => call[p].snap \subseteq dirty[Now(p)]
    BY DEF CommitKnows, Drop
  <2>2. CASE Snapshot(p) \/ Checkout(p) \/ Drop(p)
    BY <1>0, <2>1, <2>2, TreeSteps
  <2>3. CASE Apply(p) \/ ApplyConflict(p)
    BY <1>0, <2>3, TreeSteps
  <2> QED BY <2>2, <2>3 DEF GitAction
<1> QED BY <1>2, <1>3 DEF Settled

LEMMA TipStep ==
  ASSUME TypeInv, RowsThere, LockMatches, \A p \in Procs : CommitKnows(p), TipInv, [Next]_vars
  PROVE  TipInv'
<1>1. CASE UNCHANGED vars
  BY <1>1 DEF vars, git, past, TipInv, Settled, At, Now
<1>2. CASE Outside
  <2>1. UNCHANGED <<rows, unwritten>>
    BY <1>2 DEF Outside, Edit, Comment, AgentsDone, CloseRun, past
  <2>2. UNCHANGED <<stash, tip>> /\ \A k \in Targets : dirty[k] \subseteq dirty'[k]
    BY <1>2, OthersEdits DEF TypeInv
  <2>3. \A k \in Targets : Settled(k) => Settled(k)'
    BY <2>1, <2>2 DEF Settled
  <2> QED BY <1>2, <2>1, <2>3, OutsideTyped DEF TipInv, At, Now
<1>3. ASSUME NEW p \in Procs, Step(p)
      PROVE  TipInv'
  <2>1. OthersStay(p)
    BY <1>3, StepMoves
  <2>2. CASE lock = Dead
    BY <1>3, <2>2, DeadStays DEF TipInv
  <2>3. CASE lock' = Dead
    BY <2>3 DEF TipInv
  <2>4. CASE lock' # Dead /\ lock # Dead
    <3> SUFFICES ASSUME NEW k \in Targets PROVE Following(k)'
      BY DEF TipInv, Following
    <3>1. Following(k)
      BY <2>4 DEF TipInv, Following
    <3>2. CASE CommitRow(p)
      <4> DEFINE next == [sha |-> tip[Now(p)], url |-> rows[Now(p)].url]
      <4>1. next.sha = tip[Now(p)]
        OBVIOUS
      <4>2. Now(p) \in Targets /\ rows' = [rows EXCEPT ![Now(p)] = next] /\ unwritten' = unwritten \ {<<"commit", Now(p)>>}
        BY <1>3, <3>2, RowSteps
      <4>3. UNCHANGED <<dirty, stash, tip>>
        BY <3>2 DEF CommitRow, git
      <4> HIDE DEF next
      <4>4. CASE k = Now(p)
        BY <4>1, <4>2, <4>3, <4>4 DEF Following, Settled, TypeInv
      <4>5. CASE k # Now(p)
        <5>1. rows'[k] = rows[k] /\ (Settled(k) => Settled(k)')
          BY <4>2, <4>3, <4>5 DEF Settled, TypeInv
        <5>2. \A q \in Procs : At(q, "commit", "row") /\ Now(q) = k => (At(q, "commit", "row") /\ Now(q) = k)'
          BY <2>1, <4>5 DEF OthersStay, At, Now
        <5> QED BY <3>1, <5>1, <5>2 DEF Following
      <4> QED BY <4>4, <4>5
    <3>3. CASE PRRow(p)
      <4> DEFINE next == [sha |-> rows[Now(p)].sha, url |-> TRUE]
      <4>1. next.sha = rows[Now(p)].sha
        OBVIOUS
      <4>2. /\ Now(p) \in Targets /\ rows' = [rows EXCEPT ![Now(p)] = next] /\ unwritten' = unwritten \ {<<"pr", Now(p)>>}
            /\ rows[Now(p)] \in Row
        BY <1>3, <3>3, RowSteps
      <4>3. UNCHANGED <<dirty, stash, tip>>
        BY <3>3 DEF PRRow, git
      <4> HIDE DEF next
      <4>4. rows'[k].sha = rows[k].sha /\ (rows'[k] # NoRow => rows[k] # NoRow)
        BY <4>1, <4>2, NoRowIsNone DEF TypeInv
      <4>5. Settled(k) => Settled(k)'
        BY <4>2, <4>3, <4>4 DEF Settled
      <4>6. \A q \in Procs : At(q, "commit", "row") /\ Now(q) = k => (At(q, "commit", "row") /\ Now(q) = k)'
        BY <2>1, <3>3 DEF OthersStay, At, Now, PRRow
      <4> QED BY <3>1, <4>4, <4>5, <4>6 DEF Following
    <3>4. CASE ~CommitRow(p) /\ ~PRRow(p)
      <4>1. rows' = rows /\ unwritten \subseteq unwritten'
        BY <1>3, <3>4, RowSteps
      <4>2. CASE GitCommit(p) /\ Now(p) = k
        <5>2. On(p, "row") /\ call[p].op = "commit"
          BY <4>2, CommitKnown DEF GitCommit, At
        <5>1. At(p, "commit", "row")' /\ Now(p)' = k
          BY <4>2, <5>2 DEF On, At, Now
        <5> QED BY <5>1 DEF Following
      <4>3. CASE ~(GitCommit(p) /\ Now(p) = k)
        <5>1. Settled(k) => Settled(k)'
          <6>1. CASE GitCommit(p)
            <7>1. dirty'[k] = dirty[k] /\ stash' = stash
              BY <4>3, <6>1, TreeSteps DEF TypeInv
            <7>2. tip'[k] = tip[k]
              BY <4>3, <6>1 DEF GitCommit, TypeInv
            <7> QED BY <4>1, <7>1, <7>2 DEF Settled
          <6>2. CASE ~GitAction(p)
            BY <1>3, <4>1, <6>2, GitSteps DEF Settled
          <6>3. CASE GitAction(p) /\ ~GitCommit(p)
            BY <4>1, <6>3, TreeSettled
          <6> QED BY <6>1, <6>2, <6>3
        <5>2. ASSUME NEW q \in Procs, At(q, "commit", "row"), Now(q) = k
              PROVE  Following(k)'
          <6>1. CASE q # p
            BY <2>1, <5>2, <6>1 DEF Following, OthersStay, At, Now
          <6>2. CASE q = p
            <7>1. call[p].pc = "row" /\ Inside(p) /\ call[p].op = "commit"
              BY <5>2, <6>2 DEF At, Inside, Mutating
            <7>2. ~Dies(p)
              BY <2>4, <7>1, DyingInside
            <7>3. <<"commit", k>> \in unwritten'
              BY <1>3, <3>4, <5>2, <6>2, <7>1, <7>2, AtRow
            <7> QED BY <7>3 DEF Following, Settled
          <6> QED BY <6>1, <6>2
        <5> QED BY <3>1, <4>1, <5>1, <5>2 DEF Following
      <4> QED BY <4>2, <4>3
    <3> QED BY <3>2, <3>3, <3>4
  <2> QED BY <2>2, <2>3, <2>4
<1> QED BY <1>1, <1>2, <1>3 DEF Next, Outside

LEMMA TipMeans == LockMatches /\ TipInv => RowNamesTip
  BY ReviewAssumption DEF LockMatches, TipInv, Settled, RowNamesTip, At, Inside, Mutating, None, Dead

-----------------------------------------------------------------------------
(* Comments and answers *)

\* What a step does to the comments.
LEMMA CommentSteps ==
  ASSUME TypeInv, NEW p \in Procs, Step(p)
  PROVE  /\ ~MarkFeedback(p) /\ ~SyncStore(p) => feedback' = feedback
         /\ ~SyncStore(p) => asked' = asked /\ early' = early
         /\ MarkFeedback(p) =>
              /\ call[p] \in MarkCalls
              /\ \E c \in call[p].list : feedback' = [feedback EXCEPT ![c] = Mark[call[p].op].to]
         /\ SyncStore(p) =>
              /\ call[p] \in StoreCalls
              /\ \E c \in call[p].list : UpsertRunReviewFeedback(c, StatusToStore(p, c))
<1>1. ~MarkFeedback(p) /\ ~SyncStore(p) => feedback' = feedback /\ asked' = asked /\ early' = early
  BY DEF fb, past, Step, CommitStart, CommitClean, CommitCheck, Snapshot, Checkout, Apply, ApplyConflict, Drop,
        GitCommit, CommitRow, ListFeedback, PRStart, PRExists, PRCheck, Push, Create, PRRow, SyncStart, SyncRead,
        SyncFetch, DispatchStart, DispatchIterate, MergeStart, MergeOne, Fails, Dies
<1>2. MarkFeedback(p) => asked' = asked /\ early' = early /\ call[p] \in MarkCalls
  BY CallKnown DEF MarkFeedback, past
<1> QED BY <1>1, <1>2, FeedbackStepsKnown, SyncKnown

LEMMA SavedGrows ==
  ASSUME TypeInv, NEW p \in Procs, Step(p), NEW k \in Targets
  PROVE  saved[k] \subseteq saved'[k]
<1>1. CASE GitCommit(p)
  BY <1>1, TreeSteps DEF TypeInv
<1>2. CASE ~GitCommit(p)
  BY <1>2, GitSteps, TreeSteps DEF GitAction
<1> QED BY <1>1, <1>2

\* A row is not forgotten.
LEMMA KnownStays ==
  ASSUME TypeInv, NEW p \in Procs, Step(p), NEW d \in Comments, Known(d)
  PROVE  Known(d)'
<1>1. CASE MarkFeedback(p)
  <2>1. PICK c \in call[p].list : feedback' = [feedback EXCEPT ![c] = Mark[call[p].op].to]
    BY <1>1, CommentSteps
  <2>2. Mark[call[p].op].to \in {"new", "addressed"}
    BY <1>1, CommentSteps, MarkTo DEF MarkCalls
  <2> QED BY <2>1, <2>2 DEF Known, TypeInv
<1>2. CASE SyncStore(p)
  <2>1. PICK c \in call[p].list : UpsertRunReviewFeedback(c, StatusToStore(p, c))
    BY <1>2, CommentSteps
  <2>2. call[p] \in StoreCalls /\ c \in Comments
    BY <1>2, CommentSteps DEF StoreCalls, Lists
  <2>3. StatusToStore(p, c) \in {"queued", "new", "addressed"}
    BY <2>2, Stored
  <2> QED BY <2>1, <2>2, <2>3 DEF Known, TypeInv, UpsertRunReviewFeedback
<1>3. CASE ~MarkFeedback(p) /\ ~SyncStore(p)
  BY <1>3, CommentSteps DEF Known
<1> QED BY <1>1, <1>2, <1>3

\* An answer stays one, unless the row is written for the first time while nobody commits.
LEMMA AnsweredStays ==
  ASSUME TypeInv, AnswerInv, NEW p \in Procs, Step(p), NEW d \in Comments, Answered(d),
         feedback[d] # "posted" \/ Committing
  PROVE  Answered(d)'
<1>1. d[1] \in Targets
  BY DEF Comments
<1>2. CASE SyncStore(p)
  <2>1. PICK c \in call[p].list : UpsertRunReviewFeedback(c, StatusToStore(p, c))
    BY <1>2, CommentSteps
  <2>2. saved' = saved
    BY <1>2 DEF SyncStore, git
  <2>3. c \in Comments
    BY <1>2, CommentSteps DEF StoreCalls, Lists
  <2>4. d \in early \/ asked'[d] = asked[d] => Answered(d)'
    BY <2>1, <2>2 DEF Answered, UpsertRunReviewFeedback
  <2>5. CASE c # d \/ feedback[d] # "posted"
    BY <2>1, <2>3, <2>4, <2>5 DEF UpsertRunReviewFeedback, TypeInv
  <2>6. CASE c = d /\ feedback[d] = "posted"
    BY <2>1, <2>6 DEF UpsertRunReviewFeedback, Answered
  <2> QED BY <2>5, <2>6
<1>3. CASE ~SyncStore(p)
  <2>1. asked' = asked /\ early' = early /\ saved[d[1]] \subseteq saved'[d[1]] /\ asked[d] \subseteq saved[d[1]]
    BY <1>1, <1>3, CommentSteps, SavedGrows DEF AnswerInv
  <2> QED BY <2>1 DEF Answered
<1> QED BY <1>2, <1>3

LEMMA KnownAnswersStay ==
  ASSUME TypeInv, AnswerInv, NEW p \in Procs, Step(p), NEW d \in Comments, Known(d), Answered(d)
  PROVE  Known(d)' /\ Answered(d)'
  BY KnownStays, AnsweredStays DEF Known

\* The first part of AnswerInv.
LEMMA AskedStep ==
  ASSUME TypeInv, AnswerInv, NEW p \in Procs, Step(p), NEW d \in Comments
  PROVE  asked'[d] \subseteq saved'[d[1]]
<1>1. d[1] \in Targets /\ asked[d] \subseteq saved[d[1]]
  BY DEF Comments, AnswerInv
<1>2. CASE SyncStore(p)
  <2>1. PICK c \in call[p].list : UpsertRunReviewFeedback(c, StatusToStore(p, c))
    BY <1>2, CommentSteps
  <2>2. saved' = saved
    BY <1>2 DEF SyncStore, git
  <2> QED BY <1>1, <2>1, <2>2 DEF UpsertRunReviewFeedback, TypeInv
<1>3. CASE ~SyncStore(p)
  BY <1>1, <1>3, CommentSteps, SavedGrows
<1> QED BY <1>2, <1>3

\* The second.
LEMMA StatusAnswered ==
  ASSUME TypeInv, AnswerInv, NEW p \in Procs, Step(p), NEW d \in Comments, feedback'[d] \in {"new", "addressed"}
  PROVE  Answered(d)'
<1>1. CASE feedback'[d] = feedback[d]
  BY <1>1, KnownAnswersStay DEF AnswerInv, Known
<1>2. CASE feedback'[d] # feedback[d] /\ MarkFeedback(p)
  <2>1. PICK c \in call[p].list : feedback' = [feedback EXCEPT ![c] = Mark[call[p].op].to]
    BY <1>2, CommentSteps
  <2>2. call[p] \in MarkCalls /\ c = d
    BY <1>2, <2>1, CommentSteps DEF TypeInv
  <2>3. Known(d) /\ Answered(d)
    BY <2>2 DEF AnswerInv, FeedbackKnown
  <2> QED BY <2>3, KnownAnswersStay
<1>3. CASE feedback'[d] # feedback[d] /\ SyncStore(p)
  <2>1. PICK c \in call[p].list : UpsertRunReviewFeedback(c, StatusToStore(p, c))
    BY <1>3, CommentSteps
  <2>2. call[p] \in StoreCalls /\ c = d
    BY <1>3, <2>1, CommentSteps DEF TypeInv, UpsertRunReviewFeedback
  <2>3. feedback'[d] = StatusToStore(p, d)
    BY <2>1, <2>2 DEF TypeInv, UpsertRunReviewFeedback
  <2>4. call[p].known[d] \in {"new", "addressed"}
    BY <2>2, <2>3, Stored
  <2>5. Known(d) /\ Answered(d)
    BY <2>2, <2>4 DEF AnswerInv, FeedbackKnown
  <2> QED BY <2>5, KnownAnswersStay
<1> QED BY <1>1, <1>2, <1>3, CommentSteps

\* A commit answers every comment of its target.
LEMMA CommitAnswers ==
  ASSUME TypeInv, Fresh, AnswerInv, NEW p \in Procs, Step(p), GitCommit(p), NEW d \in Comments, d[1] = Now(p)
  PROVE  Answered(d)'
<1>1. /\ Now(p) \in Targets /\ dirty[Now(p)] # {}
      /\ saved' = [saved EXCEPT ![Now(p)] = saved[Now(p)] \union dirty[Now(p)]]
  BY TreeSteps DEF GitAction
<1>2. asked' = asked
  BY DEF GitCommit, fb
<1>3. asked[d] \subseteq saved[d[1]] /\ dirty[Now(p)] \cap saved[Now(p)] = {}
  BY <1>1 DEF AnswerInv, Fresh
<1>4. saved'[d[1]] # saved[d[1]] /\ saved[d[1]] \subseteq saved'[d[1]]
  BY <1>1, <1>3 DEF TypeInv
<1> QED BY <1>2, <1>3, <1>4 DEF Answered

LEMMA SyncPlaces ==
  ASSUME TypeInv, NEW p \in Procs, Step(p), call'[p] \in FetchCalls \union StoreCalls
  PROVE  SyncRead(p) \/ SyncFetch(p) \/ SyncStore(p)
<1>1. call'[p].op = "sync" /\ call'[p].pc \in {"fetch", "store"} /\ call'[p] # Idle
  BY DEF FetchCalls, StoreCalls, Idle, None
<1>2. ~CommitStart(p) /\ ~PRStart(p) /\ ~SyncStart(p) /\ ~DispatchStart(p) /\ ~MergeStart(p)
  BY <1>1, StartKnown DEF CommitCalls, PRCalls, ReadCalls, DispatchCalls, MergeCalls
<1>3. ~Returned(p) /\ ~Fails(p) /\ ~Dies(p) /\ ~DispatchIterate(p)
  BY <1>1, OtherStepsKnown DEF Returned
<1>4. ~Onward(p)
  BY <1>1 DEF Onward
<1>5. \A pc : Inside(p) => ~On(p, pc)
  BY <1>1 DEF On, Inside, Mutating
<1>6. ~CommitClean(p) /\ ~CommitCheck(p) /\ ~ApplyConflict(p) /\ ~Drop(p) /\ ~GitCommit(p) /\ ~CommitRow(p)
  <2>1. CommitClean(p) \/ CommitCheck(p) \/ ApplyConflict(p) \/ Drop(p) \/ GitCommit(p) \/ CommitRow(p) => Inside(p)
    BY DEF CommitClean, CommitCheck, ApplyConflict, Drop, GitCommit, CommitRow, At, Inside, Mutating
  <2> QED BY <1>3, <1>4, <1>5, <2>1, CommitKnown
<1>7. ~Snapshot(p) /\ ~Checkout(p) /\ ~Apply(p)
  <2> DEFINE next(pc, snap) == [op |-> "commit", pc |-> pc, todo |-> call[p].todo, snap |-> snap]
  <2>1. \A pc, snap : next(pc, snap).op = "commit"
    OBVIOUS
  <2>2. Snapshot(p) \/ Checkout(p) \/ Apply(p) => \E pc, snap : call'[p] = next(pc, snap)
    BY CommitKnown
  <2> HIDE DEF next
  <2> QED BY <1>1, <2>1, <2>2
<1>8. ~ListFeedback(p) /\ ~MarkFeedback(p)
  <2>1. ListFeedback(p) \/ MarkFeedback(p) => call[p].op \in Mutating
    BY CallKnown DEF ListFeedback, MarkFeedback, CommitCalls, PRCalls, MarkCalls, Mutating
  <2> DEFINE next == [op |-> call[p].op, pc |-> "mark", todo |-> call[p].todo, list |-> Listed(p)]
  <2>2. next.op = call[p].op
    OBVIOUS
  <2>3. ListFeedback(p) => call'[p] = next
    BY <1>3, <1>4, FeedbackStepsKnown
  <2> HIDE DEF next
  <2>4. ~ListFeedback(p)
    BY <1>1, <2>1, <2>2, <2>3 DEF Mutating
  <2> QED BY <1>1, <1>3, <1>4, <2>1, <2>4, FeedbackStepsKnown DEF Marked, Mutating
<1>9. ~PRExists(p) /\ ~PRCheck(p) /\ ~Push(p) /\ ~Create(p) /\ ~PRRow(p)
  <2>1. PRExists(p) \/ PRCheck(p) \/ Push(p) \/ Create(p) \/ PRRow(p) => Inside(p)
    BY DEF PRExists, PRCheck, Push, Create, PRRow, At, Inside, Mutating
  <2> QED BY <1>3, <1>5, <2>1, PRKnown
<1>10. ~MergeOne(p)
  BY <1>3, <1>4, OtherStepsKnown
<1> QED BY <1>2, <1>3, <1>6, <1>7, <1>8, <1>9, <1>10 DEF Step

\* The third part of AnswerInv: what a commit knows of its target,
LEMMA CommitFeedback ==
  ASSUME TypeInv, RowsThere, LockMatches, Fresh, AnswerInv, NEW p \in Procs, Step(p), NEW q \in Procs,
         call'[q].op = "commit", call'[q].pc \in {"row", "list", "mark"},
         NEW d \in Comments, d[1] = Now(q)'
  PROVE  Answered(d)'
<1>1. OthersStay(p)
  BY StepMoves
<1>2. ASSUME call[q].op = "commit", call[q].pc \in {"row", "list", "mark"}, d[1] = Now(q)
      PROVE  Answered(d)'
  <2>1. Answered(d) /\ Committing
    BY <1>2 DEF AnswerInv, FeedbackKnown, Committing
  <2> QED BY <2>1, AnsweredStays
<1>3. CASE q # p
  BY <1>1, <1>2, <1>3 DEF OthersStay, Now
<1>4. CASE q = p
  <2>1. Inside(p)'
    BY <1>4 DEF Inside, Mutating
  <2>2. (~PRExists(p) /\ ~PRRow(p) /\ ~Create(p)) \/ call[p].op # "commit"
    BY DEF PRExists, PRRow, Create, At
  <2>3. /\ call'[p].op = call[p].op /\ Now(p)' = Now(p)
        /\ GitCommit(p) \/ CommitRow(p) \/ ListFeedback(p) \/ MarkFeedback(p)
    BY <1>4, <2>1, <2>2, Places
  <2>4. CommitRow(p) \/ ListFeedback(p) \/ MarkFeedback(p) => call[p].pc \in {"row", "list", "mark"}
    BY DEF CommitRow, ListFeedback, MarkFeedback, At
  <2> QED BY <1>2, <1>4, <2>3, <2>4, CommitAnswers
<1> QED BY <1>3, <1>4

\* who marks of its list,
LEMMA MarkFeedbackKnown ==
  ASSUME TypeInv, RowsThere, AnswerInv, NEW p \in Procs, Step(p), NEW q \in Procs,
         call'[q] \in MarkCalls, NEW d \in call'[q].list
  PROVE  Known(d)' /\ Answered(d)' /\ d[1] = Now(q)'
<1>1. OthersStay(p) /\ d \in Comments
  BY StepMoves DEF MarkCalls, Lists
<1>2. ASSUME call[q] \in MarkCalls, d \in call[q].list, Now(q)' = Now(q)
      PROVE  Known(d)' /\ Answered(d)' /\ d[1] = Now(q)'
  <2>1. Known(d) /\ Answered(d) /\ d[1] = Now(q)
    BY <1>2 DEF AnswerInv, FeedbackKnown
  <2> QED BY <1>1, <1>2, <2>1, KnownAnswersStay
<1>3. CASE q # p
  BY <1>1, <1>2, <1>3 DEF OthersStay, Now
<1>4. CASE q = p
  <2>1. call'[p].pc = "mark" /\ Inside(p)'
    BY <1>4 DEF MarkCalls, Inside, Mutating
  <2>2. CASE MarkFeedback(p) /\ call'[p].list \subseteq call[p].list /\ Now(p)' = Now(p)
    BY <1>2, <1>4, <2>2, CallKnown DEF MarkFeedback
  <2>3. CASE ListFeedback(p) /\ call'[p].list = Listed(p) /\ Now(p)' = Now(p)
    <3>1. call[p].op \in {"commit", "pr"} /\ call[p].pc = "list"
      BY <2>3, CallKnown DEF ListFeedback, CommitCalls, PRCalls
    <3>2. d[1] = Now(p) /\ feedback[d] = Mark[call[p].op].from
      BY <1>4, <2>3 DEF Listed, ListRunReviewFeedback
    <3>3. Known(d)
      BY <3>1, <3>2, MarkTo DEF Known
    <3>6. Answered(d)
      BY <1>1, <3>1, <3>2, MarkTo DEF AnswerInv, FeedbackKnown
    <3> QED BY <1>1, <1>4, <2>3, <3>2, <3>3, <3>6, KnownAnswersStay
  <2> QED BY <2>1, <2>2, <2>3, Places
<1> QED BY <1>3, <1>4

\* and a sync of the rows that it has read.
LEMMA SyncFeedback ==
  ASSUME TypeInv, RowsThere, AnswerInv, NEW p \in Procs, Step(p), NEW q \in Procs,
         call'[q] \in FetchCalls \union StoreCalls, NEW d \in Comments, call'[q].known[d] \in {"new", "addressed"}
  PROVE  Known(d)' /\ Answered(d)'
<1>1. OthersStay(p)
  BY StepMoves
<1>2. ASSUME call[q] \in FetchCalls \union StoreCalls, call'[q].known = call[q].known
      PROVE  Known(d)' /\ Answered(d)'
  BY <1>2, KnownAnswersStay DEF AnswerInv, FeedbackKnown
<1>3. CASE q # p
  BY <1>1, <1>2, <1>3 DEF OthersStay
<1>4. CASE q = p /\ SyncRead(p)
  <2>1. feedback[d] \in {"new", "addressed"}
    BY <1>4, SyncKnown
  <2>2. Known(d) /\ Answered(d)
    BY <2>1 DEF Known, AnswerInv
  <2> QED BY <2>2, KnownAnswersStay
<1>5. CASE q = p /\ (SyncFetch(p) \/ SyncStore(p))
  <2>1. call'[p] # Idle
    BY <1>5 DEF FetchCalls, StoreCalls, Idle, None
  <2> QED BY <1>2, <1>5, <2>1, SyncKnown DEF Synced
<1> QED BY <1>3, <1>4, <1>5, SyncPlaces

LEMMA AnswerStep ==
  ASSUME TypeInv, RowsThere, LockMatches, Fresh, AnswerInv, [Next]_vars
  PROVE  AnswerInv'
<1>1. CASE UNCHANGED vars
  BY <1>1 DEF vars, git, fb, past, AnswerInv, FeedbackKnown, Answered, Known, Now
<1>2. CASE Outside
  <2>1. UNCHANGED <<asked, early, saved, call>>
    BY <1>2, OthersEdits, OutsideTyped DEF Outside, Edit, Comment, AgentsDone, CloseRun, fb, past
  <2>2. \A d \in Comments : feedback'[d] = feedback[d] \/ (feedback[d] = "none" /\ feedback'[d] = "posted")
    BY <1>2 DEF Outside, Edit, Comment, AgentsDone, CloseRun, fb, TypeInv
  <2>3. \A d \in Comments : (Answered(d) => Answered(d)') /\ (Known(d) => Known(d)')
    BY <2>1, <2>2 DEF Answered, Known
  <2>4. \A d \in Comments : feedback'[d] \in {"new", "addressed"} => Answered(d)'
    BY <2>2, <2>3 DEF AnswerInv
  <2>5. ASSUME NEW q \in Procs PROVE FeedbackKnown(q)'
    <3>1. FeedbackKnown(q) /\ (call[q] \in MarkCalls => call[q].list \subseteq Comments)
      BY DEF AnswerInv, MarkCalls, Lists
    <3>2. Now(q)' = Now(q) /\ call'[q] = call[q]
      BY <2>1 DEF Now
    <3> QED BY <2>3, <3>1, <3>2 DEF FeedbackKnown
  <2> QED BY <2>1, <2>4, <2>5 DEF AnswerInv
<1>3. ASSUME NEW p \in Procs, Step(p)
      PROVE  AnswerInv'
  <2>1. \A d \in Comments : asked'[d] \subseteq saved'[d[1]]
    BY <1>3, AskedStep
  <2>2. \A d \in Comments : feedback'[d] \in {"new", "addressed"} => Answered(d)'
    BY <1>3, StatusAnswered
  <2>3. ASSUME NEW q \in Procs PROVE FeedbackKnown(q)'
    BY <1>3, CommitFeedback, MarkFeedbackKnown, SyncFeedback DEF FeedbackKnown
  <2> QED BY <2>1, <2>2, <2>3 DEF AnswerInv
<1> QED BY <1>1, <1>2, <1>3 DEF Next, Outside

-----------------------------------------------------------------------------
(* What holds in every state *)

LEMMA Inductive ==
  ASSUME IInv, [Next]_vars
  PROVE  IInv'
<1> USE DEF IInv
<1>1. TypeInv' /\ RowsThere' /\ LockMatches'
  BY TypeStep, LockStep
<1>2. Fresh' /\ EditsAreSomewhere' /\ \A p \in Procs : CommitKnows(p)'
  BY FreshStep, SomewhereStep, CommitKnowsStep
<1>3. CheckInv' /\ ForbiddenStaysOut'
  BY CheckStep
<1>4. RecordInv' /\ TipInv' /\ AnswerInv'
  BY RecordStep, TipStep, AnswerStep
<1> QED BY <1>1, <1>2, <1>3, <1>4

LEMMA Starts ==
  ASSUME Init
  PROVE  IInv
<1>1. TypeInv /\ RowsThere
  BY TypeStart
<1>2. LockMatches
  BY ReviewAssumption DEF Init, LockMatches, Inside, Idle, Mutating, None, Dead
<1>3. Fresh /\ EditsAreSomewhere
  <2>1. 1..edits = Targets
    BY DEF Init, Targets
  <2>2. \A k \in Targets : dirty[k] = {k} /\ saved[k] = {}
    BY DEF Init
  <2>3. \A p \in Procs : call[p] \notin MovingCalls
    BY DEF Init, Idle, MovingCalls, None
  <2>4. Fresh
    BY <2>1, <2>2, <2>3 DEF Fresh
  <2>5. EditsAreSomewhere
    <3>1. ASSUME NEW e \in 1..edits
          PROVE  e \in UNION {dirty[k] \union stash[k] \union saved[k] : k \in Targets}
      <4>1. e \in Targets
        BY <2>1
      <4>2. e \in dirty[e] \union stash[e] \union saved[e]
        BY <2>2, <4>1
      <4> QED BY <4>1, <4>2
    <3> QED BY <3>1 DEF EditsAreSomewhere
  <2> QED BY <2>4, <2>5
<1>4. ForbiddenStaysOut /\ CheckInv
  BY DEF Init, ForbiddenStaysOut, CheckInv, Checked, Idle, None
<1>5. RecordInv /\ TipInv
  BY DEF Init, RecordInv, TipInv
<1>6. AnswerInv
  <2>1. \A p \in Procs : FeedbackKnown(p)
    BY DEF Init, FeedbackKnown, Idle, None, MarkCalls, FetchCalls, StoreCalls
  <2>2. \A c \in Comments : asked[c] = {} /\ feedback[c] = "none"
    BY DEF Init
  <2> QED BY <2>1, <2>2 DEF AnswerInv
<1>7. \A p \in Procs : CommitKnows(p)
  BY DEF Init, CommitKnows, At, Idle, None
<1> QED BY <1>1, <1>2, <1>3, <1>4, <1>5, <1>6, <1>7 DEF IInv

LEMMA Invariant == Spec => []IInv
  BY Starts, Inductive, PTL DEF Spec

\* Whatever fails and whoever dies while prepareCommitBranch moves a working tree,
\* every edit is in the tree, in the stash or was committed.
THEOREM NoEditIsLost == Spec => []EditsAreSomewhere
<1>1. IInv => EditsAreSomewhere
  BY DEF IInv
<1> QED BY <1>1, Invariant, PTL

\* With require_all the forbidden files that were ever committed are those that no
\* check was shown: touched while a commit was under way, or in a directory that git
\* did not track when the check asked it for the status.
THEOREM ForbiddenOut == Spec => []ForbiddenStaysOut
<1>1. IInv => ForbiddenStaysOut
  BY DEF IInv
<1> QED BY <1>1, Invariant, PTL

\* A pull request that no row knows is locked in, or was reported by an error.
THEOREM PullsRecorded == Spec => []UnrecordedIsLocked
<1>1. IInv => UnrecordedIsLocked
  BY RecordMeans DEF IInv
<1> QED BY <1>1, Invariant, PTL

\* Between commands a row names the commit that its branch is at.
THEOREM RowsCorrect == Spec => []RowNamesTip
<1>1. IInv => RowNamesTip
  BY TipMeans DEF IInv
<1> QED BY <1>1, Invariant, PTL

\* A comment that is called addressed was answered by a commit.
THEOREM AddressedAnswered == Spec => []AddressedAfterCommit
<1>1. IInv => AddressedAfterCommit
  BY DEF IInv, AnswerInv, Answered, AddressedAfterCommit
<1> QED BY <1>1, Invariant, PTL

-----------------------------------------------------------------------------
(* What no step does *)

\* Forward, or behind what another command has done.
Forward(c) ==
  \/ Rank[feedback'[c]] >= Rank[feedback[c]]
  \/ \E p \in Procs :
       At(p, "sync", "store") /\ Rank[call[p].known[c]] < Rank[feedback[c]]
  \/ \E p \in Procs :
       At(p, "commit", "mark") /\ c \in call[p].list /\ feedback[c] = "addressed"

LEMMA SameStatus ==
  ASSUME TypeInv, NEW d \in Comments, feedback'[d] = feedback[d]
  PROVE  Forward(d)
<1>1. Rank[feedback[d]] \in 0..4
  BY RankKnown DEF TypeInv
<1> QED BY <1>1 DEF Forward

LEMMA ForwardStep ==
  ASSUME IInv, [Next]_vars, NEW d \in Comments
  PROVE  Forward(d)
<1> USE DEF IInv
<1>1. CASE UNCHANGED vars
  BY <1>1, SameStatus DEF vars, fb
<1>2. CASE Outside
  <2>1. feedback'[d] = feedback[d] \/ (feedback[d] = "none" /\ feedback'[d] = "posted")
    BY <1>2 DEF Outside, Edit, Comment, AgentsDone, CloseRun, fb, TypeInv
  <2>2. CASE feedback[d] = "none" /\ feedback'[d] = "posted"
    BY <2>2 DEF Forward, Rank
  <2> QED BY <2>1, <2>2, SameStatus
<1>3. ASSUME NEW p \in Procs, Step(p)
      PROVE  Forward(d)
  <2>1. CASE feedback'[d] = feedback[d]
    BY <2>1, SameStatus
  <2>2. CASE feedback'[d] # feedback[d] /\ MarkFeedback(p)
    <3>1. PICK c \in call[p].list : feedback' = [feedback EXCEPT ![c] = Mark[call[p].op].to]
      BY <1>3, <2>2, CommentSteps
    <3>2. call[p] \in MarkCalls /\ c = d
      BY <1>3, <2>2, <3>1, CommentSteps DEF TypeInv
    <3>3. Known(d) /\ feedback'[d] = Mark[call[p].op].to
      BY <3>1, <3>2 DEF AnswerInv, FeedbackKnown, TypeInv
    <3>4. feedback[d] \in {"queued", "new", "addressed"}
      BY <3>3 DEF Known, TypeInv, Statuses
    <3>5. CASE call[p].op = "pr"
      <4>1. feedback'[d] = "addressed"
        BY <3>3, <3>5, MarkTo
      <4> QED BY <3>4, <4>1 DEF Forward, Rank
    <3>6. CASE call[p].op = "commit"
      <4>1. feedback'[d] = "new"
        BY <3>3, <3>6, MarkTo
      <4>2. CASE feedback[d] = "addressed"
        <5>1. At(p, "commit", "mark") /\ d \in call[p].list
          BY <3>1, <3>2, <3>6 DEF At, MarkCalls
        <5> QED BY <4>2, <5>1 DEF Forward
      <4>3. CASE feedback[d] # "addressed"
        BY <3>4, <4>1, <4>3 DEF Forward, Rank
      <4> QED BY <4>2, <4>3
    <3> QED BY <3>2, <3>5, <3>6 DEF MarkCalls
  <2>3. CASE feedback'[d] # feedback[d] /\ SyncStore(p)
    <3>1. PICK c \in call[p].list : UpsertRunReviewFeedback(c, StatusToStore(p, c))
      BY <1>3, <2>3, CommentSteps
    <3>2. call[p] \in StoreCalls /\ c = d
      BY <1>3, <2>3, <3>1, CommentSteps DEF TypeInv, UpsertRunReviewFeedback
    <3>3. feedback'[d] = StatusToStore(p, d)
      BY <3>1, <3>2 DEF TypeInv, UpsertRunReviewFeedback
    <3>4. call[p].known[d] \in Statuses /\ feedback[d] \in Statuses /\ feedback'[d] \in Statuses
      BY <1>3, <3>2, StepMoves DEF StoreCalls, TypeInv
    <3>5. Rank[call[p].known[d]] <= Rank[feedback'[d]]
      BY <3>3, <3>4 DEF StatusToStore, Rank, Statuses
    <3>6. At(p, "sync", "store")
      BY <2>3 DEF SyncStore
    <3>7. Rank[call[p].known[d]] \in 0..4 /\ Rank[feedback[d]] \in 0..4 /\ Rank[feedback'[d]] \in 0..4
      BY <3>4, RankKnown
    <3>8. Rank[feedback'[d]] >= Rank[feedback[d]] \/ Rank[call[p].known[d]] < Rank[feedback[d]]
      BY <3>5, <3>7
    <3> QED BY <3>6, <3>8 DEF Forward
  <2> QED BY <1>3, <2>1, <2>2, <2>3, CommentSteps
<1> QED BY <1>1, <1>2, <1>3 DEF Next, Outside

\* A status is never taken back, except by a command that writes over what another
\* command has done since it looked.
THEOREM NeverBack == Spec => FeedbackForward
<1>1. IInv /\ [Next]_vars =>
        [\A c \in Comments :
           \/ Rank[feedback'[c]] >= Rank[feedback[c]]
           \/ \E p \in Procs :
                At(p, "sync", "store") /\ Rank[call[p].known[c]] < Rank[feedback[c]]
           \/ \E p \in Procs :
                At(p, "commit", "mark") /\ c \in call[p].list /\ feedback[c] = "addressed"]_vars
  BY ForwardStep DEF Forward
<1> QED BY <1>1, Invariant, PTL DEF Spec, FeedbackForward

=============================================================================
