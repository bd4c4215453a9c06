------------------------------ MODULE RunClose ------------------------------
(***************************************************************************)
(* Service.Close (internal/orchestrator/service.go): the gates that must   *)
(* hold before a completed run is merged, and the merges.                  *)
(***************************************************************************)
EXTENDS RunState

CloseRead(p) ==
  /\ At(p, "begin") /\ proc[p].op \in {"close", "close_dry"}
  /\ \/ /\ status = "completed"
        /\ Goto(p, "close_load")
     \/ /\ status # "completed"
        /\ Return(p)
  /\ UNCHANGED <<rows, world, control, issued>>

CloseLoad(p) ==
  /\ At(p, "close_load")
  /\ proc' = [proc EXCEPT ![p].pc = "close_docs", ![p].snap = agent]
  /\ UNCHANGED <<rows, world, control, issued>>

RunWorkspaces(p) == WorkspacesOf(InSnapshot(p))

\* ensureWorkspaceDocCloseChecks wants every ticket of the run synced into every
\* workspace of the run.  That the row also has a revision says no more, since DocsCopy
\* never writes synced without one; that the documents are still in the workspace
\* (2449) is taken as given, agents being free to do worse to them.
DocsReady(p) ==
  SeedDocs => \A w \in RunWorkspaces(p) :
                /\ w \in workspace
                /\ \A t \in Tickets : docSync[<<t, w>>] = "synced"

\* Its own git check covers the doc repository only: a workspace found dirty may
\* be dirty elsewhere.
CloseDocs(p) ==
  /\ At(p, "close_docs")
  /\ \/ /\ DocsReady(p)
        /\ proc' = [proc EXCEPT ![p].pc = "close_dirty", ![p].ws = RunWorkspaces(p)]
     \/ /\ ~DocsReady(p) \/ (SeedDocs /\ RunWorkspaces(p) \intersect dirty # {})
        /\ Return(p)
  /\ UNCHANGED <<rows, world, control, issued>>

\* Mutant: the git state is not looked at.
CloseDirty_NoCheck(p) ==
  /\ At(p, "close_dirty") /\ proc[p].ws # {}
  /\ proc' = [proc EXCEPT ![p].ws = {}]
  /\ UNCHANGED <<rows, world, control, issued>>

CloseDirty(p) ==
  /\ At(p, "close_dirty")
  /\ \E w \in proc[p].ws :
       /\ IsLeast(w, proc[p].ws)
       /\ \/ /\ w \in workspace /\ w \notin dirty
             /\ proc' = [proc EXCEPT ![p].ws = @ \ {w}]
          \/ /\ w \notin workspace \/ w \in dirty
             /\ Return(p)
  /\ UNCHANGED <<rows, world, control, issued>>

\* ensureBootstrapCloseChecks.  Its first gate, for a brief, never refuses: a run gets
\* its brief before it leaves created, where nothing but that command takes it, and
\* no statement deletes one.
SignalsReady ==
  Bootstrap => \A a \in Registered :
                 /\ ~control[a[2]].pending
                 /\ control[a[2]].completed
                 /\ control[a[2]].validation = "passed"

CloseSignals(p) ==
  /\ At(p, "close_dirty") /\ proc[p].ws = {}
  /\ \/ /\ SignalsReady
        /\ Goto(p, "close_go")
     \/ /\ ~SignalsReady
        /\ Return(p)
  /\ UNCHANGED <<rows, world, control, issued>>

\* Mutant: as in Service.Merge, only workspaces with changes are merged.
CloseGo_OnlyDirty(p) ==
  /\ At(p, "close_go")
  /\ transitionRun("completed", "closing")
  /\ proc' = [proc EXCEPT ![p].pc = "close_merge",
                          ![p].ws = RunWorkspaces(p) \intersect dirty]
  /\ UNCHANGED <<step, agent, docSync, world, control, issued>>

CloseGo(p) ==
  /\ At(p, "close_go")
  /\ transitionRun("completed", "closing")
  /\ proc' = [proc EXCEPT ![p].pc = "close_merge", ![p].ws = RunWorkspaces(p)]
  /\ UNCHANGED <<step, agent, docSync, world, control, issued>>

\* Mutant: a failed merge ends the command and leaves the run closing.
CloseMerge_NoFail(p) ==
  /\ At(p, "close_merge")
  /\ \E w \in proc[p].ws :
       \/ /\ merged' = [merged EXCEPT ![w] = IF w \in dirty THEN "dirty" ELSE "clean"]
          /\ proc' = [proc EXCEPT ![p].ws = @ \ {w}]
       \/ /\ "shell" \in Env
          /\ Return(p)
          /\ UNCHANGED merged
  /\ UNCHANGED <<rows, session, workspace, dirty, control, issued>>

\* wsm merge, printed and not run by a dry run.
CloseMerge(p) ==
  /\ At(p, "close_merge")
  /\ \E w \in proc[p].ws :
       /\ IsLeast(w, proc[p].ws)
       /\ \/ /\ proc[p].op = "close_dry" \/ w \in workspace
             /\ merged' = IF proc[p].op = "close_dry" THEN merged
                          ELSE [merged EXCEPT ![w] =
                                  IF w \in dirty THEN "dirty" ELSE "clean"]
             /\ proc' = [proc EXCEPT ![p].ws = @ \ {w}]
          \/ /\ proc[p].op = "close" /\ ("shell" \in Env \/ w \notin workspace)
             /\ Goto(p, "close_fail")
             /\ UNCHANGED merged
  /\ UNCHANGED <<rows, session, workspace, dirty, control, issued>>

\* docmgr ticket close, for every ticket.
CloseTickets(p) ==
  /\ At(p, "close_merge") /\ proc[p].ws = {}
  /\ \/ Goto(p, "close_end")
     \/ proc[p].op = "close" /\ "shell" \in Env /\ Goto(p, "close_fail")
  /\ UNCHANGED <<rows, world, control, issued>>

CloseEnd(p) ==
  /\ At(p, "close_end")
  /\ transitionRun("closing", "closed")
  /\ Return(p)
  /\ UNCHANGED <<step, agent, docSync, world, control, issued>>

CloseFail(p) ==
  /\ At(p, "close_fail")
  /\ \/ transitionRun("closing", "failed")
     \/ StoreErrorIgnored /\ status' = status
  /\ Return(p)
  /\ UNCHANGED <<step, agent, docSync, world, control, issued>>

CloseStep(p) ==
  \/ CloseRead(p) \/ CloseLoad(p) \/ CloseDocs(p) \/ CloseDirty(p)
  \/ CloseSignals(p) \/ CloseGo(p) \/ CloseMerge(p) \/ CloseTickets(p)
  \/ CloseEnd(p) \/ CloseFail(p)

=============================================================================
