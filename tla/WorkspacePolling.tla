--------------------------- MODULE WorkspacePolling ----------------------------
(***************************************************************************)
(* What the web app shows of a project: useWorkspacePolling (web/src/      *)
(* hooks/use-workspace-polling.ts) with HttpWorkspaceApiClient (web/src/   *)
(* api/workspace-client.ts), against the route that answers it (worker/src/*)
(* api/workspace-updates/routes.ts).  React may run the effect of the hook *)
(* again: what the effect closes over starts anew, what is shown stays,    *)
(* and the request of the earlier run may still be on its way.             *)
(*                                                                         *)
(* Abstractions.  The body of an answer is named by what it is computed    *)
(* from: the version of the project and the cursor it was asked with (the  *)
(* service behind the route is not in the repository; its cursor is the    *)
(* version).  A body is its own etag.  Time passes when a timer rings.     *)
(***************************************************************************)
EXTENDS Naturals

CONSTANTS
  MaxVersion,   \* bound: changes of the project
  MaxRuns,      \* bound: runs of the effect
  MaxFailures,  \* bound: answers that are none
  PartialAt,    \* versions the service has only part of
  None

Bodies == [version : 0..MaxVersion, from : {None} \union 0..MaxVersion]

(* A request on its way, with its answer.                                  *)
WorkspacePollRequest == [cursor : {None} \union 0..MaxVersion, etag : {None} \union Bodies,
                         body : {None} \union Bodies]

Runs == 1..MaxRuns

PollingAssumption ==
  /\ MaxVersion \in Nat /\ MaxRuns \in Nat \ {0} /\ MaxFailures \in Nat
  /\ PartialAt \subseteq 0..MaxVersion
  /\ None \notin 0..MaxVersion \union Bodies \union WorkspacePollRequest
  /\ None \notin {"interval", "backoff", "maximum"}

VARIABLES
  version,   \* the project, as the service would read it
  effect,    \* what the present run of the effect closes over
  requests,  \* the request of each run that is on its way, or None
  view,      \* what the hook returns
  failures   \* failures so far

vars == <<version, effect, requests, view, failures>>

Fresh(run) == [run |-> run, cursor |-> None, etag |-> None, hasApiData |-> FALSE, timer |-> None]

WorkspacePollingState == [phase : {"loading", "live", "partial", "stale", "error"},
                          page : {None} \union Bodies]

Request(cursor, etag) == [cursor |-> cursor, etag |-> etag, body |-> None]
Ask(run, cursor, etag) == [requests EXCEPT ![run] = Request(cursor, etag)]

(* enabled: the run begins with a poll; the page of the fixture is None.   *)
Init ==
  /\ version = 0 /\ failures = 0
  /\ effect = Fresh(1)
  /\ requests = [r \in Runs |-> IF r = 1 THEN Request(None, None) ELSE None]
  /\ view = [phase |-> "loading", page |-> None]

-----------------------------------------------------------------------------
(* The project changes.                                                    *)
Change == version < MaxVersion /\ version' = version + 1 /\ UNCHANGED <<effect, requests, view, failures>>

(* React cleans the run up - its timer is cleared, its request aborted -   *)
(* and runs the effect again.                                              *)
Rerun ==
  /\ effect.run < MaxRuns
  /\ effect' = Fresh(effect.run + 1)
  /\ requests' = Ask(effect.run + 1, None, None)
  /\ UNCHANGED <<version, view, failures>>

(* The timer rings: poll.                                                  *)
Poll ==
  /\ effect.timer # None
  /\ effect' = [effect EXCEPT !.timer = None]
  /\ requests' = Ask(effect.run, effect.cursor, effect.etag)
  /\ UNCHANGED <<version, view, failures>>

-----------------------------------------------------------------------------
(* The route: the service reads the project, and the answer is on its way. *)
Serve(run) ==
  /\ requests[run] # None /\ requests[run].body = None
  /\ requests' = [requests EXCEPT ![run].body = [version |-> version, from |-> requests[run].cursor]]
  /\ UNCHANGED <<version, effect, view, failures>>

PhaseOf(page) == IF page.version \in PartialAt THEN "partial" ELSE "live"

AppliesAnyway(run) == TRUE

(* Whether a result is that of the present run: its signal is not aborted. *)
Applies(run) == run = effect.run

(* 304, when the body is still the one whose etag was sent: what is shown  *)
(* is called current, if this run has shown anything.                      *)
NotModified(run, body) ==
  /\ requests[run].etag = body
  /\ effect' = [effect EXCEPT !.timer = "interval"]
  /\ view' = IF effect.hasApiData THEN [view EXCEPT !.phase = PhaseOf(view.page)] ELSE view

(* 200: the page is shown, its cursor and etag are kept.                   *)
Updated(run, body) ==
  /\ requests[run].etag # body
  /\ effect' = [effect EXCEPT !.cursor = body.version, !.etag = body,
                              !.hasApiData = TRUE, !.timer = "interval"]
  /\ view' = [phase |-> PhaseOf(body), page |-> body]

Answer(run) ==
  /\ requests[run] # None /\ requests[run].body # None
  /\ requests' = [requests EXCEPT ![run] = None]
  /\ IF Applies(run)
     THEN NotModified(run, requests[run].body) \/ Updated(run, requests[run].body)
     ELSE UNCHANGED <<effect, view>>
  /\ UNCHANGED <<version, failures>>

(* No connection, a status that is none of these, or a body of no page:    *)
(* what is shown stays and is called stale, or an error when this run has  *)
(* shown nothing; the next poll waits for the back-off, or as long as can  *)
(* be when asking again is said to be of no use.                           *)
Fail(run) ==
  /\ requests[run] # None
  /\ failures < MaxFailures
  /\ failures' = failures + 1
  /\ requests' = [requests EXCEPT ![run] = None]
  /\ IF Applies(run)
     THEN \E retryable \in BOOLEAN :
            /\ effect' = [effect EXCEPT !.timer = IF retryable THEN "backoff" ELSE "maximum"]
            /\ view' = [view EXCEPT !.phase = IF effect.hasApiData THEN "stale" ELSE "error"]
     ELSE UNCHANGED <<effect, view>>
  /\ UNCHANGED version

Next == Change \/ Rerun \/ Poll \/ \E run \in Runs : Serve(run) \/ Answer(run) \/ Fail(run)

(* Timers ring, and a request is answered or fails: fetch has no time-out  *)
(* of its own, the browser does.                                           *)
Fairness == WF_vars(Poll) /\ \A run \in Runs : WF_vars(Serve(run) \/ Answer(run) \/ Fail(run))

Spec == Init /\ [][Next]_vars /\ Fairness

-----------------------------------------------------------------------------
(* Every variable has its type.                                            *)
TypeOK ==
  /\ version \in 0..MaxVersion /\ failures \in 0..MaxFailures
  /\ effect.run \in Runs /\ effect.timer \in {None, "interval", "backoff", "maximum"}
  /\ effect.etag \in {None} \union Bodies
  /\ view \in WorkspacePollingState
  /\ requests \in [Runs -> {None} \union WorkspacePollRequest]

(* A run of the effect polls one request at a time, and what its etag will *)
(* let the server call unchanged is the page on the screen, whatever the   *)
(* requests of earlier runs bring back meanwhile (useWorkspacePolling).    *)
ShownIsAnswered ==
  /\ effect.timer # None => requests[effect.run] = None
  /\ effect.hasApiData => effect.etag = view.page /\ effect.cursor = view.page.version
  /\ view.phase \in {"live", "partial"} => view.page # None

(* Once the project, the effect and the network are quiet, the page shown  *)
(* is that of the project and is called live or partial, as it is          *)
(* (useWorkspacePolling, the etag of the route).                           *)
Shown == view.page # None /\ view.page.version = version /\ view.phase = PhaseOf(view.page)
CatchesUp == <>[]Shown
=============================================================================
