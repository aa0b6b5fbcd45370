--------------------------- MODULE CaptureSession ---------------------------
(***************************************************************************)
(* An observation session across its three parties: the commands of the    *)
(* VS Code extension (apps/extension/src/extension.ts), the controller     *)
(* that launches and stops the Companion (companion/controller.ts) and the *)
(* Companion's request handler (crates/companion/src/main.rs), which       *)
(* writes the evidence of a session to the spool.                          *)
(*                                                                         *)
(* Commands run concurrently in one JavaScript thread.  An action is what  *)
(* runs between two awaits, promises that resolve at once included: the    *)
(* exit event of a process resumes every stop() that waits for it before   *)
(* anything else runs.  The Companion serves one request per connection,   *)
(* one at a time.  SIGTERM only sets a token that its accept loop reads    *)
(* after a connection, so a Companion nobody calls ends by SIGKILL.        *)
(*                                                                         *)
(* Abstractions.  A process is launched for one start command and so has   *)
(* one session, named like the process.  The 20 attempts of a request and  *)
(* its timer are one failure, after which the request may still be served. *)
(* The IPC secret and endpoint of a process are its name.  The service's   *)
(* API, coverage reports and the wording of messages are left out; the     *)
(* update of the saved state takes effect when it is called.               *)
(***************************************************************************)
EXTENDS Integers, Sequences, FiniteSets

CONSTANTS
  Commands,     \* commands that can run at a time
  Kinds,        \* what the user does: start, stop, scan, disconnect,
                \* connect and link
  Processes,    \* Companion processes that can be launched
  MaxIssued,    \* bound: commands issued
  MaxCrashes,   \* bound: Companions that end on their own
  MaxRestarts,  \* bound: restarts of the extension host
  None

CaptureAssumption ==
  /\ MaxIssued \in Nat /\ MaxCrashes \in Nat /\ MaxRestarts \in Nat
  /\ None \notin Processes

VARIABLES
  stored,     \* PersistentExtensionState
  child,      \* CompanionController.#child
  ipc,        \* CompanionController.#ipc: the process it reaches
  proc,       \* unborn, up, dead, or gone: its exit event was delivered
  signalled,  \* processes that were sent SIGTERM
  active,     \* processes whose RuntimeIpcHandler.active is set
  log,        \* evidence in the spool, which all processes share
  inbox,      \* requests sent and not yet served
  commands,   \* where each command is and what it read
  issued,     \* commands issued so far
  faults      \* crashes and restarts so far

controller == <<child, ipc>>
companion == <<proc, signalled, active, log>>
vars == <<stored, controller, companion, inbox, commands, issued, faults>>

-----------------------------------------------------------------------------
NoReply == [ok |-> FALSE, checkpoint |-> None]

Idle == [kind |-> "none", step |-> "idle", id |-> 0, target |-> None,
         capture |-> None, reply |-> NoReply]

EmptyState ==
  [connected |-> FALSE, linked |-> FALSE, capture |-> None, checkpoint |-> None]

(* The getter running: a child that was killed is not running, although it *)
(* may not have exited yet.                                                *)
Running == child # None /\ child \notin signalled

Waiting(p) == {c \in Commands : /\ commands[c].step \in {"exiting", "killing"}
                                /\ commands[c].target = p}

Become(c, next) == commands' = [commands EXCEPT ![c] = next]

Init ==
  /\ stored = [EmptyState EXCEPT !.connected = TRUE, !.linked = TRUE]
  /\ child = None /\ ipc = None
  /\ proc = [p \in Processes |-> "unborn"]
  /\ signalled = {} /\ active = {} /\ log = <<>>
  /\ inbox = {}
  /\ commands = [c \in Commands |-> Idle]
  /\ issued = 0
  /\ faults = [crash |-> 0, restart |-> 0]

-----------------------------------------------------------------------------
ChildForgotten(p) == None

(* An exit is only that of the child if no other was launched meanwhile.   *)
ChildWithout(p) == IF child = p THEN None ELSE child

StopReturnsKeepingIpc(W) ==
  /\ ipc' = ipc
  /\ stored' = stored
  /\ commands' = [c \in Commands |-> IF c \in W THEN Idle ELSE commands[c]]

(* The ends of stop(), for every command of W that was inside it: the IPC  *)
(* is cleared whichever process it belongs to.                             *)
StopReturns(W) ==
  /\ ipc' = None
  /\ stored' = IF \E c \in W : commands[c].kind = "stop"
               THEN [stored EXCEPT !.capture = None] ELSE stored
  /\ commands' = [c \in Commands |->
       IF c \notin W THEN commands[c]
       ELSE IF commands[c].kind = "disconnect"
            THEN [commands[c] EXCEPT !.step = "clear"] ELSE Idle]

(* stop(): SIGTERM, then wait for the exit event.                          *)
StopCompanion(c) ==
  IF child = None
  THEN StopReturns({c}) /\ UNCHANGED <<child, signalled>>
  ELSE /\ signalled' = signalled \union {child}
       /\ Become(c, [commands[c] EXCEPT !.step = "exiting", !.target = child])
       /\ UNCHANGED <<controller, stored>>

Send(c, p, request, session) ==
  /\ inbox' = inbox \union {[id |-> commands[c].id, process |-> p,
                             request |-> request, session |-> session]}
  /\ Become(c, [commands[c] EXCEPT !.step = "await", !.target = p])

(* The user runs a command; start and scan read the saved state at once.   *)
Issue(c, kind) ==
  /\ commands[c] = Idle
  /\ issued < MaxIssued
  /\ kind \in {"start", "scan"} => stored.linked
  /\ issued' = issued + 1
  /\ Become(c, [Idle EXCEPT !.kind = kind, !.step = "ready",
                            !.id = issued', !.capture = stored.capture])
  /\ UNCHANGED <<stored, controller, companion, inbox, faults>>

(* A modal dialog is dismissed, or the binary is missing.                  *)
Dismiss(c) ==
  /\ commands[c].step = "ready"
  /\ commands[c].kind \in {"start", "disconnect"}
  /\ Become(c, Idle)
  /\ UNCHANGED <<stored, controller, companion, inbox, issued, faults>>

(* startCapture after consent; already_running is an error.                *)
Launch(c) ==
  /\ commands[c].step = "ready" /\ commands[c].kind = "start"
  /\ IF Running
     THEN Become(c, Idle) /\ UNCHANGED <<controller, proc, inbox>>
     ELSE \E p \in Processes :
            /\ proc[p] = "unborn"
            /\ proc' = [proc EXCEPT ![p] = "up"]
            /\ child' = p /\ ipc' = p
            /\ Send(c, p, "start", None)
  /\ UNCHANGED <<stored, signalled, active, log, issued, faults>>

(* scanNow decides on the capture it read before its awaits.               *)
RequestCheckpoint(c) ==
  /\ commands[c].step = "ready" /\ commands[c].kind = "scan"
  /\ IF commands[c].capture # None /\ Running /\ ipc # None
     THEN Send(c, ipc, "checkpoint", None)
     ELSE Become(c, Idle) /\ UNCHANGED inbox
  /\ UNCHANGED <<stored, controller, companion, issued, faults>>

(* stopCapture loads the capture again and ends its session if it can.     *)
RequestStop(c) ==
  /\ commands[c].step = "ready" /\ commands[c].kind = "stop"
  /\ IF stored.capture # None /\ Running /\ ipc # None
     THEN /\ Send(c, ipc, "stop", stored.capture)
          /\ UNCHANGED <<stored, controller, signalled>>
     ELSE StopCompanion(c) /\ UNCHANGED inbox
  /\ UNCHANGED <<proc, active, log, issued, faults>>

(* disconnect, once confirmed.                                             *)
Disconnect(c) ==
  /\ commands[c].step = "ready" /\ commands[c].kind = "disconnect"
  /\ StopCompanion(c)
  /\ UNCHANGED <<proc, active, log, inbox, issued, faults>>

-----------------------------------------------------------------------------
Accepts(r) ==
  CASE r.request = "start"      -> TRUE
    [] r.request = "checkpoint" -> r.process \in active
    [] r.request = "stop"       -> r.process \in active /\ r.session = r.process

NeverInactive(r) ==
  IF r.request = "start" THEN active \union {r.process} ELSE active

ActiveAfter(r) ==
  CASE r.request = "start"      -> active \union {r.process}
    [] r.request = "checkpoint" -> active
    [] r.request = "stop"       -> active \ {r.process}

EvidenceLost(r) == <<>>

(* A repeated start is answered and leaves no further evidence.            *)
Evidence(r) ==
  IF r.request = "start" /\ r.process \in active THEN <<>>
  ELSE <<[action |-> r.request, session |-> r.process]>>

(* The reply goes to the command that still waits for this request; the    *)
(* accept loop ends when a signal came in meanwhile.                       *)
Reply(r, reply) ==
  /\ inbox' = inbox \ {r}
  /\ commands' = [c \in Commands |->
       IF commands[c].step = "await" /\ commands[c].id = r.id
       THEN [commands[c] EXCEPT !.step = "replied", !.reply = reply]
       ELSE commands[c]]
  /\ proc' = IF r.process \in signalled
             THEN [proc EXCEPT ![r.process] = "dead"] ELSE proc
  /\ UNCHANGED <<stored, controller, signalled, issued, faults>>

Checkpoint(r) ==
  IF r.request = "start" THEN None
  ELSE [at |-> Len(log) + 1, session |-> r.process]

(* RuntimeIpcHandler: the evidence is in the spool before the reply.       *)
Serve(r) ==
  /\ proc[r.process] = "up"
  /\ Accepts(r)
  /\ log' = log \o Evidence(r)
  /\ active' = ActiveAfter(r)
  /\ Reply(r, [ok |-> TRUE, checkpoint |-> Checkpoint(r)])

(* invalid_state or forbidden, or the spool refused the event.             *)
Refuse(r) ==
  /\ proc[r.process] = "up"
  /\ Reply(r, NoReply)
  /\ UNCHANGED <<active, log>>

-----------------------------------------------------------------------------
FailQuietly(c) == Become(c, Idle) /\ UNCHANGED <<stored, controller, signalled>>

Fail(c) ==
  IF commands[c].kind = "scan"
  THEN Become(c, Idle) /\ UNCHANGED <<stored, controller, signalled>>
  ELSE StopCompanion(c)

(* A reply arrives and the command saves what it says.                     *)
Receive(c) ==
  LET reply == commands[c].reply
  IN /\ commands[c].step = "replied"
     /\ IF ~reply.ok THEN Fail(c)
        ELSE /\ IF commands[c].kind = "start"
                THEN /\ stored' = [stored EXCEPT !.capture = commands[c].target]
                     /\ Become(c, Idle)
                ELSE /\ stored' = [stored EXCEPT !.checkpoint = reply.checkpoint]
                     /\ Become(c, [commands[c] EXCEPT !.step = "saved"])
             /\ UNCHANGED <<controller, signalled>>
     /\ UNCHANGED <<proc, active, log, inbox, issued, faults>>

(* The request timed out, or no attempt got through; it may be served yet. *)
RequestFails(c) ==
  /\ commands[c].step \in {"await", "replied"}
  /\ inbox' \in {inbox, {r \in inbox : r.id # commands[c].id}}
  /\ Fail(c)
  /\ UNCHANGED <<proc, active, log, issued, faults>>

(* The checkpoint is saved: scan writes back the capture it read first,    *)
(* stop ends the Companion.                                                *)
CheckpointSaved(c) ==
  /\ commands[c].step = "saved"
  /\ IF commands[c].kind = "scan"
     THEN /\ stored' = [stored EXCEPT !.capture = commands[c].capture]
          /\ Become(c, Idle)
          /\ UNCHANGED <<controller, signalled>>
     ELSE StopCompanion(c)
  /\ UNCHANGED <<proc, active, log, inbox, issued, faults>>

-----------------------------------------------------------------------------
(* A signal ends a Companion that has no handler for it yet.               *)
Terminate(p) ==
  /\ proc[p] = "up" /\ p \in signalled
  /\ proc' = [proc EXCEPT ![p] = "dead"]
  /\ UNCHANGED <<stored, controller, signalled, active, log, inbox, commands,
                 issued, faults>>

(* A Companion fails to start, exits with an error or is killed.           *)
Crash(p) ==
  /\ proc[p] = "up"
  /\ faults.crash < MaxCrashes
  /\ proc' = [proc EXCEPT ![p] = "dead"]
  /\ faults' = [faults EXCEPT !.crash = @ + 1]
  /\ UNCHANGED <<stored, controller, signalled, active, log, inbox, commands,
                 issued>>

(* The exit event: start's listener, then every stop() that waits.         *)
ExitEvent(p) ==
  /\ proc[p] = "dead"
  /\ proc' = [proc EXCEPT ![p] = "gone"]
  /\ child' = ChildWithout(p)
  /\ IF Waiting(p) # {}
     THEN StopReturns(Waiting(p))
     ELSE /\ ipc' = IF child = p THEN None ELSE ipc
          /\ UNCHANGED <<stored, commands>>
  /\ UNCHANGED <<signalled, active, log, inbox, issued, faults>>

KillNever(c) == FALSE

(* The shutdown timeout passes: SIGKILL.                                   *)
Kill(c) ==
  LET p == commands[c].target
  IN /\ commands[c].step = "exiting"
     /\ proc' = IF proc[p] = "up" THEN [proc EXCEPT ![p] = "dead"] ELSE proc
     /\ Become(c, [commands[c] EXCEPT !.step = "killing"])
     /\ UNCHANGED <<stored, controller, signalled, active, log, inbox, issued,
                    faults>>

(* No exit event 250 ms after SIGKILL: stop() returns all the same.        *)
KillWaitEnds(c) ==
  /\ commands[c].step = "killing"
  /\ child' = ChildWithout(commands[c].target)
  /\ StopReturns({c})
  /\ UNCHANGED <<companion, inbox, issued, faults>>

(* disconnect: the secret is deleted, then the state is emptied.           *)
Clear(c) ==
  /\ commands[c].step = "clear"
  /\ stored' = EmptyState
  /\ Become(c, Idle)
  /\ UNCHANGED <<controller, companion, inbox, issued, faults>>

-----------------------------------------------------------------------------
(* connectWorkspace ends in saveEnrollment.                                *)
SaveEnrollment ==
  /\ "connect" \in Kinds /\ issued < MaxIssued
  /\ issued' = issued + 1
  /\ stored' = [EmptyState EXCEPT !.connected = TRUE]
  /\ UNCHANGED <<controller, companion, inbox, commands, faults>>

(* linkProject ends in saveProject, which keeps no capture.                *)
SaveProject ==
  /\ "link" \in Kinds /\ issued < MaxIssued
  /\ stored.connected
  /\ issued' = issued + 1
  /\ stored' = [stored EXCEPT !.linked = TRUE, !.capture = None]
  /\ UNCHANGED <<controller, companion, inbox, commands, faults>>

(* The extension host ends and the extension is activated again: a saved   *)
(* capture is dropped.  The Companion outlives its parent unless           *)
(* deactivate came as far as sending the signal.                           *)
HostRestart ==
  /\ faults.restart < MaxRestarts
  /\ faults' = [faults EXCEPT !.restart = @ + 1]
  /\ child' = None /\ ipc' = None
  /\ commands' = [c \in Commands |-> Idle]
  /\ stored' = [stored EXCEPT !.capture = None]
  /\ signalled' \in {signalled, signalled \union ({child} \ {None})}
  /\ UNCHANGED <<proc, active, log, inbox, issued>>

(* What a command does once it waits for no user.                          *)
Continue(c) ==
  \/ Receive(c) \/ RequestFails(c) \/ CheckpointSaved(c)
  \/ Kill(c) \/ KillWaitEnds(c) \/ Clear(c)

CommandSteps(c) ==
  \/ \E kind \in Kinds \ {"connect", "link"} : Issue(c, kind)
  \/ Dismiss(c) \/ Launch(c)
  \/ RequestCheckpoint(c) \/ RequestStop(c) \/ Disconnect(c)
  \/ Continue(c)

Next ==
  \/ \E c \in Commands : CommandSteps(c)
  \/ \E r \in inbox : Serve(r) \/ Refuse(r)
  \/ \E p \in Processes : Terminate(p) \/ Crash(p) \/ ExitEvent(p)
  \/ SaveEnrollment \/ SaveProject \/ HostRestart

Spec == Init /\ [][Next]_vars

(* Timers fire and promises settle; nothing is assumed of the Companion or *)
(* of the user.                                                            *)
Fairness == \A c \in Commands : WF_vars(Continue(c))

FairSpec == Spec /\ Fairness

-----------------------------------------------------------------------------
Checkpoints == [at : 1..MaxIssued, session : Processes]

(* What the memento keeps, an event of the Companion's evidence, a request *)
(* on its way to it, and a command of the user.                            *)
PersistentExtensionState ==
  [connected : BOOLEAN, linked : BOOLEAN, capture : Processes \union {None},
   checkpoint : Checkpoints \union {None}]

Event == [action : {"start", "checkpoint", "stop"}, session : Processes]

Request == [id : 1..MaxIssued, process : Processes,
            request : {"start", "checkpoint", "stop"}, session : Processes \union {None}]

Command ==
  [kind : Kinds \union {"none"},
   step : {"idle", "ready", "await", "replied", "saved", "exiting", "killing", "clear"},
   id : 0..MaxIssued, target : Processes \union {None},
   capture : Processes \union {None},
   reply : [ok : BOOLEAN, checkpoint : Checkpoints \union {None}]]

(* Every variable has its type.                                            *)
TypeOK ==
  /\ stored \in PersistentExtensionState
  /\ child \in Processes \union {None} /\ ipc \in {None, child}
  /\ proc \in [Processes -> {"unborn", "up", "dead", "gone"}]
  /\ signalled \subseteq Processes /\ active \subseteq Processes
  /\ {log[i] : i \in DOMAIN log} \subseteq Event
  /\ inbox \subseteq Request
  /\ commands \in [Commands -> Command]
  /\ issued \in 0..MaxIssued
  /\ faults \in [crash : 0..MaxCrashes, restart : 0..MaxRestarts]

(* The evidence of a session starts with its one start, and nothing        *)
(* follows its stop, whatever was retried, timed out or came late.         *)
SessionsWellFormed ==
  \A i \in DOMAIN log :
    LET before == {log[j].action : j \in {k \in 1..(i - 1) :
                                          log[k].session = log[i].session}}
    IN /\ "stop" \notin before
       /\ log[i].action = "start" <=> "start" \notin before

(* A checkpoint that the extension shows as the last one is evidence of    *)
(* that session in the spool, also after crashes and restarts.             *)
CheckpointIsEvidence ==
  stored.checkpoint # None =>
    /\ stored.checkpoint.at \in DOMAIN log
    /\ log[stored.checkpoint.at].session = stored.checkpoint.session
    /\ log[stored.checkpoint.at].action # "start"

(* While the host lives no Companion is lost sight of: one that runs is    *)
(* the controller's child or has been told to end.                         *)
NoOrphan ==
  faults.restart = 0 =>
    \A p \in Processes : proc[p] = "up" => p = child \/ p \in signalled

AllIdle == \A c \in Commands : commands[c] = Idle

Observing(p) == proc[p] = "up" /\ p \in active /\ p \notin signalled

(* Between commands the saved capture is exactly the session that the      *)
(* controller's Companion observes and can be asked about: true of         *)
(* commands that never overlap, also across restarts of the host.          *)
ClaimIsTrue ==
  AllIdle =>
    \A p \in Processes :
      stored.capture = p <=> Observing(p) /\ child = p /\ ipc = p

(* A Companion told to end does end, though its accept loop may never see  *)
(* the signal, unless the host that has to kill it ends first.             *)
Ending(p) == p \in signalled /\ proc[p] = "up" /\ faults.restart = 0

SignalledEnds == \A p \in Processes : Ending(p) ~> ~Ending(p)

(* After saveProject the message says that "Observation remains paused     *)
(* until you start it".                                                    *)
LinkLeavesPaused ==
  [][SaveProject /\ AllIdle => \A p \in Processes : ~Observing(p)]_vars
=============================================================================
