-------------------------------- MODULE Ipc --------------------------------
(***************************************************************************)
(* The local connection between the extension and the Companion: the       *)
(* client (apps/extension/src/companion/ipc.ts), the loop that retries a   *)
(* request on fresh connections (companion/controller.ts #request) and the *)
(* server (crates/companion/src/ipc.rs and the loop of main.rs).           *)
(*                                                                         *)
(* The Companion serves one connection at a time and one request on each.  *)
(* Both peers prove that they hold the secret of the launch with a MAC     *)
(* over their role and both nonces.  CaptureSession stands on this module: *)
(* there a request is one step that is served once or fails.               *)
(*                                                                         *)
(* Abstractions.  A MAC is the triple of what it is made of.  Nonces are   *)
(* fresh for every connection, so a connection is named by them.  A frame  *)
(* is its kind and what the peer checks of it; frames arrive whole.  The   *)
(* name of the socket is derived for one launch alone.  The Windows pipe   *)
(* is not modelled: it has no read timeout.                                *)
(***************************************************************************)
EXTENDS Integers, Sequences, FiniteSets

CONSTANTS
  Callers,      \* calls of CompanionController.#request
  Informed,     \* those that hold the secret the Companion was given
  PathFits,     \* the path is within the limit of 100 bytes
  MaxAttempts,  \* connections one call tries (20 in the code)
  None

IpcAssumption ==
  /\ Informed \subseteq Callers
  /\ PathFits \in BOOLEAN
  /\ MaxAttempts \in Nat \ {0}
  /\ None \notin Callers \X (1..MaxAttempts)

VARIABLES
  companion,  \* launched, serving, stopping (told to) or ended
  socket,     \* the socket file: absent, open (not private yet), private
  backlog,    \* connections made and not accepted
  served,     \* the connection serve_once is on, and what it waits for
  calls,      \* where each call is
  wire,       \* frames under way and the ends that are open, by connection
  handled     \* times the handler ran for a call

server == <<companion, socket, backlog, served>>
vars == <<server, calls, wire, handled>>

-----------------------------------------------------------------------------
Connections == Callers \X (1..MaxAttempts)

Connection(c) == <<c, calls[c].attempt>>

Secret(c) == IF c \in Informed THEN "launch" ELSE "other"

Mac(secret, role, connection) == <<secret, role, connection>>

(* close: the caller's end, whatever is still under way.                   *)
Close(c, now) == [now EXCEPT ![Connection(c)].ends = @ \ {"client"}]

NoConnection == [of |-> None, waits |-> "accept"]

Silent == [up |-> <<>>, down |-> <<>>, ends |-> {}]

Frame(kind, mac) == [kind |-> kind, mac |-> mac]

Init ==
  /\ companion = "launched" /\ socket = "absent"
  /\ backlog = <<>> /\ served = NoConnection
  /\ calls = [c \in Callers |-> [attempt |-> 1, step |-> "connect"]]
  /\ wire = [n \in Connections |-> Silent]
  /\ handled = [c \in Callers |-> 0]

-----------------------------------------------------------------------------
(* The Companion binds its socket, whose directory is private and whose    *)
(* path must be free, and only then makes the file private.  A path over   *)
(* the limit ends it; the extension derives another path in that case,     *)
(* where nobody listens.                                                   *)
Bind ==
  /\ companion = "launched" /\ socket = "absent"
  /\ IF PathFits
       THEN companion' = companion /\ socket' = "open"
       ELSE companion' = "ended" /\ UNCHANGED socket
  /\ UNCHANGED <<backlog, served, calls, wire, handled>>

SetPermissions ==
  /\ companion = "launched" /\ socket = "open"
  /\ companion' = "serving" /\ socket' = "private"
  /\ UNCHANGED <<backlog, served, calls, wire, handled>>

(* The Companion is told to end; its loop looks after a connection.        *)
Signal ==
  /\ companion = "serving" /\ companion' = "stopping"
  /\ UNCHANGED <<socket, backlog, served, calls, wire, handled>>

(* Every connection that is not answered any more is closed by the system. *)
HangUp(from) == [n \in Connections |->
                   [from[n] EXCEPT !.ends = @ \ {"server"}]]

(* The Companion ends on its own and leaves its socket file behind.        *)
Crash ==
  /\ companion \in {"launched", "serving", "stopping"}
  /\ companion' = "ended"
  /\ backlog' = <<>> /\ served' = NoConnection
  /\ wire' = HangUp(wire)
  /\ UNCHANGED <<socket, calls, handled>>

(* serve_once returns: the connection is dropped and, if the Companion was *)
(* told to end, the listener and its socket file with it.                  *)
Drop(now) ==
  /\ served' = NoConnection
  /\ IF companion = "stopping"
       THEN /\ companion' = "ended" /\ socket' = "absent" /\ backlog' = <<>>
            /\ wire' = HangUp(now)
       ELSE /\ UNCHANGED <<companion, socket, backlog>>
            /\ wire' = [now EXCEPT ![served.of].ends = @ \ {"server"}]
  /\ UNCHANGED calls

-----------------------------------------------------------------------------
(* An attempt is over.  The caller's end is closed in every case.          *)
Failed(c, error) ==
  LET call == calls[c] IN
  /\ wire' = Close(c, wire)
  /\ calls' = [calls EXCEPT ![c] =
       IF error \in {"closed", "peer_validation_failed"}
            /\ call.attempt < MaxAttempts
         THEN [attempt |-> call.attempt + 1, step |-> "connect"]
         ELSE [call EXCEPT !.step = error]]

(* deriveCompanionEndpoint derives the path the Companion bound, unless it *)
(* is over the limit.                                                      *)
SamePath == PathFits

(* validateLocalEndpoint: a socket, private, where the client looks for it.*)
EndpointIsValid == SamePath /\ socket = "private"

(* The endpoint is validated, connected to and challenged.                 *)
Connect(c) ==
  /\ calls[c].step = "connect"
  /\ UNCHANGED <<companion, socket, served, handled>>
  /\ \/ /\ ~EndpointIsValid
        /\ UNCHANGED backlog
        /\ Failed(c, "peer_validation_failed")
     \/ /\ EndpointIsValid /\ companion = "ended"
        /\ UNCHANGED backlog
        /\ Failed(c, "closed")
     \/ /\ EndpointIsValid /\ companion \in {"serving", "stopping"}
        /\ backlog' = Append(backlog, Connection(c))
        /\ calls' = [calls EXCEPT ![c].step = "challenge"]
        /\ wire' = [wire EXCEPT ![Connection(c)] =
             [Silent EXCEPT !.up = <<Frame("challenge", None)>>,
                            !.ends = {"client", "server"}]]

(* A frame of the server answers the one exchange that is pending.         *)
AcceptResponse(c) ==
  LET n == Connection(c)
      frame == Head(wire[n].down)
  IN /\ calls[c].step \in {"challenge", "proof", "request"}
     /\ wire[n].down # <<>>
     /\ UNCHANGED <<server, handled>>
     /\ LET expected == Mac(Secret(c), "server", n)
            read == [wire EXCEPT ![n].down = Tail(@)]
        IN CASE calls[c].step = "challenge" /\ frame.mac = expected ->
                  /\ wire' = [read EXCEPT ![n].up = Append(@,
                                Frame("proof", Mac(Secret(c), "client", n)))]
                  /\ calls' = [calls EXCEPT ![c].step = "proof"]
             [] calls[c].step = "challenge" /\ frame.mac # expected ->
                  Failed(c, "authentication_failed")
             [] calls[c].step = "proof" ->
                  /\ wire' = [read EXCEPT ![n].up =
                                Append(@, Frame("request", None))]
                  /\ calls' = [calls EXCEPT ![c].step = "request"]
             [] calls[c].step = "request" ->
                  /\ wire' = Close(c, read)
                  /\ calls' = [calls EXCEPT ![c].step = frame.kind]

(* The server hung up and everything it had sent was read.                 *)
ConnectionCloses(c) ==
  /\ calls[c].step \in {"challenge", "proof", "request"}
  /\ wire[Connection(c)].down = <<>>
  /\ "server" \notin wire[Connection(c)].ends
  /\ Failed(c, "closed")
  /\ UNCHANGED <<server, handled>>

(* The timer of an exchange fires.                                         *)
TimeOut(c) ==
  /\ calls[c].step \in {"challenge", "proof", "request"}
  /\ Failed(c, "timeout")
  /\ UNCHANGED <<server, handled>>

-----------------------------------------------------------------------------
Accept ==
  /\ companion \in {"serving", "stopping"}
  /\ served = NoConnection /\ backlog # <<>>
  /\ served' = [of |-> Head(backlog), waits |-> "challenge"]
  /\ backlog' = Tail(backlog)
  /\ UNCHANGED <<companion, socket, calls, wire, handled>>

Incoming == served.of # None /\ wire[served.of].up # <<>>

(* The frame that is read from the connection, in order.                   *)
Take == [wire EXCEPT ![served.of].up = Tail(@)]

(* A frame is written if the client has not closed its end; the connection *)
(* goes on or, if it has, is dropped.                                      *)
Reply(frame, next) ==
  IF "client" \in wire[served.of].ends
    THEN /\ wire' = [Take EXCEPT ![served.of].down = Append(@, frame)]
         /\ served' = [served EXCEPT !.waits = next]
         /\ UNCHANGED <<companion, socket, backlog, calls>>
    ELSE Drop(Take)

ReadChallenge ==
  /\ Incoming /\ served.waits = "challenge"
  /\ Reply(Frame("response", Mac("launch", "server", served.of)), "proof")
  /\ UNCHANGED handled

Proved(frame) == frame.mac = Mac("launch", "client", served.of)

ReadProof ==
  /\ Incoming /\ served.waits = "proof"
  /\ IF Proved(Head(wire[served.of].up))
       THEN Reply(Frame("ack", None), "request")
       ELSE Drop(Take)
  /\ UNCHANGED handled

(* A request that is answered unrun once the Companion is told to end.     *)
DispatchUnlessStopping ==
  /\ Incoming /\ served.waits = "request"
  /\ handled' = IF companion = "stopping" THEN handled
                ELSE [handled EXCEPT ![served.of[1]] = @ + 1]
  /\ wire' = Take
  /\ served' = [served EXCEPT !.waits = "answer"]
  /\ UNCHANGED <<companion, socket, backlog, calls>>

(* The handler runs whether or not the client still waits.                 *)
Dispatch ==
  /\ Incoming /\ served.waits = "request"
  /\ handled' = [handled EXCEPT ![served.of[1]] = @ + 1]
  /\ wire' = Take
  /\ served' = [served EXCEPT !.waits = "answer"]
  /\ UNCHANGED <<companion, socket, backlog, calls>>

(* The answer is written, and one request is the limit of a connection.    *)
Answer ==
  /\ served.of # None /\ served.waits = "answer"
  /\ \E kind \in {"answered", "remote_error"} :
       Drop(IF "client" \in wire[served.of].ends
              THEN [wire EXCEPT ![served.of].down =
                                    Append(@, Frame(kind, None))]
              ELSE wire)
  /\ UNCHANGED handled

(* The client hung up, or the five seconds of a read pass.                 *)
ReadFails ==
  /\ served.of # None /\ ~Incoming
  /\ served.waits \in {"challenge", "proof", "request"}
  /\ Drop(wire)
  /\ UNCHANGED handled

Next ==
  \/ Bind \/ SetPermissions \/ Signal \/ Crash
  \/ Accept \/ ReadChallenge \/ ReadProof \/ Dispatch \/ Answer \/ ReadFails
  \/ \E c \in Callers : Connect(c) \/ AcceptResponse(c)
                          \/ ConnectionCloses(c) \/ TimeOut(c)

Spec == Init /\ [][Next]_vars

-----------------------------------------------------------------------------
Errors == {"closed", "peer_validation_failed", "authentication_failed",
           "timeout"}

(* A request on its way to an outcome.                                     *)
PendingRequest ==
  [attempt : 1..MaxAttempts,
   step : {"connect", "challenge", "proof", "request", "answered", "remote_error"} \union Errors]

(* Every variable has its type, and nothing is left under way at an end    *)
(* that is closed but what was sent before.                                *)
TypeOK ==
  /\ companion \in {"launched", "serving", "stopping", "ended"}
  /\ socket \in {"absent", "open", "private"}
  /\ backlog \in Seq(Connections)
  /\ served.of \in Connections \union {None}
  /\ served.of = None <=> served.waits = "accept"
  /\ calls \in [Callers -> PendingRequest]
  /\ handled \in [Callers -> Nat]

(* What the outcome of a call says of the request.  However often it was   *)
(* tried, the handler ran at most once for it, and only for a caller that  *)
(* holds the secret.  An answer, good or bad, means that it ran; a call    *)
(* that failed otherwise than by a timeout means that it did not, unless   *)
(* the Companion died on it (controller.ts #request tries again exactly    *)
(* where that is so; ipc.rs reads, runs and answers in this order).        *)
OutcomesTellTruth ==
  \A c \in Callers :
    /\ handled[c] <= 1
    /\ handled[c] = 1 => c \in Informed
    /\ calls[c].step \in {"answered", "remote_error"} => handled[c] = 1
    /\ calls[c].step \in {"peer_validation_failed", "authentication_failed"} =>
         handled[c] = 0 \/ companion = "ended"
    /\ calls[c].step = "closed" /\ handled[c] = 1 => companion = "ended"
=============================================================================
