---------------------------- MODULE ControlPlane ----------------------------
(***************************************************************************)
(* Which process watches the repositories.  The daemon's Unix socket is    *)
(* its lock as well as its door (internal/rpc/server.go, runAgent of       *)
(* cmd/sexton/agent.go): a daemon that starts looks for a socket file,     *)
(* dials it, and takes it over when nobody answers.  Several daemons are   *)
(* started, stopped and killed around one path, with callers at the door.  *)
(*                                                                         *)
(* One system call on the path is one action.                              *)
(***************************************************************************)
EXTENDS Naturals, FiniteSets

CONSTANTS
    Daemons,    \* the processes ever started; each may be started again
    Callers     \* sexton status, sync, snooze and resume

VARIABLES
    file,       \* what stands at the socket path
    pc,         \* where each daemon is in runAgent
    call,       \* the daemon that has each caller's request, or NoDaemon
    overlap     \* of the daemons that still run, one began to start or stop
                \* while another was doing so (history)

vars == <<file, pc, call, overlap>>

----------------------------------------------------------------------------
(* Types *)

Absent == "absent"

Leftover == "leftover"    \* bound by a process that died

NoDaemon == "no daemon"

ASSUME NamesAssumption == Daemons \intersect {Absent, Leftover, NoDaemon} = {}

\* rpc.Server.Start: os.Stat, net.Dial, os.Remove, and the two halves of
\* net.Listen.
Starting == {"stat", "dial", "remove", "bind", "listen"}

\* From listen(2) to the close of the listener: buildAlerter, da.Run and the
\* deferred cleanup of the Mattermost clients.
Serving == {"build", "run", "cleanup", "close"}

\* rpc.Server.Stop: waiting for calls in GracefulStop, and os.Remove.
Stopping == {"drain", "unlink"}

\* Start has returned an error, and runAgent returns it: for what it found at
\* the path, or because the file system refuses the path itself.
Failing == {"failed", "unusable"}

Phases == {"off"} \union Failing \union Starting \union Serving \union Stopping

TypeOK ==
    /\ file \in {Absent, Leftover} \union Daemons
    /\ pc \in [Daemons -> Phases]
    /\ call \in [Callers -> {NoDaemon} \union Daemons]
    /\ overlap \in BOOLEAN

----------------------------------------------------------------------------
(* Helpers *)

\* Somebody answers at the path.
Answered == file \in Daemons /\ pc[file] \in Serving

\* The phases in which a daemon does nothing to the path.
Settled == {"off", "build", "run"} \union Failing

\* What is remembered of a step of daemon d.
Remember(d) ==
    overlap' =
        /\ \E e \in Daemons : pc'[e] # "off"
        /\ \/ overlap
           \/ /\ pc[d] \in Settled /\ pc'[d] \notin Settled
              /\ \E e \in Daemons \ {d} : pc[e] \notin Settled

Go(d, from, to) ==
    /\ pc[d] = from
    /\ pc' = [pc EXCEPT ![d] = to]
    /\ Remember(d)

----------------------------------------------------------------------------
(* rpc.Server.Start *)

\* runAgent has its configuration and its container, and starts the server.
Launch(d) ==
    /\ Go(d, "off", "stat")
    /\ UNCHANGED <<file, call>>

Stat(d) ==
    /\ Go(d, "stat", IF file = Absent THEN "bind" ELSE "dial")
    /\ UNCHANGED <<file, call>>

\* Mutant: Stop is deferred before the start is known to have succeeded.
DialAnsweredThenStops(d) ==
    /\ Answered
    /\ file' = Absent
    /\ Go(d, "dial", "failed")
    /\ UNCHANGED call

\* The dial succeeds: another daemon is running, and this one gives up.
DialAnswered(d) ==
    /\ Answered
    /\ Go(d, "dial", "failed")
    /\ UNCHANGED <<file, call>>

\* The dial fails: nobody listens there, or the file has gone.
DialRefused(d) ==
    /\ ~Answered
    /\ Go(d, "dial", "remove")
    /\ UNCHANGED <<file, call>>

\* Mutant: the stale socket is noticed but left for the listener to replace.
RemoveNothing(d) ==
    /\ file # Absent
    /\ Go(d, "remove", "bind")
    /\ UNCHANGED <<file, call>>

\* os.Remove takes whatever stands at the path by now.
Remove(d) ==
    /\ file # Absent
    /\ file' = Absent
    /\ Go(d, "remove", "bind")
    /\ UNCHANGED call

\* os.Remove finds nothing: an error, and the start fails.
RemoveFails(d) ==
    /\ file = Absent
    /\ Go(d, "remove", "failed")
    /\ UNCHANGED <<file, call>>

\* The directory is there or is made, and bind(2) creates the socket file.
Bind(d) ==
    /\ file = Absent
    /\ file' = d
    /\ Go(d, "bind", "listen")
    /\ UNCHANGED call

\* bind(2) does not replace a file.
BindFails(d) ==
    /\ file # Absent
    /\ Go(d, "bind", "failed")
    /\ UNCHANGED <<file, call>>

\* The path cannot be read, removed, made a directory for or bound, whatever
\* stands there: os.Stat, os.Remove, os.MkdirAll and net.Listen return such
\* errors, and Start returns them.
PathUnusable(d) ==
    /\ pc[d] \in {"stat", "remove", "bind"}
    /\ Go(d, pc[d], "unusable")
    /\ UNCHANGED <<file, call>>

\* runAgent returns the error; nothing is deferred yet.
GiveUp(d) ==
    /\ \E from \in Failing : Go(d, from, "off")
    /\ UNCHANGED <<file, call>>

\* listen(2), and the goroutine that serves.
Listen(d) ==
    /\ Go(d, "listen", "build")
    /\ UNCHANGED <<file, call>>

----------------------------------------------------------------------------
(* runAgent *)

\* buildAlerter succeeds, and da.Run starts the agents.
Built(d) ==
    /\ Go(d, "build", "run")
    /\ UNCHANGED <<file, call>>

\* buildAlerter fails: what it started it stopped, and Stop is deferred.
BuildFails(d) ==
    /\ Go(d, "build", "close")
    /\ UNCHANGED <<file, call>>

\* A signal: da.Run has stopped every agent.
Signal(d) ==
    /\ Go(d, "run", "cleanup")
    /\ UNCHANGED <<file, call>>

\* The deferred mmCleanup, before the deferred Stop.
CleanedUp(d) ==
    /\ Go(d, "cleanup", "close")
    /\ UNCHANGED <<file, call>>

----------------------------------------------------------------------------
(* rpc.Server.Stop *)

\* Mutant: the calls are waited for before the listener is closed.
CloseOnceIdle(d) ==
    /\ \A c \in Callers : call[c] # d
    /\ Go(d, "close", "drain")
    /\ file' = Absent
    /\ UNCHANGED call

\* GracefulStop closes the listener, and Go's listener unlinks its path: by
\* name, whoever's socket stands there.
Close(d) ==
    /\ Go(d, "close", "drain")
    /\ file' = Absent
    /\ UNCHANGED call

\* Mutant: Stop instead of GracefulStop.
DrainedAtOnce(d) ==
    /\ Go(d, "drain", "unlink")
    /\ UNCHANGED <<file, call>>

\* GracefulStop returns once every call it has accepted is answered.
Drained(d) ==
    /\ \A c \in Callers : call[c] # d
    /\ Go(d, "drain", "unlink")
    /\ UNCHANGED <<file, call>>

\* os.Remove, by name again; its error is ignored.
Unlink(d) ==
    /\ Go(d, "unlink", "off")
    /\ file' = Absent
    /\ UNCHANGED call

----------------------------------------------------------------------------
(* The callers, and death *)

\* Mutant: any socket file is taken for a running daemon.
DialUnasked(c) ==
    /\ call[c] = NoDaemon /\ file # Absent
    /\ call' = [call EXCEPT ![c] = file]
    /\ UNCHANGED <<file, pc, overlap>>

\* A caller dials the path.
Dial(c) ==
    /\ call[c] = NoDaemon /\ Answered
    /\ call' = [call EXCEPT ![c] = file]
    /\ UNCHANGED <<file, pc, overlap>>

\* The handler returns.
Answer(c) ==
    /\ call[c] # NoDaemon
    /\ call' = [call EXCEPT ![c] = NoDaemon]
    /\ UNCHANGED <<file, pc, overlap>>

\* Killed, or interrupted before da.Run catches signals: nothing deferred
\* runs, and the socket file stays.
Crash(d) ==
    /\ pc[d] # "off"
    /\ pc' = [pc EXCEPT ![d] = "off"]
    /\ Remember(d)
    /\ file' = IF file = d THEN Leftover ELSE file
    /\ call' = [c \in Callers |-> IF call[c] = d THEN NoDaemon ELSE call[c]]

----------------------------------------------------------------------------
(* The specification *)

Init ==
    /\ file \in {Absent, Leftover}
    /\ pc = [d \in Daemons |-> "off"]
    /\ call = [c \in Callers |-> NoDaemon]
    /\ overlap = FALSE

StartStep(d) ==
    \/ Stat(d) \/ DialAnswered(d) \/ DialRefused(d)
    \/ Remove(d) \/ RemoveFails(d)
    \/ Bind(d) \/ BindFails(d) \/ Listen(d)
    \/ PathUnusable(d) \/ GiveUp(d)

StopStep(d) == CleanedUp(d) \/ Close(d) \/ Drained(d) \/ Unlink(d)

BuildStep(d) == Built(d) \/ BuildFails(d)

DaemonStep(d) ==
    \/ Launch(d)
    \/ StartStep(d)
    \/ BuildStep(d)
    \/ Signal(d)
    \/ StopStep(d)
    \/ Crash(d)

Next ==
    \/ \E d \in Daemons : DaemonStep(d)
    \/ \E c \in Callers : Dial(c) \/ Answer(c)

Spec == Init /\ [][Next]_vars

\* A process runs, buildAlerter ends (every request it makes has a timeout),
\* and a handler returns: it takes a mutex and sends alerts under a timeout.
\* Nobody has to start, stop or call a daemon.
Fairness ==
    /\ \A d \in Daemons :
          /\ WF_vars(StartStep(d))
          /\ WF_vars(BuildStep(d))
          /\ WF_vars(StopStep(d))
    /\ \A c \in Callers : WF_vars(Answer(c))

FairSpec == Spec /\ Fairness

----------------------------------------------------------------------------
(* Properties *)

\* At most one daemon serves, and so at most one watches the repositories: no
\* crash at any point of a start or a stop lets two of them past the stale
\* check.  Only starts and stops that overlap can, and once every daemon they
\* involve has ended the rule holds again (server.go:67-88).
OneDaemonServes ==
    ~overlap =>
        \A d, e \in Daemons : pc[d] \in Serving /\ pc[e] \in Serving => d = e

\* A daemon that serves can be reached, unless starts and stops overlapped:
\* nobody has taken its socket file away (server.go:57-64, 86-88).
ServingIsReachable ==
    ~overlap => \A d \in Daemons : pc[d] \in Serving => file = d

\* What a start finds at the path keeps it out only where another daemon
\* answers: what any crash, failed start or earlier overlap left behind never
\* does (server.go:67-88).  A path that the file system refuses is another
\* matter (PathUnusable).
StartFailsOnlyBesideAnother ==
    [][\A d \in Daemons :
          ~overlap /\ pc[d] \in Starting /\ pc'[d] = "failed"
            => \E e \in Daemons \ {d} : pc[e] \in Serving]_vars

\* Only an answer or the death of its daemon ends a call: a stop waits for the
\* calls it accepted, also those that came while it was under way
\* (server.go:58-61).
NoCallCutOff ==
    \A c \in Callers :
        call[c] # NoDaemon => pc[call[c]] \in Serving \union {"drain"}

\* A stop ends, and a daemon that failed to build ends too, although callers
\* may go on calling until the socket is closed (server.go:57-64).
StopEnds ==
    \A d \in Daemons : pc[d] \in Stopping \union {"close"} ~> pc[d] = "off"

\* What docs/current/control-plane.md says of the stale check: a file that
\* nobody answers at is a leftover from an unclean exit.  Only such a file is
\* removed by a start.
OnlyLeftoversRemoved ==
    [][\A d \in Daemons : Remove(d) => file = Leftover]_vars
=============================================================================
