----------------------------- MODULE Mattermost -----------------------------
(***************************************************************************)
(* The Mattermost clients of one sexton process: buildAlerter starts one   *)
(* for each bot, each has a goroutine that listens on a websocket and      *)
(* dials again when it breaks, and all are stopped, one after the other,   *)
(* when a later entry cannot be used or the process shuts down.            *)
(*                                                                         *)
(* A client is named by the alert entry that made it start, a bot by the   *)
(* identity (URL and auth source) of its entries.  Modelled: servers that  *)
(* refuse, websockets that break with messages unread, a dial or a command *)
(* under way when Stop comes.  What goes out is in Alerts.  Not modelled:  *)
(* what a command says, and the cache of names.                            *)
(***************************************************************************)
EXTENDS Naturals, Sequences

CONSTANTS
    Entries,    \* the alert entries of type mattermost
    Bots,       \* what their identities can be
    Policies,   \* what their ingress signatures can be
    MaxPosts,   \* how many commands users post
    MaxDials    \* how many websockets a client opens at most

ASSUME BoundsAssumption == MaxPosts \in Nat /\ MaxDials \in Nat \ {0}

VARIABLES
    bot,        \* mattermostIdentity of each entry
    ingress,    \* mattermostIngressSignature of each entry
    main,       \* where runAgent is
    built,      \* the entries buildAlerter is done with
    clients,    \* mmClients
    stop,       \* how far Stop is, for each client
    listener,   \* where each listen goroutine is
    ws,         \* the websocket of each client
    posts,      \* how many commands were posted
    runs        \* how often each bot ran each of them

config == <<bot, ingress>>
process == <<main, built, clients>>
vars == <<bot, ingress, main, built, clients, stop, listener, ws, posts, runs>>

----------------------------------------------------------------------------

\* c.ws: nil, or open, broken on the way, or closed here; with the posts that
\* arrived on it and were not handled, and its number among the client's.
Sockets == [state : {"nil", "open", "broken", "closed"},
            inbox : Seq(1..MaxPosts),
            dials : 0..MaxDials]

NoSocket == [state |-> "nil", inbox |-> <<>>, dials |-> 0]

Listeners == {"none", "loop", "reading", "handling", "retry", "waiting",
              "dialing", "done"}

Stops == {"no", "closed", "waits", "returned"}

\* mmClientsByIdentity: the clients that already listen for an entry's bot.
Sharing(e) == {c \in clients : bot[c] = bot[e]}

Go(e, place) == listener' = [listener EXCEPT ![e] = place]

StopCalled(e) == stop[e] # "no"

\* connectWebSocket replaces c.ws.
NewSocket(e) ==
    ws' = [ws EXCEPT ![e] = [state |-> "open", inbox |-> <<>>,
                             dials |-> @.dials + 1]]

----------------------------------------------------------------------------
(* buildAlerter and its cleanup *)

\* An entry whose bot has a client, with the same ingress policy.
Shares(e) ==
    /\ main = "building" /\ e \notin built
    /\ \E c \in Sharing(e) : ingress[c] = ingress[e]
    /\ built' = built \union {e}
    /\ UNCHANGED <<config, main, clients, stop, listener, ws, posts, runs>>

\* Mutant: the map of clients is never asked.
StartsAlways(e) ==
    /\ main = "building" /\ e \notin built
    /\ built' = built \union {e}
    /\ clients' = clients \union {e}
    /\ NewSocket(e) /\ Go(e, "loop")
    /\ UNCHANGED <<config, main, stop, posts, runs>>

\* A new client: Start authenticates, dials and begins to listen.
Starts(e) ==
    /\ main = "building" /\ e \notin built
    /\ Sharing(e) = {}
    /\ built' = built \union {e}
    /\ clients' = clients \union {e}
    /\ NewSocket(e) /\ Go(e, "loop")
    /\ UNCHANGED <<config, main, stop, posts, runs>>

\* The entry is invalid, its bot is shared under another policy, or Start
\* fails: what was started is stopped.
Fails(e) ==
    /\ main = "building" /\ e \notin built
    /\ main' = "stopping"
    /\ UNCHANGED <<config, built, clients, stop, listener, ws, posts, runs>>

AllBuilt ==
    /\ main = "building" /\ built = Entries
    /\ main' = "running"
    /\ UNCHANGED <<config, built, clients, stop, listener, ws, posts, runs>>

\* da.Run returns.
Shutdown ==
    /\ main = "running"
    /\ main' = "stopping"
    /\ UNCHANGED <<config, built, clients, stop, listener, ws, posts, runs>>

\* stopMattermostClients calls Stop on one client after the other:
\* close(c.stopCh),
StopCloses(e) ==
    /\ main = "stopping" /\ e \in clients /\ stop[e] = "no"
    /\ \A c \in clients : stop[c] \in {"no", "returned"}
    /\ stop' = [stop EXCEPT ![e] = "closed"]
    /\ UNCHANGED <<config, process, listener, ws, posts, runs>>

\* close the websocket that is there,
StopClosesSocket(e) ==
    /\ stop[e] = "closed"
    /\ stop' = [stop EXCEPT ![e] = "waits"]
    /\ ws' = IF ws[e].state = "nil" THEN ws
             ELSE [ws EXCEPT ![e] = [@ EXCEPT !.state = "closed"]]
    /\ UNCHANGED <<config, process, listener, posts, runs>>

\* Mutant: Stop does not wait for the goroutine.
StopReturnsUnwaited(e) ==
    /\ stop[e] = "waits"
    /\ stop' = [stop EXCEPT ![e] = "returned"]
    /\ UNCHANGED <<config, process, listener, ws, posts, runs>>

\* and wait for doneCh.
StopReturns(e) ==
    /\ stop[e] = "waits" /\ listener[e] = "done"
    /\ stop' = [stop EXCEPT ![e] = "returned"]
    /\ UNCHANGED <<config, process, listener, ws, posts, runs>>

Exit ==
    /\ main = "stopping" /\ \A c \in clients : stop[c] = "returned"
    /\ main' = "exited"
    /\ UNCHANGED <<config, built, clients, stop, listener, ws, posts, runs>>

----------------------------------------------------------------------------
(* The listen goroutine *)

\* Mutant: the loop does not look at stopCh.
LoopUnchecked(e) ==
    /\ listener[e] = "loop"
    /\ Go(e, "reading")
    /\ UNCHANGED <<config, process, stop, ws, posts, runs>>

\* The top of listen's loop.  Here c.ws is never nil.
Loop(e) ==
    /\ listener[e] = "loop"
    /\ Go(e, IF StopCalled(e) THEN "done" ELSE "reading")
    /\ UNCHANGED <<config, process, stop, ws, posts, runs>>

\* ReadMessage returns a message; what has arrived can be read even after the
\* websocket broke or was closed.
Read(e) ==
    /\ listener[e] = "reading" /\ ws[e].inbox # <<>>
    /\ Go(e, "handling")
    /\ UNCHANGED <<config, process, stop, ws, posts, runs>>

\* Mutant: c.ws is not cleared.
ReadFailsUncleared(e) ==
    /\ listener[e] = "reading" /\ ws[e].state \in {"broken", "closed"}
    /\ Go(e, IF StopCalled(e) THEN "done" ELSE "retry")
    /\ UNCHANGED <<config, process, stop, ws, posts, runs>>

\* ReadMessage fails; what was unread is lost with the websocket.
ReadFails(e) ==
    /\ listener[e] = "reading" /\ ws[e].state \in {"broken", "closed"}
    /\ IF StopCalled(e)
         THEN Go(e, "done") /\ UNCHANGED ws
         ELSE /\ Go(e, "retry")
              /\ ws' = [ws EXCEPT ![e] = [NoSocket EXCEPT !.dials = ws[e].dials]]
    /\ UNCHANGED <<config, process, stop, posts, runs>>

\* handleMessage runs the command and posts the answer, if it can.
Runs(e) ==
    /\ listener[e] = "handling"
    /\ LET post  == Head(ws[e].inbox)
           known == runs[bot[e]]
       IN  runs' = [runs EXCEPT ![bot[e]] = [known EXCEPT ![post] = known[post] + 1]]
    /\ ws' = [ws EXCEPT ![e] = [@ EXCEPT !.inbox = Tail(ws[e].inbox)]]
    /\ Go(e, "loop")
    /\ UNCHANGED <<config, process, stop, posts>>

\* handleMessage ignores it: not for this bot, or from a user who is not
\* allowed or whose name cannot be found out.
Ignores(e) ==
    /\ listener[e] = "handling"
    /\ ws' = [ws EXCEPT ![e] = [@ EXCEPT !.inbox = Tail(ws[e].inbox)]]
    /\ Go(e, "loop")
    /\ UNCHANGED <<config, process, stop, posts, runs>>

\* The top of reconnect's loop.
Retry(e) ==
    /\ listener[e] = "retry"
    /\ Go(e, IF StopCalled(e) THEN "done" ELSE "waiting")
    /\ UNCHANGED <<config, process, stop, ws, posts, runs>>

\* The backoff ends on its timer, which select may prefer to a stop that came
\* at the same time,
BackoffEnds(e) ==
    /\ listener[e] = "waiting" /\ ws[e].dials < MaxDials
    /\ Go(e, "dialing")
    /\ UNCHANGED <<config, process, stop, ws, posts, runs>>

\* or on stopCh.
BackoffStopped(e) ==
    /\ listener[e] = "waiting" /\ StopCalled(e)
    /\ Go(e, "done")
    /\ UNCHANGED <<config, process, stop, ws, posts, runs>>

Connects(e) ==
    /\ listener[e] = "dialing"
    /\ NewSocket(e) /\ Go(e, "loop")
    /\ UNCHANGED <<config, process, stop, posts, runs>>

\* Mutant: one failure to connect is the end.
DialGivesUp(e) ==
    /\ listener[e] = "dialing"
    /\ Go(e, "done")
    /\ UNCHANGED <<config, process, stop, ws, posts, runs>>

DialFails(e) ==
    /\ listener[e] = "dialing"
    /\ Go(e, "retry")
    /\ UNCHANGED <<config, process, stop, ws, posts, runs>>

----------------------------------------------------------------------------
(* The servers *)

\* A websocket breaks; the last one a client may open does not.
Breaks(e) ==
    /\ ws[e].state = "open" /\ ws[e].dials < MaxDials
    /\ ws' = [ws EXCEPT ![e] = [@ EXCEPT !.state = "broken"]]
    /\ UNCHANGED <<config, process, stop, listener, posts, runs>>

\* A user posts a command, and every open websocket gets it.
UserPosts ==
    /\ posts < MaxPosts
    /\ posts' = posts + 1
    /\ ws' = [e \in Entries |->
                IF ws[e].state = "open"
                  THEN [ws[e] EXCEPT !.inbox = Append(@, posts + 1)]
                  ELSE ws[e]]
    /\ UNCHANGED <<config, process, stop, listener, runs>>

----------------------------------------------------------------------------
(* The specification *)

Init ==
    /\ bot \in [Entries -> Bots] /\ ingress \in [Entries -> Policies]
    /\ main = "building" /\ built = {} /\ clients = {}
    /\ stop = [e \in Entries |-> "no"]
    /\ listener = [e \in Entries |-> "none"]
    /\ ws = [e \in Entries |-> NoSocket]
    /\ posts = 0
    /\ runs = [b \in Bots |-> [p \in 1..MaxPosts |-> 0]]

StopStep(e) == StopCloses(e) \/ StopClosesSocket(e) \/ StopReturns(e)

BuildStep(e) == Shares(e) \/ Starts(e) \/ Fails(e)

ListenStep(e) ==
    \/ Loop(e)
    \/ Read(e)
    \/ ReadFails(e)
    \/ Runs(e)
    \/ Ignores(e)
    \/ Retry(e)
    \/ BackoffEnds(e)
    \/ BackoffStopped(e)
    \/ Connects(e)
    \/ DialFails(e)

Next ==
    \/ \E e \in Entries : BuildStep(e) \/ StopStep(e) \/ ListenStep(e) \/ Breaks(e)
    \/ AllBuilt
    \/ Shutdown
    \/ Exit
    \/ UserPosts

Spec == Init /\ [][Next]_vars

\* Goroutines run; HTTP calls and dials time out; the timer of a backoff
\* fires; a server that is dialed again and again answers at last.  A read on
\* an open websocket may last for ever, and the process may run for ever.
FairSpec ==
    /\ Spec
    /\ WF_vars(Exit)
    /\ \A e \in Entries :
          /\ WF_vars(BuildStep(e))
          /\ WF_vars(StopStep(e))
          /\ WF_vars(ListenStep(e))
          /\ SF_vars(Connects(e))

----------------------------------------------------------------------------
(* Properties *)

TypeOK ==
    /\ bot \in [Entries -> Bots] /\ ingress \in [Entries -> Policies]
    /\ main \in {"building", "running", "stopping", "exited"}
    /\ built \subseteq Entries /\ clients \subseteq built
    /\ stop \in [Entries -> Stops]
    /\ listener \in [Entries -> Listeners]
    /\ ws \in [Entries -> Sockets]
    /\ posts \in 0..MaxPosts
    /\ runs \in [Bots -> [1..MaxPosts -> Nat]]
    /\ \A e \in Entries :
          listener[e] \in {"none", "retry", "waiting", "dialing"} =>
            ws[e].state = "nil"

\* A bot runs a command once, however many entries name it and however often
\* its websocket was replaced (agent.go:182-200, docs/current/mattermost.md).
CommandsRunOnce == \A b \in Bots : \A p \in 1..MaxPosts : runs[b][p] <= 1

\* Nothing listens once the process is through with its clients, after a
\* failed start as after a shutdown: no command reaches agents that are gone.
NobodyListensAfterExit ==
    main = "exited" => \A e \in Entries : listener[e] \in {"none", "done"}

\* A Stop that finds the goroutine reading, handling, waiting or dialing
\* returns (client.go:93-102).
ExitFollows == main = "stopping" ~> main = "exited"

\* A bot whose websocket breaks hears again, unless it is stopped: no failure
\* to connect is final (client.go:224-259).
HearsAgain ==
    \A e \in Entries :
        []<>(\/ e \notin clients
             \/ StopCalled(e)
             \/ listener[e] = "reading" /\ ws[e].state = "open")
=============================================================================
