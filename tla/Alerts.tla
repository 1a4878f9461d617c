------------------------------- MODULE Alerts -------------------------------
(***************************************************************************)
(* How alerts reach people (internal/agent/alerter.go,                     *)
(* internal/mattermost/alerter.go, and what they call in client.go).       *)
(* Every agent and every caller of snooze or resume sends its alerts       *)
(* itself, one HTTP request after the other, through sinks that all of     *)
(* them share; any request may fail, also after Mattermost has done what   *)
(* it asks.  Followed through: the attention alerts of an agent, which are *)
(* sent once per change and, where a sink has dm_users, go to each of them *)
(* directly, with the channel as the way out.                              *)
(***************************************************************************)
EXTENDS Naturals, Sequences

CONSTANTS
    Agents,     \* each run goroutine sends what its cycles find
    Callers,    \* goroutines that send "snoozed" and "resumed"
    Details,    \* what an agent may want attention for
    None,       \* nothing; said as "local changes resolved"
    Other,      \* the text of every other alert
    Bots,       \* the Mattermost clients
    LogBot,     \* stands where a log sink has no client
    Users,      \* whom dm_users can name
    Sinks,      \* the alerters, in order
    MaxAlerts   \* how many alerts are sent: bounds the run, not the program

ASSUME NamesAssumption == None \notin Details /\ Other \notin Details \union {None}
ASSUME SinksAssumption ==
    /\ Sinks \in Seq([bot : Bots \union {LogBot}, dmUsers : Seq(Users)])
    /\ Sinks # <<>>
ASSUME BoundAssumption == MaxAlerts \in Nat

VARIABLES
    attention,  \* attentionDetail of each agent
    sender,     \* the alert each goroutine is sending, and how far it got
    cache,      \* dmChannelCache: the pairs of bot and user with a channel
    raised,     \* how many alerts were sent
    word,       \* what each sink last passed on of each agent's attention
    failed,     \* whether a sink failed the last of those (history)
    logged      \* whether the agent logged that it was not delivered

vars == <<attention, sender, cache, raised, word, failed, logged>>

----------------------------------------------------------------------------

Senders == Agents \union Callers

Texts == Details \union {None, Other}

\* Before sink k; err is whether an earlier one failed.
AtSink(k, text, err) ==
    [pc |-> "sink", text |-> text, sink |-> k, dms |-> <<>>, dmErr |-> FALSE,
     err |-> err]

Idle ==
    [pc |-> "idle", text |-> Other, sink |-> 1, dms |-> <<>>, dmErr |-> FALSE,
     err |-> FALSE]

Sending ==
    [pc : {"idle", "sink", "dm", "open", "postDirect", "postChannel"},
     text : Texts, sink : DOMAIN Sinks, dms : Seq(Users),
     dmErr : BOOLEAN, err : BOOLEAN]

TypeOK ==
    /\ attention \in [Agents -> Details \union {None}]
    /\ sender \in [Senders -> Sending]
    /\ cache \subseteq (Bots \union {LogBot}) \X Users
    /\ raised \in 0..MaxAlerts
    /\ word \in [Agents -> [DOMAIN Sinks -> Details \union {None}]]
    /\ failed \in [Agents -> [DOMAIN Sinks -> BOOLEAN]]
    /\ logged \in [Agents -> BOOLEAN]
    /\ \A s \in Senders :
          sender[s].pc \in {"open", "postDirect"} => sender[s].dms # <<>>

Set(s, rec) == sender' = [sender EXCEPT ![s] = rec]

Sink(s) == Sinks[sender[s].sink]

Channel(s) == <<Sink(s).bot, Head(sender[s].dms)>>

\* The sink has passed on, or not, what s sends: noted when it is about an
\* agent's attention.
Note(s, passed, ok) ==
    IF sender[s].text = Other THEN UNCHANGED <<word, failed>>
    ELSE LET k == sender[s].sink
         IN  /\ word' = IF passed
                           THEN [word EXCEPT ![s] = [@ EXCEPT ![k] = sender[s].text]]
                           ELSE word
             /\ failed' = IF ok THEN failed
                                ELSE [failed EXCEPT ![s] = [@ EXCEPT ![k] = TRUE]]

\* MultiAlerter goes on to the next sink whatever this one returned; after the
\* last the agent logs the alert when one of them failed.
Done(s, ok) ==
    LET err == sender[s].err \/ ~ok
    IN  IF sender[s].sink < Len(Sinks)
          THEN /\ Set(s, AtSink(sender[s].sink + 1, sender[s].text, err))
               /\ UNCHANGED logged
          ELSE /\ Set(s, Idle)
               /\ logged' = IF s \in Agents /\ sender[s].text # Other
                              THEN [logged EXCEPT ![s] = err] ELSE logged

----------------------------------------------------------------------------
(* The agent *)

Send(s, text) ==
    /\ raised < MaxAlerts
    /\ raised' = raised + 1
    /\ Set(s, AtSink(1, text, FALSE))

\* Mutant: only the first detail is an attention alert.
AttentionOnce(a, detail) ==
    /\ sender[a].pc = "idle" /\ detail # attention[a]
    /\ attention' = [attention EXCEPT ![a] = detail]
    /\ IF attention[a] = None \/ detail = None
         THEN /\ Send(a, detail)
              /\ failed' = [failed EXCEPT ![a] = [k \in DOMAIN Sinks |-> FALSE]]
              /\ logged' = [logged EXCEPT ![a] = FALSE]
         ELSE UNCHANGED <<sender, raised, failed, logged>>
    /\ UNCHANGED <<cache, word>>

\* setAttention, and clearAttention with the alert that follows it: nothing is
\* sent for a detail that stands already.
Attention(a, detail) ==
    /\ sender[a].pc = "idle" /\ detail # attention[a]
    /\ attention' = [attention EXCEPT ![a] = detail]
    /\ Send(a, detail)
    /\ failed' = [failed EXCEPT ![a] = [k \in DOMAIN Sinks |-> FALSE]]
    /\ logged' = [logged EXCEPT ![a] = FALSE]
    /\ UNCHANGED <<cache, word>>

\* Every other call of alert and alertWithFiles.
Alert(s) ==
    /\ sender[s].pc = "idle"
    /\ Send(s, Other)
    /\ UNCHANGED <<attention, cache, word, failed, logged>>

----------------------------------------------------------------------------
(* The sinks *)

\* LogAlerter
LogAlert(s) ==
    /\ sender[s].pc = "sink" /\ Sink(s).bot = LogBot
    /\ Note(s, TRUE, TRUE)
    /\ Done(s, TRUE)
    /\ UNCHANGED <<attention, cache, raised>>

\* Alerter.Alert: an attention alert goes to the dm_users, if there are any.
MattermostAlert(s) ==
    /\ sender[s].pc = "sink" /\ Sink(s).bot # LogBot
    /\ Set(s, IF sender[s].text \in Details /\ Sink(s).dmUsers # <<>>
                THEN [sender[s] EXCEPT !.pc = "dm", !.dms = Sink(s).dmUsers,
                                       !.dmErr = FALSE]
                ELSE [sender[s] EXCEPT !.pc = "postChannel"])
    /\ UNCHANGED <<attention, cache, raised, word, failed, logged>>

\* alertDirect, the next user: DirectChannelWith looks in the cache.
DirectChannelWith(s) ==
    /\ sender[s].pc = "dm" /\ sender[s].dms # <<>>
    /\ Set(s, [sender[s] EXCEPT !.pc = IF Channel(s) \in cache THEN "postDirect"
                                                               ELSE "open"])
    /\ UNCHANGED <<attention, cache, raised, word, failed, logged>>

\* The user is found and the channel opened, without the lock.
Opened(s) ==
    /\ sender[s].pc = "open"
    /\ cache' = cache \union {Channel(s)}
    /\ Set(s, [sender[s] EXCEPT !.pc = "postDirect"])
    /\ UNCHANGED <<attention, raised, word, failed, logged>>

\* The next user, after an error or without.
NextUser(s, ok) ==
    Set(s, [sender[s] EXCEPT !.pc = "dm", !.dms = Tail(@), !.dmErr = @ \/ ~ok])

\* Mutant: a user who cannot be resolved is asked for again.
OpenRetries(s) ==
    /\ sender[s].pc = "open"
    /\ Set(s, [sender[s] EXCEPT !.pc = "dm"])
    /\ UNCHANGED <<attention, cache, raised, word, failed, logged>>

\* Mutant: after the error the message is posted all the same.
OpenFailsThrough(s) ==
    /\ sender[s].pc = "open"
    /\ Set(s, [sender[s] EXCEPT !.pc = "postDirect", !.dms = Tail(@), !.dmErr = TRUE])
    /\ UNCHANGED <<attention, cache, raised, word, failed, logged>>

\* Either request fails: a user who does not exist, a server that does not
\* answer within the client's timeout.
OpenFails(s) ==
    /\ sender[s].pc = "open"
    /\ NextUser(s, FALSE)
    /\ UNCHANGED <<attention, cache, raised, word, failed, logged>>

\* PostMessage to the user's channel.  Whether it got there does not matter
\* when it reports an error: the channel will have it too.
PostDirect(s, ok) ==
    /\ sender[s].pc = "postDirect"
    /\ NextUser(s, ok)
    /\ UNCHANGED <<attention, cache, raised, word, failed, logged>>

\* Every user got it: the sink is done.
DirectDone(s) ==
    /\ sender[s].pc = "dm" /\ sender[s].dms = <<>> /\ ~sender[s].dmErr
    /\ Note(s, TRUE, TRUE)
    /\ Done(s, TRUE)
    /\ UNCHANGED <<attention, cache, raised>>

\* Some user did not: the failure is logged, and the channel is next.
FallBack(s) ==
    /\ sender[s].pc = "dm" /\ sender[s].dms = <<>> /\ sender[s].dmErr
    /\ Set(s, [sender[s] EXCEPT !.pc = "postChannel"])
    /\ UNCHANGED <<attention, cache, raised, word, failed, logged>>

\* PostMessage to the channel.
PostChannel(s) ==
    /\ sender[s].pc = "postChannel"
    /\ Note(s, TRUE, TRUE)
    /\ Done(s, TRUE)
    /\ UNCHANGED <<attention, cache, raised>>

\* It reports an error: refused, or timed out before or after it was posted.
PostChannelFails(s) ==
    /\ sender[s].pc = "postChannel"
    /\ \E posted \in BOOLEAN : Note(s, posted, FALSE)
    /\ Done(s, FALSE)
    /\ UNCHANGED <<attention, cache, raised>>

----------------------------------------------------------------------------
(* The specification *)

Init ==
    /\ attention = [a \in Agents |-> None]
    /\ sender = [s \in Senders |-> Idle]
    /\ cache = {}
    /\ raised = 0
    /\ word = [a \in Agents |-> [k \in DOMAIN Sinks |-> None]]
    /\ failed = [a \in Agents |-> [k \in DOMAIN Sinks |-> FALSE]]
    /\ logged = [a \in Agents |-> FALSE]

SinkStep(s) ==
    \/ LogAlert(s)
    \/ MattermostAlert(s)
    \/ DirectChannelWith(s)
    \/ Opened(s)
    \/ OpenFails(s)
    \/ \E ok \in BOOLEAN : PostDirect(s, ok)
    \/ DirectDone(s)
    \/ FallBack(s)
    \/ PostChannel(s)
    \/ PostChannelFails(s)

Next ==
    \/ \E a \in Agents : \E detail \in Details \union {None} : Attention(a, detail)
    \/ \E s \in Senders : Alert(s) \/ SinkStep(s)

Spec == Init /\ [][Next]_vars

\* Goroutines run, and the HTTP client times out after ten seconds.
FairSpec == Spec /\ \A s \in Senders : WF_vars(SinkStep(s))

----------------------------------------------------------------------------
(* Properties *)

\* What a sink last passed on of an agent's attention is what the agent
\* retains - the standing detail, or that it is resolved - and where it is not,
\* that very sink failed and the agent logged it: "unchanged detail alerts
\* once" never leaves a sink with an older word because another sink, a user or
\* an earlier alert failed (agent.go:886-936, alerter.go:62-70,
\* mattermost/alerter.go:32-66).
LastWordStands ==
    \A a \in Agents :
        sender[a].pc = "idle" =>
            \A k \in DOMAIN Sinks :
                \/ word[a][k] = attention[a]
                \/ failed[a][k] /\ logged[a]

\* Sending an alert ends, whatever fails: the cycle, the caller or the
\* scheduler that sends it goes on (client.go:42, mattermost/alerter.go:51-66).
AlertsEnd == \A s \in Senders : sender[s].pc # "idle" ~> sender[s].pc = "idle"
=============================================================================
