----------------------------- MODULE AlertsProofs -----------------------------
(***************************************************************************)
(* Theorems about Alerts, for any number of goroutines, sinks, users and   *)
(* alerts.                                                                 *)
(***************************************************************************)
EXTENDS Alerts, TLAPS

----------------------------------------------------------------------------
(* The inductive invariant *)

\* Sink k has passed on what agent a retains, or it failed, and the agent
\* knows.
Stands(k, a, known) ==
    word[a][k] = attention[a] \/ (failed[a][k] /\ known)

\* Behind the sink that an attention alert has reached, the word stands, and
\* the alert carries it; any other alert leaves every word as it is.
Behind(a) ==
    IF sender[a].pc # "idle" /\ sender[a].text # Other
      THEN /\ sender[a].text = attention[a]
           /\ \A k \in DOMAIN Sinks :
                 k < sender[a].sink => Stands(k, a, sender[a].err)
      ELSE \A k \in DOMAIN Sinks : Stands(k, a, logged[a])

\* Only agents send attention alerts.
OwnWords ==
    \A s \in Senders : sender[s].text # Other => s \in Agents

IInv == TypeOK /\ OwnWords /\ \A a \in Agents : Behind(a)

LEMMA SinksFacts ==
    /\ DOMAIN Sinks = 1..Len(Sinks)
    /\ Len(Sinks) \in Nat /\ 1 \in DOMAIN Sinks
    /\ \A k \in DOMAIN Sinks :
          /\ Sinks[k].bot \in Bots \union {LogBot}
          /\ Sinks[k].dmUsers \in Seq(Users)
<1> DEFINE SinkRecords == [bot : Bots \union {LogBot}, dmUsers : Seq(Users)]
<1>1. Sinks \in Seq(SinkRecords) /\ Sinks # <<>>
  BY SinksAssumption
<1>2. DOMAIN Sinks = 1..Len(Sinks) /\ Len(Sinks) \in Nat /\ Len(Sinks) # 0
  <2> HIDE DEF SinkRecords
  <2> QED BY <1>1
<1>3. \A k \in DOMAIN Sinks : Sinks[k] \in SinkRecords
  <2> HIDE DEF SinkRecords
  <2> QED BY <1>1
<1>4. 1 \in DOMAIN Sinks
  BY <1>2
<1> QED BY <1>2, <1>3, <1>4

\* What a change of one entry does to a table by agent and sink.
LEMMA TableUpdate ==
    ASSUME NEW A, NEW K, NEW V, NEW f \in [A -> [K -> V]],
           NEW a \in A, NEW k \in K, NEW v \in V,
           NEW g, g = [f EXCEPT ![a] = [f[a] EXCEPT ![k] = v]]
    PROVE  /\ g \in [A -> [K -> V]]
           /\ g[a][k] = v
           /\ \A l \in K : l # k => g[a][l] = f[a][l]
           /\ \A b \in A : b # a => g[b] = f[b]
<1>1. [f[a] EXCEPT ![k] = v] \in [K -> V]
  OBVIOUS
<1>2. g[a] = [f[a] EXCEPT ![k] = v] /\ g \in [A -> [K -> V]]
  BY <1>1
<1> QED BY <1>2

LEMMA IdleIsSending == Idle \in Sending
BY SinksFacts DEF Idle, AtSink, Sending, Texts

LEMMA InitIInv == Init => IInv
<1> SUFFICES ASSUME Init PROVE IInv
  OBVIOUS
<1>1. TypeOK
  <2>1. /\ attention \in [Agents -> Details \union {None}]
        /\ cache \subseteq (Bots \union {LogBot}) \X Users
        /\ raised \in 0..MaxAlerts
        /\ logged \in [Agents -> BOOLEAN]
    BY BoundAssumption DEF Init
  <2>2. /\ word \in [Agents -> [DOMAIN Sinks -> Details \union {None}]]
        /\ failed \in [Agents -> [DOMAIN Sinks -> BOOLEAN]]
    BY DEF Init
  <2>3. sender \in [Senders -> Sending]
    BY IdleIsSending DEF Init
  <2>4. \A s \in Senders : sender[s].pc = "idle"
    BY DEF Init, Idle
  <2> QED BY <2>1, <2>2, <2>3, <2>4 DEF TypeOK
<1>2. OwnWords
  BY DEF Init, OwnWords, Idle, AtSink
<1>3. ASSUME NEW a \in Agents PROVE Behind(a)
  <2>1. sender[a] = Idle
    BY DEF Init, Senders
  <2>2. \A k \in DOMAIN Sinks : word[a][k] = attention[a]
    BY DEF Init
  <2> QED BY <2>1, <2>2 DEF Behind, Stands, Idle, AtSink
<1> QED BY <1>1, <1>2, <1>3 DEF IInv

----------------------------------------------------------------------------
(* What the steps do *)

\* A goroutine within a sink, or between two: nothing is passed on.
Moves(s) ==
    /\ sender[s].pc # "idle"
    /\ \E rec \in Sending :
          /\ sender' = [sender EXCEPT ![s] = rec]
          /\ rec.pc # "idle"
          /\ rec.pc \in {"open", "postDirect"} => rec.dms # <<>>
          /\ rec.text = sender[s].text
          /\ rec.sink = sender[s].sink
          /\ rec.err = sender[s].err
    /\ cache' \subseteq (Bots \union {LogBot}) \X Users
    /\ UNCHANGED <<attention, raised, word, failed, logged>>

\* A goroutine is done with a sink: it passed the alert on, or failed.
Finishes(s) ==
    /\ sender[s].pc # "idle"
    /\ \E passed, ok \in BOOLEAN :
          /\ passed \/ ~ok
          /\ Note(s, passed, ok)
          /\ Done(s, ok)
    /\ UNCHANGED <<attention, cache, raised>>

LEMMA MovesKeepsIInv ==
    ASSUME IInv, NEW s \in Senders, Moves(s) PROVE IInv'
<1>1. PICK rec \in Sending :
         /\ sender' = [sender EXCEPT ![s] = rec]
         /\ rec.pc # "idle"
         /\ rec.pc \in {"open", "postDirect"} => rec.dms # <<>>
         /\ rec.text = sender[s].text
         /\ rec.sink = sender[s].sink
         /\ rec.err = sender[s].err
  BY DEF Moves
<1>2. /\ sender'[s] = rec /\ \A r \in Senders \ {s} : sender'[r] = sender[r]
      /\ UNCHANGED <<attention, raised, word, failed, logged>>
      /\ sender[s].pc # "idle"
  BY <1>1 DEF Moves, IInv, TypeOK
<1>3. TypeOK'
  BY <1>1, <1>2 DEF Moves, IInv, TypeOK
<1>4. OwnWords'
  BY <1>1, <1>2 DEF IInv, OwnWords
<1>5. ASSUME NEW a \in Agents PROVE Behind(a)'
  BY <1>1, <1>2 DEF IInv, Behind, Stands, Senders
<1> QED BY <1>3, <1>4, <1>5 DEF IInv

\* What a sink that is done leaves behind, for the other agents and for the
\* one whose attention the alert is about.
LEMMA NoteChanges ==
    ASSUME TypeOK, OwnWords, NEW s \in Senders,
           NEW passed \in BOOLEAN, NEW ok \in BOOLEAN, passed \/ ~ok,
           Note(s, passed, ok), attention' = attention
    PROVE  /\ word' \in [Agents -> [DOMAIN Sinks -> Details \union {None}]]
           /\ failed' \in [Agents -> [DOMAIN Sinks -> BOOLEAN]]
           /\ sender[s].text = Other => word' = word /\ failed' = failed
           /\ \A a \in Agents \ {s} : word'[a] = word[a] /\ failed'[a] = failed[a]
           /\ sender[s].text # Other =>
                 /\ s \in Agents
                 /\ word'[s][sender[s].sink] = sender[s].text
                       \/ (failed'[s][sender[s].sink] /\ ~ok)
                 /\ \A k \in DOMAIN Sinks :
                       k # sender[s].sink =>
                          word'[s][k] = word[s][k] /\ failed'[s][k] = failed[s][k]
<1>1. /\ word \in [Agents -> [DOMAIN Sinks -> Details \union {None}]]
      /\ failed \in [Agents -> [DOMAIN Sinks -> BOOLEAN]]
      /\ sender[s].sink \in DOMAIN Sinks /\ sender[s].text \in Texts
  BY DEF TypeOK, Sending
<1>2. CASE sender[s].text = Other
  BY <1>1, <1>2 DEF Note
<1>3. CASE sender[s].text # Other
  <2> DEFINE k == sender[s].sink
  <2>1. s \in Agents /\ sender[s].text \in Details \union {None}
    BY <1>1, <1>3 DEF OwnWords, Texts
  <2>2. /\ word' = IF passed THEN [word EXCEPT ![s] = [word[s] EXCEPT ![k] = sender[s].text]]
                              ELSE word
        /\ failed' = IF ok THEN failed
                           ELSE [failed EXCEPT ![s] = [failed[s] EXCEPT ![k] = TRUE]]
    BY <1>1, <1>3, <2>1 DEF Note
  <2>3. /\ word' \in [Agents -> [DOMAIN Sinks -> Details \union {None}]]
        /\ passed => word'[s][k] = sender[s].text
        /\ \A l \in DOMAIN Sinks : l # k => word'[s][l] = word[s][l]
        /\ \A a \in Agents : a # s => word'[a] = word[a]
    <3>1. CASE passed
      <4> HIDE DEF k
      <4>1. word' = [word EXCEPT ![s] = [word[s] EXCEPT ![k] = sender[s].text]]
        BY <2>2, <3>1
      <4>2. k \in DOMAIN Sinks
        BY <1>1 DEF k
      <4> QED BY <1>1, <2>1, <4>1, <4>2, TableUpdate
    <3>2. CASE ~passed
      BY <1>1, <2>2, <3>2
    <3> QED BY <3>1, <3>2
  <2>4. /\ failed' \in [Agents -> [DOMAIN Sinks -> BOOLEAN]]
        /\ ~ok => failed'[s][k] = TRUE
        /\ \A l \in DOMAIN Sinks : l # k => failed'[s][l] = failed[s][l]
        /\ \A a \in Agents : a # s => failed'[a] = failed[a]
    <3>1. CASE ~ok
      <4> HIDE DEF k
      <4>1. failed' = [failed EXCEPT ![s] = [failed[s] EXCEPT ![k] = TRUE]]
        BY <2>2, <3>1
      <4>2. k \in DOMAIN Sinks /\ TRUE \in BOOLEAN
        BY <1>1 DEF k
      <4> QED BY <1>1, <2>1, <3>1, <4>1, <4>2, TableUpdate
    <3>2. CASE ok
      BY <1>1, <2>2, <3>2
    <3> QED BY <3>1, <3>2
  <2> QED BY <1>3, <2>1, <2>3, <2>4
<1> QED BY <1>2, <1>3

LEMMA FinishesKeepsIInv ==
    ASSUME IInv, NEW s \in Senders, Finishes(s) PROVE IInv'
<1>0. /\ TypeOK /\ OwnWords /\ sender[s] \in Sending
      /\ sender[s].sink \in DOMAIN Sinks /\ sender[s].sink \in Nat
      /\ UNCHANGED <<attention, cache, raised>> /\ sender[s].pc # "idle"
  BY SinksFacts DEF IInv, TypeOK, Sending, Finishes
<1>1. PICK passed \in BOOLEAN, ok \in BOOLEAN :
         (passed \/ ~ok) /\ Note(s, passed, ok) /\ Done(s, ok)
  BY DEF Finishes
<1> DEFINE err == sender[s].err \/ ~ok
           next == AtSink(sender[s].sink + 1, sender[s].text, err)
<1>2. /\ \/ sender[s].sink < Len(Sinks) /\ sender' = [sender EXCEPT ![s] = next]
         \/ /\ sender[s].sink = Len(Sinks)
            /\ sender' = [sender EXCEPT ![s] = Idle]
      /\ \A r \in Senders \ {s} : sender'[r] = sender[r]
  BY <1>0, <1>1, SinksFacts DEF Done, Set, TypeOK
<1>3. next \in Sending \/ sender[s].sink = Len(Sinks)
  BY <1>0, <1>2, SinksFacts DEF Sending, AtSink
<1>4. sender' \in [Senders -> Sending]
  BY <1>0, <1>2, <1>3, IdleIsSending, SinksFacts DEF TypeOK
<1>5. TypeOK'
  <2>1. /\ word' \in [Agents -> [DOMAIN Sinks -> Details \union {None}]]
        /\ failed' \in [Agents -> [DOMAIN Sinks -> BOOLEAN]]
    BY <1>0, <1>1, NoteChanges
  <2>2. logged' \in [Agents -> BOOLEAN]
    <3>1. logged \in [Agents -> BOOLEAN] /\ err \in BOOLEAN
      BY <1>0 DEF TypeOK, Sending
    <3>2. \/ logged' = logged
          \/ logged' = [logged EXCEPT ![s] = err]
      BY <1>1 DEF Done
    <3> HIDE DEF err
    <3> QED BY <3>1, <3>2
  <2>3. \A r \in Senders :
           sender'[r].pc \in {"open", "postDirect"} => sender'[r].dms # <<>>
    <3>1. sender'[s].pc \in {"sink", "idle"}
      <4>1. next.pc = "sink" /\ Idle.pc = "idle"
        BY DEF AtSink, Idle
      <4>2. sender'[s] = next \/ sender'[s] = Idle
        BY <1>0, <1>2 DEF TypeOK
      <4> QED BY <4>1, <4>2
    <3>2. \A r \in Senders :
             sender[r].pc \in {"open", "postDirect"} => sender[r].dms # <<>>
      BY <1>0 DEF TypeOK
    <3> QED BY <1>2, <3>1, <3>2
  <2>4. /\ attention' \in [Agents -> Details \union {None}]
        /\ cache' \subseteq (Bots \union {LogBot}) \X Users
        /\ raised' \in 0..MaxAlerts
    BY <1>0 DEF TypeOK
  <2> QED BY <1>4, <2>1, <2>2, <2>3, <2>4 DEF TypeOK
<1>6. OwnWords'
  BY <1>0, <1>2 DEF OwnWords, Idle, AtSink, TypeOK, Sending
<1>7. ASSUME NEW a \in Agents PROVE Behind(a)'
  <2>0. Behind(a) /\ a \in Senders
    BY DEF IInv, Senders
  <2>1. CASE a # s
    <3>1. /\ sender'[a] = sender[a] /\ logged'[a] = logged[a]
          /\ \A k \in DOMAIN Sinks :
                word'[a][k] = word[a][k] /\ failed'[a][k] = failed[a][k]
      <4>1. sender'[a] = sender[a] /\ logged'[a] = logged[a]
        BY <1>0, <1>1, <1>2, <2>0, <2>1 DEF Done, TypeOK
      <4>2. word'[a] = word[a] /\ failed'[a] = failed[a]
        BY <1>0, <1>1, <2>1, NoteChanges
      <4> QED BY <4>1, <4>2
    <3> QED BY <1>0, <2>0, <3>1 DEF Behind, Stands
  <2>2. CASE a = s /\ sender[s].text = Other
    <3>1. word' = word /\ failed' = failed /\ logged' = logged
      BY <1>1, <2>2 DEF Note, Done
    <3>2. sender'[s].text = Other
      BY <1>0, <1>2, <2>2 DEF Idle, AtSink, TypeOK, Sending
    <3> QED BY <1>0, <2>0, <2>2, <3>1, <3>2 DEF Behind, Stands
  <2>3. CASE a = s /\ sender[s].text # Other
    <3>1. /\ sender[s].text = attention[s]
          /\ \A k \in DOMAIN Sinks :
                k < sender[s].sink => Stands(k, s, sender[s].err)
      BY <1>0, <2>0, <2>3 DEF Behind
    <3>2. /\ word'[s][sender[s].sink] = sender[s].text
                \/ (failed'[s][sender[s].sink] /\ ~ok)
          /\ \A k \in DOMAIN Sinks :
                k # sender[s].sink =>
                   word'[s][k] = word[s][k] /\ failed'[s][k] = failed[s][k]
      BY <1>0, <1>1, <2>3, NoteChanges
    <3>3. \A k \in DOMAIN Sinks :
             k <= sender[s].sink =>
               word'[s][k] = attention'[s] \/ (failed'[s][k] /\ err)
      <4> SUFFICES ASSUME NEW k \in DOMAIN Sinks, k <= sender[s].sink
                   PROVE  word'[s][k] = attention'[s] \/ (failed'[s][k] /\ err)
        OBVIOUS
      <4>1. CASE k = sender[s].sink
        BY <1>0, <3>1, <3>2, <4>1
      <4>2. CASE k # sender[s].sink
        <5>1. word'[s][k] = word[s][k] /\ failed'[s][k] = failed[s][k]
          BY <3>2, <4>2
        <5>2. Stands(k, s, sender[s].err)
          BY <1>0, <3>1, <4>2, SinksFacts
        <5> QED BY <1>0, <5>1, <5>2 DEF Stands
      <4> QED BY <4>1, <4>2
    <3>4. CASE sender[s].sink < Len(Sinks) /\ sender' = [sender EXCEPT ![s] = next]
      <4>1. sender'[s] = next
        BY <1>0, <3>4 DEF TypeOK
      <4>2. /\ next.pc = "sink" /\ next.text = sender[s].text
            /\ next.sink = sender[s].sink + 1 /\ next.err = err
        BY <1>0 DEF AtSink
      <4>3. \A k \in DOMAIN Sinks :
               k < sender'[s].sink =>
                  word'[s][k] = attention'[s] \/ (failed'[s][k] /\ sender'[s].err)
        <5>1. \A k \in DOMAIN Sinks :
                 k < sender[s].sink + 1 => k <= sender[s].sink
          BY <1>0, SinksFacts
        <5> QED BY <3>3, <4>1, <4>2, <5>1
      <4>4. sender'[s].pc # "idle" /\ sender'[s].text = attention'[s]
        BY <1>0, <3>1, <4>1, <4>2
      <4>5. sender'[s].text # Other
        BY <2>3, <4>1, <4>2
      <4> QED BY <2>3, <4>3, <4>4, <4>5 DEF Behind, Stands
    <3>5. CASE /\ sender[s].sink = Len(Sinks)
               /\ sender' = [sender EXCEPT ![s] = Idle]
      <4>1. sender'[s] = Idle
        BY <1>0, <3>5 DEF TypeOK
      <4>2. logged'[s] = err
        BY <1>0, <1>1, <2>3, <3>5 DEF Done, TypeOK
      <4>3. \A k \in DOMAIN Sinks :
               word'[s][k] = attention'[s] \/ (failed'[s][k] /\ logged'[s])
        <5>1. \A k \in DOMAIN Sinks : k <= sender[s].sink
          BY <3>5, SinksFacts
        <5> QED BY <3>3, <4>2, <5>1
      <4> QED BY <2>3, <4>1, <4>3 DEF Behind, Stands, Idle
    <3> QED BY <1>2, <3>4, <3>5
  <2> QED BY <2>1, <2>2, <2>3
<1> QED BY <1>5, <1>6, <1>7 DEF IInv

\* The steps of a sink are of these two kinds.
LEMMA SinkStepKinds ==
    ASSUME TypeOK, NEW s \in Senders, SinkStep(s)
    PROVE  Moves(s) \/ Finishes(s)
<1>0. /\ sender[s] \in Sending /\ sender[s].sink \in DOMAIN Sinks
      /\ Sink(s).dmUsers \in Seq(Users)
      /\ Sink(s).bot \in Bots \union {LogBot}
      /\ sender[s].dms \in Seq(Users)
  BY SinksFacts DEF TypeOK, Sending, Sink
<1>1. CASE MattermostAlert(s)
  <2>1. [sender[s] EXCEPT !.pc = "dm", !.dms = Sink(s).dmUsers,
                          !.dmErr = FALSE] \in Sending
    BY <1>0 DEF Sending
  <2>2. [sender[s] EXCEPT !.pc = "postChannel"] \in Sending
    BY <1>0 DEF Sending
  <2> QED BY <1>0, <1>1, <2>1, <2>2 DEF MattermostAlert, Moves, Set, TypeOK, Sending
<1>2. CASE DirectChannelWith(s)
  <2>1. \A pc \in {"postDirect", "open"} :
           [sender[s] EXCEPT !.pc = pc] \in Sending
    BY <1>0 DEF Sending
  <2> QED
    BY <1>0, <1>2, <2>1 DEF DirectChannelWith, Moves, Set, TypeOK, Sending
<1>3. CASE Opened(s)
  <2>1. [sender[s] EXCEPT !.pc = "postDirect"] \in Sending
    BY <1>0 DEF Sending
  <2>2. sender[s].dms # <<>>
    BY <1>3 DEF Opened, TypeOK
  <2>3. Channel(s) \in (Bots \union {LogBot}) \X Users
    BY <1>0, <2>2 DEF Channel
  <2> QED
    BY <1>0, <1>3, <2>1, <2>2, <2>3 DEF Opened, Moves, Set, TypeOK, Sending
<1>4. CASE OpenFails(s) \/ \E ok \in BOOLEAN : PostDirect(s, ok)
  <2>1. sender[s].dms # <<>> /\ sender[s].pc # "idle"
    BY <1>4 DEF OpenFails, PostDirect, TypeOK
  <2>2. PICK ok \in BOOLEAN : NextUser(s, ok)
    BY <1>4 DEF OpenFails, PostDirect
  <2>3. Tail(sender[s].dms) \in Seq(Users)
    BY <1>0, <2>1
  <2>4. [sender[s] EXCEPT !.pc = "dm", !.dms = Tail(sender[s].dms),
                          !.dmErr = sender[s].dmErr \/ ~ok] \in Sending
    BY <1>0, <2>3 DEF Sending
  <2> QED
    BY <1>0, <1>4, <2>1, <2>2, <2>4
    DEF NextUser, OpenFails, PostDirect, Moves, Set, TypeOK, Sending
<1>5. CASE FallBack(s)
  <2>1. [sender[s] EXCEPT !.pc = "postChannel"] \in Sending
    BY <1>0 DEF Sending
  <2> QED BY <1>0, <1>5, <2>1 DEF FallBack, Moves, Set, TypeOK, Sending
<1>6. CASE LogAlert(s) \/ DirectDone(s) \/ PostChannel(s) \/ PostChannelFails(s)
  BY <1>6 DEF LogAlert, DirectDone, PostChannel, PostChannelFails, Finishes
<1> QED BY <1>1, <1>2, <1>3, <1>4, <1>5, <1>6 DEF SinkStep

\* An agent that finds something else sends it from the first sink on, and any
\* other alert is sent beside it.
LEMMA SendKeepsIInv ==
    ASSUME IInv, NEW s \in Senders,
           \/ s \in Agents /\ \E detail \in Details \union {None} : Attention(s, detail)
           \/ Alert(s)
    PROVE  IInv'
<1>0. TypeOK /\ OwnWords /\ sender[s].pc = "idle" /\ raised' \in 0..MaxAlerts
  <2>1. raised \in 0..MaxAlerts /\ raised < MaxAlerts /\ raised' = raised + 1
    BY DEF IInv, TypeOK, Attention, Alert, Send
  <2>2. raised' \in 0..MaxAlerts
    BY <2>1, BoundAssumption
  <2> QED BY <2>2 DEF IInv, Attention, Alert
<1>1. CASE Alert(s)
  <2>1. AtSink(1, Other, FALSE) \in Sending
    BY SinksFacts DEF Sending, Texts, AtSink
  <2>2. /\ sender'[s] = AtSink(1, Other, FALSE)
        /\ \A r \in Senders \ {s} : sender'[r] = sender[r]
        /\ sender' \in [Senders -> Sending]
    BY <1>0, <1>1, <2>1 DEF Alert, Send, Set, TypeOK
  <2>3. TypeOK'
    <3>1. UNCHANGED <<attention, cache, word, failed, logged>>
      BY <1>1 DEF Alert
    <3>2. sender'[s].pc = "sink"
      BY <2>2 DEF AtSink
    <3> QED BY <1>0, <2>2, <3>1, <3>2 DEF TypeOK
  <2>5. OwnWords'
    BY <1>0, <2>2 DEF OwnWords, AtSink
  <2>4. ASSUME NEW a \in Agents PROVE Behind(a)'
    BY <1>0, <1>1, <2>2 DEF Alert, IInv, Behind, Stands, Idle, AtSink, Senders
  <2> QED BY <2>3, <2>4, <2>5 DEF IInv
<1>2. ASSUME s \in Agents, NEW detail \in Details \union {None},
             Attention(s, detail)
      PROVE  IInv'
  <2>1. AtSink(1, detail, FALSE) \in Sending
    BY SinksFacts DEF Sending, Texts, AtSink
  <2>2. /\ sender'[s] = AtSink(1, detail, FALSE)
        /\ \A r \in Senders \ {s} : sender'[r] = sender[r]
        /\ sender' \in [Senders -> Sending]
        /\ attention' = [attention EXCEPT ![s] = detail]
        /\ logged' = [logged EXCEPT ![s] = FALSE]
        /\ failed' = [failed EXCEPT ![s] = [k \in DOMAIN Sinks |-> FALSE]]
        /\ UNCHANGED <<cache, word>>
    BY <1>0, <1>2, <2>1 DEF Attention, Send, Set, TypeOK
  <2>3. TypeOK'
    <3>1. /\ attention' \in [Agents -> Details \union {None}]
          /\ logged' \in [Agents -> BOOLEAN]
          /\ failed' \in [Agents -> [DOMAIN Sinks -> BOOLEAN]]
      BY <1>0, <2>2 DEF TypeOK
    <3> QED BY <1>0, <2>2, <3>1 DEF TypeOK, Idle, AtSink
  <2>4. OwnWords'
    BY <1>0, <1>2, <2>2 DEF OwnWords
  <2>5. ASSUME NEW a \in Agents PROVE Behind(a)'
    <3>1. CASE a = s
      <4>1. attention'[s] = detail /\ sender'[s].pc = "sink"
            /\ sender'[s].text = detail /\ sender'[s].sink = 1
            /\ detail # Other
        BY <1>0, <1>2, <2>2, NamesAssumption DEF TypeOK, Idle, AtSink
      <4>2. \A k \in DOMAIN Sinks : ~(k < 1)
        BY SinksFacts
      <4> QED BY <3>1, <4>1, <4>2 DEF Behind
    <3>2. CASE a # s
      <4>1. /\ sender'[a] = sender[a] /\ attention'[a] = attention[a]
            /\ logged'[a] = logged[a]
            /\ \A k \in DOMAIN Sinks : failed'[a][k] = failed[a][k]
        BY <1>0, <2>2, <3>2 DEF TypeOK, Senders
      <4> QED BY <2>2, <4>1 DEF IInv, Behind, Stands
    <3> QED BY <3>1, <3>2
  <2> QED BY <2>3, <2>4, <2>5 DEF IInv
<1> QED BY <1>1, <1>2

LEMMA AlwaysIInv == Spec => []IInv
<1>1. IInv /\ [Next]_vars => IInv'
  <2> SUFFICES ASSUME IInv, [Next]_vars PROVE IInv'
    OBVIOUS
  <2>1. ASSUME NEW s \in Senders, SinkStep(s) PROVE IInv'
    BY <2>1, SinkStepKinds, MovesKeepsIInv, FinishesKeepsIInv DEF IInv
  <2>2. ASSUME NEW s \in Senders, Alert(s) PROVE IInv'
    BY <2>2, SendKeepsIInv
  <2>3. ASSUME NEW a \in Agents, NEW detail \in Details \union {None},
               Attention(a, detail)
        PROVE  IInv'
    BY <2>3, SendKeepsIInv DEF Senders
  <2>4. CASE UNCHANGED vars
    BY <2>4 DEF vars, IInv, TypeOK, OwnWords, Behind, Stands
  <2> QED BY <2>1, <2>2, <2>3, <2>4 DEF Next
<1> QED BY InitIInv, <1>1, PTL DEF Spec

----------------------------------------------------------------------------
(* The theorems *)

\* Every variable keeps its type, and no direct message is posted for a user
\* who is not there.
THEOREM AlertsTypeCorrect == Spec => []TypeOK
<1>1. IInv => TypeOK
  BY DEF IInv
<1> QED BY <1>1, AlwaysIInv, PTL

\* The last word of every sink stands, or that sink failed and it was logged.
THEOREM LastWordsStand == Spec => []LastWordStands
<1>1. IInv => LastWordStands
  BY DEF IInv, Behind, Stands, LastWordStands
<1> QED BY <1>1, AlwaysIInv, PTL
=============================================================================
