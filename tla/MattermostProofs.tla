-------------------------- MODULE MattermostProofs --------------------------
(***************************************************************************)
(* Theorems about Mattermost, for any alert entries, bots, policies and    *)
(* bounds.                                                                 *)
(***************************************************************************)
EXTENDS Mattermost, TLAPS

----------------------------------------------------------------------------
(* The clients: the inductive invariant *)

\* Only a started client has a goroutine and a websocket.
OnlyClients ==
    \A e \in Entries \ clients : listener[e] = "none" /\ ws[e] = NoSocket

\* A bot has one client.
OneClient == \A c, d \in clients : bot[c] = bot[d] => c = d

\* What the goroutine's place says of its websocket, and what Stop's return
\* says of the goroutine.
Places ==
    \A e \in Entries :
        /\ listener[e] = "handling" => ws[e].inbox # <<>>
        /\ listener[e] = "dialing" => ws[e].dials < MaxDials
        /\ stop[e] = "returned" => listener[e] = "done"

\* The process is through only with every Stop.
Exited == main = "exited" => \A c \in clients : stop[c] = "returned"

CInv == TypeOK /\ OnlyClients /\ OneClient /\ Places /\ Exited

LEMMA NoSocketIsSocket == NoSocket \in Sockets
BY BoundsAssumption DEF NoSocket, Sockets

\* The first of a sequence, and the rest.
LEMMA HeadAndTail ==
    ASSUME NEW S, NEW q \in Seq(S), q # <<>>
    PROVE  /\ Head(q) \in S /\ Head(q) = q[1] /\ 1 \in 1..Len(q)
           /\ Tail(q) \in Seq(S) /\ Len(Tail(q)) = Len(q) - 1
           /\ \A i \in 1..Len(Tail(q)) : Tail(q)[i] = q[i + 1]
OBVIOUS

\* The posts of an inbox are numbers of posts.
LEMMA InboxElements ==
    ASSUME NEW q \in Seq(1..MaxPosts)
    PROVE  \A i \in 1..Len(q) : q[i] \in 1..MaxPosts /\ q[i] \in Nat
<1>1. ASSUME NEW S, NEW r \in Seq(S) PROVE \A i \in 1..Len(r) : r[i] \in S
  OBVIOUS
<1>2. \A i \in 1..Len(q) : q[i] \in 1..MaxPosts
  BY <1>1
<1>3. 1..MaxPosts \subseteq Nat
  BY BoundsAssumption
<1> QED BY <1>2, <1>3

\* A websocket, its parts, and what can become of it.
LEMMA SocketFacts ==
    ASSUME TypeOK, NEW e \in Entries
    PROVE  /\ ws[e] \in Sockets
           /\ ws[e].state \in {"nil", "open", "broken", "closed"}
           /\ ws[e].inbox \in Seq(1..MaxPosts)
           /\ ws[e].dials \in 0..MaxDials
BY DEF TypeOK, Sockets

LEMMA InitCInv == Init => CInv
<1> SUFFICES ASSUME Init PROVE CInv
  OBVIOUS
<1>1. /\ ws \in [Entries -> Sockets] /\ runs \in [Bots -> [1..MaxPosts -> Nat]]
      /\ \A e \in Entries : ws[e] = NoSocket /\ ws[e].state = "nil"
  BY NoSocketIsSocket DEF Init, NoSocket
<1>2. posts \in 0..MaxPosts
  BY BoundsAssumption DEF Init
<1>3. TypeOK
  BY <1>1, <1>2 DEF Init, TypeOK, Stops, Listeners
<1>4. OnlyClients /\ OneClient /\ Places /\ Exited
  BY <1>1 DEF Init, OnlyClients, OneClient, Places, Exited
<1> QED BY <1>3, <1>4 DEF CInv

\* A client goes to another place, with another websocket or the same.
MovesTo(e, place, socket) ==
    /\ listener' = [listener EXCEPT ![e] = place]
    /\ ws' = [ws EXCEPT ![e] = socket]
    /\ place \in {"none", "retry", "waiting", "dialing"} => socket.state = "nil"
    /\ place = "handling" => socket.inbox # <<>>
    /\ place = "dialing" => socket.dials < MaxDials

LEMMA MoveKeepsCInv ==
    ASSUME CInv, NEW e \in clients,
           NEW place \in Listeners, NEW socket \in Sockets,
           MovesTo(e, place, socket),
           UNCHANGED <<config, process, stop, posts>>,
           runs' \in [Bots -> [1..MaxPosts -> Nat]],
           stop[e] = "returned" => place = "done"
    PROVE  CInv'
<1>1. /\ e \in Entries /\ listener'[e] = place /\ ws'[e] = socket
      /\ \A f \in Entries \ {e} : listener'[f] = listener[f] /\ ws'[f] = ws[f]
      /\ listener' \in [Entries -> Listeners] /\ ws' \in [Entries -> Sockets]
  BY DEF CInv, TypeOK, MovesTo
<1>2. UNCHANGED <<bot, ingress, main, built, clients, stop, posts>>
  BY DEF config, process
<1>3. TypeOK'
  BY <1>1, <1>2 DEF CInv, TypeOK, MovesTo
<1>4. OnlyClients' /\ OneClient' /\ Exited'
  BY <1>1, <1>2 DEF CInv, OnlyClients, OneClient, Exited
<1>5. Places'
  BY <1>1, <1>2 DEF CInv, Places, MovesTo
<1> QED BY <1>3, <1>4, <1>5 DEF CInv

\* The steps of a listen goroutine are such moves.
LEMMA ListenKeepsCInv ==
    ASSUME CInv, NEW e \in Entries, ListenStep(e) PROVE CInv'
<1>0. /\ TypeOK /\ ws[e] \in Sockets /\ UNCHANGED <<config, process, stop, posts>>
      /\ listener[e] \notin {"none", "done"}
  BY SocketFacts
  DEF CInv, ListenStep, Loop, Read, ReadFails, Runs, Ignores, Retry, BackoffEnds,
      BackoffStopped, Connects, DialFails
<1>1. e \in clients /\ stop[e] # "returned"
  BY <1>0 DEF CInv, OnlyClients, Places
<1>2. runs' \in [Bots -> [1..MaxPosts -> Nat]]
  <2>1. CASE Runs(e)
    <3> DEFINE post == Head(ws[e].inbox)
    <3>1. ws[e].inbox # <<>> /\ ws[e].inbox \in Seq(1..MaxPosts)
      BY <1>0, <2>1, SocketFacts DEF Runs, CInv, Places
    <3>2. post \in 1..MaxPosts /\ bot[e] \in Bots
      BY <1>0, <3>1, HeadAndTail DEF TypeOK
    <3> DEFINE known == runs[bot[e]]
               ran   == [known EXCEPT ![post] = known[post] + 1]
    <3>3. runs' = [runs EXCEPT ![bot[e]] = ran]
      BY <2>1 DEF Runs
    <3>4. known \in [1..MaxPosts -> Nat]
      BY <1>0, <3>2 DEF TypeOK
    <3>5. ran \in [1..MaxPosts -> Nat]
      <4> HIDE DEF post, known
      <4>1. known[post] + 1 \in Nat
        BY <3>2, <3>4
      <4> QED BY <3>4, <4>1
    <3> HIDE DEF ran
    <3> QED BY <1>0, <3>2, <3>3, <3>5 DEF TypeOK
  <2>2. CASE runs' = runs
    BY <1>0, <2>2 DEF TypeOK
  <2> QED
    BY <2>1, <2>2
    DEF ListenStep, Loop, Read, ReadFails, Ignores, Retry, BackoffEnds,
        BackoffStopped, Connects, DialFails
<1>3. \E place \in Listeners, socket \in Sockets : MovesTo(e, place, socket)
  <2>0. ws = [ws EXCEPT ![e] = ws[e]]
    BY <1>0 DEF TypeOK
  <2>1. CASE Loop(e)
    <3>1. MovesTo(e, "done", ws[e]) \/ MovesTo(e, "reading", ws[e])
      BY <2>0, <2>1 DEF Loop, Go, MovesTo
    <3> QED BY <1>0, <3>1 DEF Listeners
  <2>2. CASE Read(e)
    <3>1. MovesTo(e, "handling", ws[e])
      BY <2>0, <2>2 DEF Read, Go, MovesTo
    <3> QED BY <1>0, <3>1 DEF Listeners
  <2>3. CASE ReadFails(e)
    <3> DEFINE socket == [NoSocket EXCEPT !.dials = ws[e].dials]
    <3>0. ws[e].dials \in 0..MaxDials
      BY <1>0, SocketFacts
    <3>1. socket \in Sockets /\ socket.state = "nil"
      <4> DEFINE dials == ws[e].dials
      <4> HIDE DEF dials
      <4>1. [NoSocket EXCEPT !.dials = dials]
              = [state |-> "nil", inbox |-> <<>>, dials |-> dials]
        BY DEF NoSocket
      <4>2. [state |-> "nil", inbox |-> <<>>, dials |-> dials] \in Sockets
        BY <3>0 DEF Sockets, dials
      <4> QED BY <4>1, <4>2 DEF dials
    <3>2. \/ listener' = [listener EXCEPT ![e] = "done"] /\ ws' = ws
          \/ listener' = [listener EXCEPT ![e] = "retry"] /\ ws' = [ws EXCEPT ![e] = socket]
      BY <2>3 DEF ReadFails, Go
    <3> HIDE DEF socket
    <3>3. MovesTo(e, "done", ws[e]) \/ MovesTo(e, "retry", socket)
      BY <2>0, <3>1, <3>2 DEF MovesTo
    <3> QED BY <1>0, <3>1, <3>3 DEF Listeners
  <2>4. CASE Runs(e) \/ Ignores(e)
    <3> DEFINE socket == [ws[e] EXCEPT !.inbox = Tail(ws[e].inbox)]
    <3>1. ws[e].inbox # <<>> /\ ws[e].inbox \in Seq(1..MaxPosts)
      BY <1>0, <2>4, SocketFacts DEF Runs, Ignores, CInv, Places
    <3>2. Tail(ws[e].inbox) \in Seq(1..MaxPosts)
      BY <3>1, HeadAndTail
    <3>3. socket \in Sockets
      BY <1>0, <3>2 DEF Sockets
    <3>4. listener' = [listener EXCEPT ![e] = "loop"] /\ ws' = [ws EXCEPT ![e] = socket]
      BY <2>4 DEF Runs, Ignores, Go
    <3> HIDE DEF socket
    <3>5. MovesTo(e, "loop", socket)
      BY <3>4 DEF MovesTo
    <3> QED BY <3>3, <3>5 DEF Listeners
  <2>5. CASE Retry(e) \/ BackoffEnds(e) \/ BackoffStopped(e) \/ DialFails(e)
    <3>1. ws[e].state = "nil"
      BY <1>0, <2>5 DEF TypeOK, Retry, BackoffEnds, BackoffStopped, DialFails
    <3>2. \/ MovesTo(e, "done", ws[e]) \/ MovesTo(e, "waiting", ws[e])
          \/ MovesTo(e, "dialing", ws[e]) \/ MovesTo(e, "retry", ws[e])
      BY <2>0, <2>5, <3>1
      DEF Retry, BackoffEnds, BackoffStopped, DialFails, Go, MovesTo
    <3> QED BY <1>0, <3>2 DEF Listeners
  <2>6. CASE Connects(e)
    <3> DEFINE socket == [state |-> "open", inbox |-> <<>>, dials |-> ws[e].dials + 1]
    <3>1. ws[e].dials < MaxDials /\ ws[e].dials \in 0..MaxDials
      BY <1>0, <2>6, SocketFacts DEF Connects, CInv, Places
    <3>2. ws[e].dials + 1 \in 0..MaxDials
      BY <3>1, BoundsAssumption
    <3>3. socket \in Sockets
      BY <3>2 DEF Sockets
    <3>4. listener' = [listener EXCEPT ![e] = "loop"] /\ ws' = [ws EXCEPT ![e] = socket]
      BY <2>6 DEF Connects, NewSocket, Go
    <3> HIDE DEF socket
    <3>5. MovesTo(e, "loop", socket)
      BY <3>4 DEF MovesTo
    <3> QED BY <3>3, <3>5 DEF Listeners
  <2> QED BY <2>1, <2>2, <2>3, <2>4, <2>5, <2>6 DEF ListenStep
<1> QED BY <1>0, <1>1, <1>2, <1>3, MoveKeepsCInv

\* An entry that is built: the client that starts is its bot's only one.
LEMMA BuildKeepsCInv ==
    ASSUME CInv, NEW e \in Entries, BuildStep(e) PROVE CInv'
<1>1. CASE Shares(e)
  BY <1>1
  DEF CInv, Shares, TypeOK, OnlyClients, OneClient, Places, Exited, config
<1>2. CASE Fails(e)
  BY <1>2
  DEF CInv, Fails, TypeOK, OnlyClients, OneClient, Places, Exited, config
<1>3. CASE Starts(e)
  <2> DEFINE socket == [state |-> "open", inbox |-> <<>>, dials |-> ws[e].dials + 1]
  <2>0. /\ TypeOK /\ e \notin clients /\ main = "building" /\ main' = main
        /\ clients' = clients \union {e} /\ built' = built \union {e}
        /\ UNCHANGED <<bot, ingress, stop, posts, runs>>
        /\ Sharing(e) = {}
    BY <1>3 DEF CInv, Starts, TypeOK, config
  <2>1. listener[e] = "none" /\ ws[e] = NoSocket
    BY <2>0 DEF CInv, OnlyClients
  <2>2. ws[e].dials = 0 /\ 1 \in 0..MaxDials
    BY <2>1, BoundsAssumption DEF NoSocket
  <2>3. socket \in Sockets
    BY <2>2 DEF Sockets
  <2>4. ws' = [ws EXCEPT ![e] = socket] /\ listener' = [listener EXCEPT ![e] = "loop"]
    BY <1>3 DEF Starts, NewSocket, Go
  <2>5. /\ ws'[e] = socket /\ listener'[e] = "loop"
        /\ ws' \in [Entries -> Sockets] /\ listener' \in [Entries -> Listeners]
        /\ \A f \in Entries \ {e} : listener'[f] = listener[f] /\ ws'[f] = ws[f]
    <3> HIDE DEF socket
    <3> QED BY <2>0, <2>3, <2>4 DEF TypeOK, Listeners
  <2> HIDE DEF socket
  <2>6. TypeOK'
    BY <2>0, <2>5 DEF TypeOK
  <2>7. OneClient'
    BY <2>0 DEF CInv, OneClient, Sharing
  <2>8. OnlyClients' /\ Exited'
    BY <2>0, <2>5 DEF CInv, OnlyClients, Exited
  <2>9. Places'
    BY <2>0, <2>1, <2>5 DEF CInv, Places
  <2> QED BY <2>6, <2>7, <2>8, <2>9 DEF CInv
<1> QED BY <1>1, <1>2, <1>3 DEF BuildStep

\* A websocket changes under the goroutine: it breaks, or Stop closes it.
LEMMA SocketKeepsCInv ==
    ASSUME CInv, NEW e \in Entries, StopClosesSocket(e) \/ Breaks(e)
    PROVE  CInv'
<1>0. TypeOK /\ ws[e] \in Sockets
  BY SocketFacts DEF CInv
<1>1. PICK state \in {"nil", "open", "broken", "closed"} :
         /\ ws' = [ws EXCEPT ![e] = [ws[e] EXCEPT !.state = state]]
         /\ state = "nil" <=> ws[e].state = "nil"
         /\ ws[e].state = "nil" \/ e \in clients
  <2>1. CASE StopClosesSocket(e)
    <3>1. ws[e].state # "nil" => e \in clients
      BY <1>0 DEF CInv, OnlyClients, NoSocket
    <3>2. CASE ws[e].state = "nil"
      <4>1. ws = [ws EXCEPT ![e] = [ws[e] EXCEPT !.state = ws[e].state]]
        <5>1. [ws[e] EXCEPT !.state = ws[e].state] = ws[e]
          BY <1>0 DEF Sockets
        <5> QED BY <1>0, <5>1 DEF TypeOK
      <4> QED BY <2>1, <3>2, <4>1 DEF StopClosesSocket
    <3>3. CASE ws[e].state # "nil"
      BY <2>1, <3>1, <3>3 DEF StopClosesSocket
    <3> QED BY <3>2, <3>3
  <2>2. CASE Breaks(e)
    <3>1. e \in clients
      BY <2>2 DEF Breaks, CInv, OnlyClients, NoSocket
    <3> QED BY <2>2, <3>1 DEF Breaks
  <2> QED BY <2>1, <2>2
<1> DEFINE socket == [ws[e] EXCEPT !.state = state]
<1>2. /\ socket \in Sockets /\ socket.inbox = ws[e].inbox
      /\ socket.dials = ws[e].dials /\ socket.state = state
      /\ ws[e].state = "nil" => socket = ws[e]
  BY <1>0, <1>1 DEF Sockets
<1> HIDE DEF socket
<1>3. /\ ws'[e] = socket /\ ws' \in [Entries -> Sockets]
      /\ \A f \in Entries \ {e} : ws'[f] = ws[f]
  BY <1>0, <1>1, <1>2 DEF TypeOK, socket
<1>4. /\ UNCHANGED <<bot, ingress, main, built, clients, listener, posts, runs>>
      /\ stop' \in [Entries -> Stops]
      /\ \A f \in Entries : stop'[f] = "returned" => stop[f] = "returned"
      /\ \A f \in Entries : stop[f] = "returned" => stop'[f] = "returned"
  BY <1>0 DEF StopClosesSocket, Breaks, TypeOK, Stops, config, process
<1>5. TypeOK'
  BY <1>0, <1>1, <1>2, <1>3, <1>4 DEF TypeOK
<1>6. OnlyClients' /\ OneClient'
  BY <1>1, <1>2, <1>3, <1>4 DEF CInv, OnlyClients, OneClient
<1>7. Places'
  BY <1>2, <1>3, <1>4 DEF CInv, Places
<1>8. Exited'
  BY <1>0, <1>4 DEF CInv, Exited, TypeOK
<1> QED BY <1>5, <1>6, <1>7, <1>8 DEF CInv

\* A command arrives on every open websocket.
LEMMA PostKeepsCInv == ASSUME CInv, UserPosts PROVE CInv'
<1>0. /\ TypeOK /\ posts' = posts + 1 /\ posts' \in 1..MaxPosts
      /\ UNCHANGED <<bot, ingress, main, built, clients, stop, listener, runs>>
  BY BoundsAssumption DEF CInv, UserPosts, TypeOK, config, process
<1>1. ASSUME NEW e \in Entries
      PROVE  /\ ws'[e] \in Sockets /\ ws'[e].state = ws[e].state
             /\ ws'[e].dials = ws[e].dials
             /\ ws[e].inbox # <<>> => ws'[e].inbox # <<>>
             /\ ws[e].state = "nil" => ws'[e] = ws[e]
  <2>1. CASE ws[e].state = "open"
    <3>1. ws'[e] = [ws[e] EXCEPT !.inbox = Append(ws[e].inbox, posts + 1)]
      BY <2>1 DEF UserPosts
    <3>2. ws[e] \in Sockets /\ ws[e].inbox \in Seq(1..MaxPosts)
      BY <1>0, SocketFacts
    <3>3. /\ Append(ws[e].inbox, posts + 1) \in Seq(1..MaxPosts)
          /\ Append(ws[e].inbox, posts + 1) # <<>>
      BY <1>0, <3>2
    <3> QED BY <2>1, <3>1, <3>2, <3>3 DEF Sockets
  <2>2. CASE ws[e].state # "open"
    BY <1>0, <2>2, SocketFacts DEF UserPosts
  <2> QED BY <2>1, <2>2
<1>2. ws' \in [Entries -> Sockets]
  <2>1. ws' = [e \in Entries |-> ws'[e]]
    BY DEF UserPosts
  <2> QED BY <1>1, <2>1
<1>3. TypeOK'
  BY <1>0, <1>1, <1>2 DEF TypeOK
<1>4. OnlyClients' /\ OneClient' /\ Exited'
  BY <1>0, <1>1 DEF CInv, OnlyClients, OneClient, Exited, NoSocket
<1>5. Places'
  BY <1>0, <1>1 DEF CInv, Places
<1> QED BY <1>3, <1>4, <1>5 DEF CInv

LEMMA NextCInv == CInv /\ [Next]_vars => CInv'
<1> SUFFICES ASSUME CInv, [Next]_vars PROVE CInv'
  OBVIOUS
<1>1. ASSUME NEW e \in Entries, StopCloses(e) \/ StopReturns(e) PROVE CInv'
  <2>1. /\ UNCHANGED <<bot, ingress, main, built, clients, listener, ws, posts, runs>>
        /\ stop' \in [Entries -> Stops]
        /\ \A f \in Entries \ {e} : stop'[f] = stop[f]
        /\ \/ main # "exited" /\ stop'[e] = "closed"
           \/ listener[e] = "done" /\ stop'[e] = "returned"
    BY <1>1 DEF CInv, StopCloses, StopReturns, TypeOK, Stops, config, process
  <2>2. TypeOK'
    BY <2>1 DEF CInv, TypeOK
  <2>3. OnlyClients' /\ OneClient'
    BY <2>1 DEF CInv, OnlyClients, OneClient
  <2>4. Places'
    BY <2>1 DEF CInv, Places
  <2>5. Exited'
    BY <2>1 DEF CInv, Exited, TypeOK
  <2> QED BY <2>2, <2>3, <2>4, <2>5 DEF CInv
<1>2. CASE AllBuilt \/ Shutdown \/ Exit
  BY <1>2
  DEF CInv, AllBuilt, Shutdown, Exit, TypeOK, OnlyClients, OneClient, Places, Exited,
      config
<1>3. CASE UNCHANGED vars
  BY <1>3 DEF CInv, TypeOK, OnlyClients, OneClient, Places, Exited, vars
<1> QED
  BY <1>1, <1>2, <1>3, ListenKeepsCInv, BuildKeepsCInv, SocketKeepsCInv, PostKeepsCInv
  DEF Next, StopStep

LEMMA AlwaysCInv == Spec => []CInv
BY InitCInv, NextCInv, PTL DEF Spec

\* Every variable keeps its type, and a client without a websocket is not
\* listening.
THEOREM MattermostTypeCorrect == Spec => []TypeOK
<1>1. CInv => TypeOK
  BY DEF CInv
<1> QED BY <1>1, AlwaysCInv, PTL

\* Nothing listens once the process is through with its clients.
THEOREM NothingListens == Spec => []NobodyListensAfterExit
<1>1. CInv => NobodyListensAfterExit
  BY DEF CInv, OnlyClients, Places, Exited, NobodyListensAfterExit
<1> QED BY <1>1, AlwaysCInv, PTL

----------------------------------------------------------------------------
(* The commands *)

\* What waits on a websocket was posted, in this order, and its bot has not
\* run it.
Unheard(e) ==
    \A i \in 1..Len(ws[e].inbox) :
        /\ ws[e].inbox[i] <= posts
        /\ runs[bot[e]][ws[e].inbox[i]] = 0
        /\ \A j \in 1..(i - 1) : ws[e].inbox[j] < ws[e].inbox[i]

\* No command ran before it was posted, and none ran twice.
Posted ==
    \A b \in Bots : \A p \in 1..MaxPosts :
        runs[b][p] <= 1 /\ (p > posts => runs[b][p] = 0)

RInv == Posted /\ \A e \in Entries : Unheard(e)

LEMMA InitRInv == Init => RInv
BY DEF Init, RInv, Posted, Unheard, NoSocket

\* A step that runs and posts nothing: an inbox stays, is lost, or loses its
\* first post.
LEMMA QuietKeepsRInv ==
    ASSUME TypeOK, RInv, UNCHANGED <<bot, posts, runs>>,
           \A e \in Entries :
              \/ ws'[e].inbox = ws[e].inbox
              \/ ws'[e].inbox = <<>>
              \/ ws[e].inbox # <<>> /\ ws'[e].inbox = Tail(ws[e].inbox)
    PROVE  RInv'
<1>1. ASSUME NEW e \in Entries PROVE Unheard(e)'
  <2>1. Unheard(e) /\ ws[e].inbox \in Seq(1..MaxPosts)
    BY SocketFacts DEF RInv
  <2>2. CASE ws'[e].inbox = ws[e].inbox
    BY <2>1, <2>2 DEF Unheard
  <2>3. CASE ws'[e].inbox = <<>>
    BY <2>3 DEF Unheard
  <2>4. CASE ws[e].inbox # <<>> /\ ws'[e].inbox = Tail(ws[e].inbox)
    BY <2>1, <2>4, HeadAndTail DEF Unheard
  <2> QED BY <2>2, <2>3, <2>4
<1>2. Posted'
  BY DEF RInv, Posted
<1> QED BY <1>1, <1>2 DEF RInv

\* The bot's only client takes the first post of its inbox and runs it.
LEMMA RunKeepsRInv ==
    ASSUME CInv, RInv, NEW e \in Entries, Runs(e) PROVE RInv'
<1> DEFINE inbox == ws[e].inbox
           post  == Head(inbox)
<1>0. /\ TypeOK /\ UNCHANGED <<bot, posts>> /\ e \in clients /\ bot[e] \in Bots
  BY DEF CInv, Runs, OnlyClients, TypeOK, config
<1>1. inbox # <<>> /\ inbox \in Seq(1..MaxPosts) /\ ws[e] \in Sockets
  BY SocketFacts DEF CInv, Runs, Places
<1>2. /\ post = inbox[1] /\ 1 \in 1..Len(inbox) /\ post \in 1..MaxPosts
      /\ Len(Tail(inbox)) = Len(inbox) - 1 /\ Len(inbox) \in Nat
      /\ \A i \in 1..Len(Tail(inbox)) : Tail(inbox)[i] = inbox[i + 1]
  <2> HIDE DEF inbox
  <2>1. /\ Head(inbox) \in 1..MaxPosts /\ Head(inbox) = inbox[1] /\ 1 \in 1..Len(inbox)
        /\ Len(Tail(inbox)) = Len(inbox) - 1
        /\ \A i \in 1..Len(Tail(inbox)) : Tail(inbox)[i] = inbox[i + 1]
    BY <1>1, HeadAndTail
  <2>2. Len(inbox) \in Nat
    BY <1>1
  <2> QED BY <2>1, <2>2
<1>3. post <= posts /\ runs[bot[e]][post] = 0
  BY <1>2 DEF RInv, Unheard
<1>4. /\ ws'[e].inbox = Tail(inbox)
      /\ \A f \in Entries \ {e} : ws'[f] = ws[f]
  BY <1>0, <1>1 DEF Runs, TypeOK, Sockets
<1>5. /\ runs'[bot[e]][post] = 1
      /\ \A b \in Bots : \A p \in 1..MaxPosts :
            b # bot[e] \/ p # post => runs'[b][p] = runs[b][p]
  <2> DEFINE known == runs[bot[e]]
             ran   == [known EXCEPT ![post] = known[post] + 1]
  <2>1. runs' = [runs EXCEPT ![bot[e]] = ran]
    BY DEF Runs
  <2>2. known \in [1..MaxPosts -> Nat] /\ known[post] = 0
    BY <1>0, <1>3 DEF TypeOK
  <2>3. /\ ran[post] = 1
        /\ \A p \in 1..MaxPosts : p # post => ran[p] = known[p]
    <3> HIDE DEF post, known
    <3> QED BY <1>2, <2>2
  <2>4. runs'[bot[e]] = ran /\ \A b \in Bots : b # bot[e] => runs'[b] = runs[b]
    <3> HIDE DEF ran
    <3> QED BY <1>0, <2>1 DEF TypeOK
  <2> HIDE DEF ran
  <2> QED BY <2>3, <2>4
<1> HIDE DEF post
<1>6. Posted'
  <2>1. ASSUME NEW b \in Bots, NEW p \in 1..MaxPosts
        PROVE  runs'[b][p] <= 1 /\ (p > posts => runs'[b][p] = 0)
    <3>1. CASE b = bot[e] /\ p = post
      <4>1. ~(p > posts) /\ runs'[b][p] = 1
        BY <1>0, <1>2, <1>3, <1>5, <3>1 DEF TypeOK
      <4> QED BY <4>1
    <3>2. CASE b # bot[e] \/ p # post
      <4>1. runs'[b][p] = runs[b][p]
        BY <1>5, <3>2
      <4> QED BY <4>1 DEF RInv, Posted
    <3> QED BY <3>1, <3>2
  <2> QED BY <1>0, <2>1 DEF Posted
<1>7. Unheard(e)'
  <2>1. ASSUME NEW i \in 1..Len(Tail(inbox))
        PROVE  /\ Tail(inbox)[i] <= posts
               /\ runs'[bot[e]][Tail(inbox)[i]] = 0
               /\ \A j \in 1..(i - 1) : Tail(inbox)[j] < Tail(inbox)[i]
    <3>1. /\ i + 1 \in 1..Len(inbox) /\ Tail(inbox)[i] = inbox[i + 1]
          /\ inbox[i + 1] \in 1..MaxPosts
      <4> HIDE DEF inbox
      <4>1. i + 1 \in 1..Len(inbox) /\ Tail(inbox)[i] = inbox[i + 1]
        BY <1>2
      <4>2. \A k \in 1..Len(inbox) : inbox[k] \in 1..MaxPosts
        BY <1>1, InboxElements
      <4> QED BY <4>1, <4>2
    <3>2. /\ inbox[i + 1] <= posts /\ runs[bot[e]][inbox[i + 1]] = 0
          /\ \A j \in 1..i : inbox[j] < inbox[i + 1]
      BY <3>1 DEF RInv, Unheard
    <3>3. inbox[i + 1] # post
      <4> HIDE DEF inbox
      <4> QED BY <1>1, <1>2, <3>1, <3>2
    <3>4. \A j \in 1..(i - 1) : Tail(inbox)[j] < Tail(inbox)[i]
      <4> HIDE DEF inbox
      <4> QED BY <1>2, <3>1, <3>2
    <3> QED BY <1>0, <1>5, <3>1, <3>2, <3>3, <3>4
  <2> QED BY <1>0, <1>4, <2>1 DEF Unheard
<1>8. ASSUME NEW f \in Entries, f # e PROVE Unheard(f)'
  <2>1. CASE f \in clients
    <3>1. bot[f] # bot[e] /\ bot[f] \in Bots
      BY <1>0, <1>8, <2>1 DEF CInv, OneClient, TypeOK
    <3>2. /\ Unheard(f) /\ ws'[f] = ws[f] /\ ws[f].inbox \in Seq(1..MaxPosts)
      BY <1>0, <1>4, <1>8, SocketFacts DEF RInv
    <3>3. \A i \in 1..Len(ws[f].inbox) :
             runs'[bot[f]][ws[f].inbox[i]] = runs[bot[f]][ws[f].inbox[i]]
      <4>1. \A i \in 1..Len(ws[f].inbox) : ws[f].inbox[i] \in 1..MaxPosts
        BY <3>2, InboxElements
      <4> QED BY <1>5, <3>1, <4>1
    <3> QED BY <1>0, <3>2, <3>3 DEF Unheard
  <2>2. CASE f \notin clients
    <3>1. ws'[f].inbox = <<>>
      BY <1>4, <1>8, <2>2 DEF CInv, OnlyClients, NoSocket
    <3> QED BY <3>1 DEF Unheard
  <2> QED BY <2>1, <2>2
<1> QED BY <1>6, <1>7, <1>8 DEF RInv

\* A command that is posted is larger than those that wait.
LEMMA PostKeepsRInv == ASSUME CInv, RInv, UserPosts PROVE RInv'
<1>0. /\ TypeOK /\ posts \in Nat /\ posts' = posts + 1 /\ posts + 1 \in 1..MaxPosts
      /\ UNCHANGED <<bot, runs>>
  BY BoundsAssumption DEF CInv, UserPosts, TypeOK, config
<1>1. Posted'
  BY <1>0 DEF RInv, Posted
<1>2. ASSUME NEW e \in Entries PROVE Unheard(e)'
  <2> DEFINE inbox == ws[e].inbox
  <2>1. /\ Unheard(e) /\ inbox \in Seq(1..MaxPosts) /\ ws[e] \in Sockets
        /\ bot[e] \in Bots /\ runs[bot[e]][posts + 1] = 0
    BY <1>0, SocketFacts DEF RInv, Posted, TypeOK
  <2>2. CASE ws[e].state = "open"
    <3>1. ws'[e].inbox = Append(inbox, posts + 1)
      <4>1. ws'[e] = [ws[e] EXCEPT !.inbox = Append(inbox, posts + 1)]
        BY <2>2 DEF UserPosts
      <4> QED BY <2>1, <4>1 DEF Sockets
    <3>2. /\ Len(Append(inbox, posts + 1)) = Len(inbox) + 1
          /\ Append(inbox, posts + 1)[Len(inbox) + 1] = posts + 1
          /\ \A i \in 1..Len(inbox) :
                Append(inbox, posts + 1)[i] = inbox[i] /\ inbox[i] \in Nat
      <4> HIDE DEF inbox
      <4>1. \A i \in 1..Len(inbox) : inbox[i] \in 1..MaxPosts /\ inbox[i] \in Nat
        BY <2>1, InboxElements
      <4>2. /\ Len(Append(inbox, posts + 1)) = Len(inbox) + 1
            /\ Append(inbox, posts + 1)[Len(inbox) + 1] = posts + 1
            /\ \A i \in 1..Len(inbox) : Append(inbox, posts + 1)[i] = inbox[i]
        BY <1>0, <2>1
      <4> QED BY <4>1, <4>2
    <3>3. \A i \in 1..Len(inbox) :
             /\ inbox[i] <= posts /\ runs[bot[e]][inbox[i]] = 0
             /\ \A j \in 1..(i - 1) : inbox[j] < inbox[i]
      BY <2>1 DEF Unheard
    <3>4. \A i \in 1..Len(ws'[e].inbox) :
             /\ ws'[e].inbox[i] <= posts + 1
             /\ runs[bot[e]][ws'[e].inbox[i]] = 0
             /\ \A j \in 1..(i - 1) : ws'[e].inbox[j] < ws'[e].inbox[i]
      <4>1. Len(inbox) \in Nat
        BY <2>1
      <4> HIDE DEF inbox
      <4> QED BY <1>0, <2>1, <3>1, <3>2, <3>3, <4>1
    <3> QED BY <1>0, <3>4 DEF Unheard
  <2>3. CASE ws[e].state # "open"
    <3>1. ws'[e] = ws[e]
      BY <2>3 DEF UserPosts
    <3>2. \A i \in 1..Len(inbox) : inbox[i] \in Nat
      <4> HIDE DEF inbox
      <4> QED BY <2>1, InboxElements
    <3> QED BY <1>0, <2>1, <3>1, <3>2 DEF Unheard
  <2> QED BY <2>2, <2>3
<1> QED BY <1>1, <1>2 DEF RInv

LEMMA NextRInv == CInv /\ RInv /\ [Next]_vars => RInv'
<1> SUFFICES ASSUME CInv, RInv, [Next]_vars PROVE RInv'
  OBVIOUS
<1>0. TypeOK /\ \A e \in Entries : ws[e] \in Sockets
  BY SocketFacts DEF CInv
<1>1. ASSUME NEW e \in Entries, BuildStep(e) PROVE RInv'
  <2>1. UNCHANGED <<bot, posts, runs>>
    BY <1>1 DEF BuildStep, Shares, Starts, Fails, config
  <2>2. \A f \in Entries : ws'[f].inbox \in {ws[f].inbox, <<>>}
    BY <1>0, <1>1 DEF BuildStep, Shares, Starts, Fails, NewSocket, TypeOK
  <2> QED BY <1>0, <2>1, <2>2, QuietKeepsRInv
<1>2. ASSUME NEW e \in Entries, StopStep(e) \/ Breaks(e) PROVE RInv'
  <2>1. UNCHANGED <<bot, posts, runs>>
    BY <1>2 DEF StopStep, StopCloses, StopClosesSocket, StopReturns, Breaks, config
  <2>2. \A f \in Entries : ws'[f].inbox = ws[f].inbox
    <3>1. PICK state : \/ ws' = ws
                       \/ ws' = [ws EXCEPT ![e] = [ws[e] EXCEPT !.state = state]]
      BY <1>2 DEF StopStep, StopCloses, StopClosesSocket, StopReturns, Breaks
    <3> DEFINE socket == [ws[e] EXCEPT !.state = state]
    <3>2. socket.inbox = ws[e].inbox
      BY <1>0 DEF Sockets
    <3> HIDE DEF socket
    <3>3. ws' = ws \/ ws' = [ws EXCEPT ![e] = socket]
      BY <3>1 DEF socket
    <3> QED BY <1>0, <3>2, <3>3 DEF TypeOK
  <2> QED BY <1>0, <2>1, <2>2, QuietKeepsRInv
<1>3. ASSUME NEW e \in Entries, ListenStep(e), ~Runs(e) PROVE RInv'
  <2>1. UNCHANGED <<bot, posts, runs>>
    BY <1>3
    DEF ListenStep, Loop, Read, ReadFails, Ignores, Retry, BackoffEnds,
        BackoffStopped, Connects, DialFails, config
  <2>2. CASE Ignores(e)
    <3>1. ws[e].inbox # <<>>
      BY <2>2 DEF CInv, Places, Ignores
    <3>2. \A f \in Entries :
             ws'[f].inbox = IF f = e THEN Tail(ws[e].inbox) ELSE ws[f].inbox
      BY <1>0, <2>2 DEF Ignores, TypeOK, Sockets
    <3> QED BY <1>0, <2>1, <3>1, <3>2, QuietKeepsRInv
  <2>3. CASE ~Ignores(e)
    <3>1. PICK socket : /\ socket.inbox = <<>>
                        /\ ws' = ws \/ ws' = [ws EXCEPT ![e] = socket]
      <4> DEFINE lost == [NoSocket EXCEPT !.dials = ws[e].dials]
                 new  == [state |-> "open", inbox |-> <<>>, dials |-> ws[e].dials + 1]
      <4>1. lost.inbox = <<>> /\ new.inbox = <<>>
        <5>1. new.inbox = <<>>
          OBVIOUS
        <5>2. lost.inbox = <<>>
          BY Zenon DEF NoSocket
        <5> QED BY <5>1, <5>2
      <4>2. \/ ws' = ws
            \/ ws' = [ws EXCEPT ![e] = lost]
            \/ ws' = [ws EXCEPT ![e] = new]
        BY <1>3, <2>3
        DEF ListenStep, Loop, Read, ReadFails, Retry, BackoffEnds, BackoffStopped,
            Connects, DialFails, NewSocket
      <4> HIDE DEF lost, new
      <4> QED BY <4>1, <4>2
    <3>2. \A f \in Entries : ws'[f].inbox \in {ws[f].inbox, <<>>}
      BY <1>0, <3>1 DEF TypeOK
    <3> QED BY <1>0, <2>1, <3>2, QuietKeepsRInv
  <2> QED BY <2>2, <2>3
<1>4. CASE AllBuilt \/ Shutdown \/ Exit \/ UNCHANGED vars
  <2>1. UNCHANGED <<bot, posts, runs, ws>>
    BY <1>4 DEF AllBuilt, Shutdown, Exit, config, vars
  <2> QED BY <1>0, <2>1, QuietKeepsRInv
<1> QED BY <1>1, <1>2, <1>3, <1>4, RunKeepsRInv, PostKeepsRInv DEF Next

\* A bot runs a command at most once: it has one client, a websocket that is
\* replaced takes its unread posts with it, and what is read is not read again.
THEOREM RunsOnce == Spec => []CommandsRunOnce
<1>1. Init => CInv /\ RInv
  BY InitCInv, InitRInv
<1>2. CInv /\ RInv /\ [Next]_vars => (CInv /\ RInv)'
  BY NextCInv, NextRInv
<1>3. CInv /\ RInv => CommandsRunOnce
  BY DEF RInv, Posted, CommandsRunOnce
<1> QED BY <1>1, <1>2, <1>3, PTL DEF Spec
=============================================================================
