------------------------ MODULE ControlPlaneProofs ------------------------
(***************************************************************************)
(* Theorems about ControlPlane, for any number of daemons and callers.     *)
(***************************************************************************)
EXTENDS ControlPlane, TLAPS

----------------------------------------------------------------------------
(* The inductive invariant *)

\* While no start or stop overlaps another, the phase of the one daemon that
\* starts or stops says what stands at the path.
Orderly ==
    /\ \A d, e \in Daemons : d # e => pc[d] \in Settled \/ pc[e] \in Settled
    /\ \A d \in Daemons :
          /\ pc[d] \in Serving \union {"listen"} => file = d
          /\ pc[d] = "dial" => file # Absent
          /\ pc[d] = "remove" => file = Leftover
          /\ pc[d] \in {"bind"} \union Stopping => file = Absent

\* A socket file that names a daemon was bound by it, and the daemon lives:
\* true in every order of starts and stops.
FileIsOwned ==
    \A d \in Daemons : file = d => pc[d] \in Serving \union {"listen"}

IInv ==
    /\ TypeOK
    /\ FileIsOwned
    /\ NoCallCutOff
    /\ ~overlap => Orderly

LEMMA InitIInv == Init => IInv
BY NamesAssumption
DEF Init, IInv, TypeOK, FileIsOwned, NoCallCutOff, Orderly, Phases, Starting,
    Serving, Stopping, Failing, Settled, Absent, Leftover, NoDaemon

----------------------------------------------------------------------------
(* The steps *)

\* What is remembered: a step that leaves no overlap either ends the last
\* daemon, or had none before and begins only beside settled daemons.
LEMMA RememberFacts ==
    ASSUME NEW d \in Daemons, Remember(d), ~overlap', TypeOK'
    PROVE  \/ \A e \in Daemons : pc'[e] = "off"
           \/ /\ ~overlap
              /\ \/ pc[d] \notin Settled \/ pc'[d] \in Settled
                 \/ \A e \in Daemons \ {d} : pc[e] \in Settled
BY DEF Remember, TypeOK

\* What a step of daemon d to phase "to" must do to the file while all the
\* other daemons are settled: leave it as that phase needs it, and as the
\* others do.
Fits(d, to) ==
    /\ to \in Serving \union {"listen"} => file' = d
    /\ to = "dial" => file' # Absent
    /\ to = "remove" => file' = Leftover
    /\ to \in {"bind"} \union Stopping => file' = Absent
    /\ \A e \in Daemons \ {d} : pc[e] \in Serving => file' = e

\* What it must do when it may come in the middle of another's start or stop.
Withdraws(d, to) ==
    \/ file' = file /\ pc[d] \in Serving
    \/ file' = (IF file = d THEN Leftover ELSE file) /\ to = "off"

\* A step of one daemon keeps the invariant when it fits.
LEMMA StepKeepsIInv ==
    ASSUME IInv, NEW d \in Daemons, NEW to \in Phases,
           pc' = [pc EXCEPT ![d] = to], Remember(d),
           file' \in {Absent, Leftover} \union Daemons,
           call' \in [Callers -> {NoDaemon} \union Daemons],
           FileIsOwned', NoCallCutOff',
           Orderly /\ (\A e \in Daemons \ {d} : pc[e] \in Settled) => Fits(d, to),
           pc[d] \in Settled /\ to \in Settled => Withdraws(d, to)
    PROVE  IInv'
<1>1. TypeOK'
  <2>1. overlap' \in BOOLEAN
    BY DEF Remember
  <2> QED BY <2>1 DEF IInv, TypeOK
<1>2. ASSUME ~overlap' PROVE Orderly'
  <2>0. pc'[d] = to /\ \A e \in Daemons \ {d} : pc'[e] = pc[e]
    BY DEF IInv, TypeOK
  <2>1. CASE \A e \in Daemons : pc'[e] = "off"
    BY <2>1 DEF Orderly, Settled, Failing, Serving, Stopping
  <2>2. CASE /\ ~overlap
             /\ \/ pc[d] \notin Settled
                \/ \A e \in Daemons \ {d} : pc[e] \in Settled
    <3>1. Orderly /\ \A e \in Daemons \ {d} : pc[e] \in Settled
      BY <2>2 DEF IInv, Orderly
    <3>2. Fits(d, to)
      BY <3>1
    <3> QED BY <2>0, <3>1, <3>2 DEF Orderly, Fits, Settled, Failing, Serving, Stopping
  <2>3. CASE ~overlap /\ pc[d] \in Settled /\ pc'[d] \in Settled
    <3>1. Orderly /\ FileIsOwned
      BY <2>3 DEF IInv
    <3>2. Withdraws(d, to)
      BY <2>0, <2>3
    <3>3. CASE file' = file /\ pc[d] \in Serving
      BY <2>0, <2>3, <3>1, <3>3 DEF Orderly, Settled, Failing, Serving, Stopping
    <3>4. CASE file' = (IF file = d THEN Leftover ELSE file) /\ to = "off"
      <4>1. d # Absent /\ d # Leftover /\ Absent # Leftover
        BY NamesAssumption DEF Absent, Leftover
      <4>2. \A e \in Daemons \ {d} :
               /\ pc'[e] \in Serving \union {"listen"} => file' = e
               /\ pc'[e] = "dial" => file' # Absent
               /\ pc'[e] = "remove" => file' = Leftover
               /\ pc'[e] \in {"bind"} \union Stopping => file' = Absent
        BY <2>0, <3>1, <3>4, <4>1 DEF Orderly
      <4> QED
        BY <2>0, <3>1, <3>4, <4>2 DEF Orderly, Settled, Failing, Serving, Stopping
    <3> QED BY <3>2, <3>3, <3>4 DEF Withdraws
  <2> QED BY <1>1, <1>2, <2>1, <2>2, <2>3, RememberFacts DEF IInv
<1> QED
  BY <1>1, <1>2 DEF IInv

\* Every step of a daemon's start keeps the invariant.
LEMMA StartKeepsIInv ==
    ASSUME IInv, NEW d \in Daemons, Launch(d) \/ StartStep(d) PROVE IInv'
<1>0. /\ TypeOK /\ \A e \in Daemons : e # Absent /\ e # Leftover
      /\ Absent # Leftover
      /\ file = d => pc[d] \in Serving \union {"listen"}
      /\ FileIsOwned /\ NoCallCutOff
  BY NamesAssumption DEF IInv, FileIsOwned, Absent, Leftover
<1>1. PICK to \in Phases :
         /\ pc' = [pc EXCEPT ![d] = to] /\ Remember(d) /\ call' = call
         /\ pc[d] \notin Serving \union Stopping
         /\ pc[d] # "listen" => file # d
         /\ \/ pc[d] = "off" /\ to = "stat" /\ file' = file
            \/ pc[d] = "stat" /\ to = "bind" /\ file = Absent /\ file' = file
            \/ pc[d] = "stat" /\ to = "dial" /\ file # Absent /\ file' = file
            \/ /\ pc[d] \in {"stat", "dial", "remove", "bind"} /\ to \in Failing
               /\ file' = file
            \/ pc[d] \in Failing /\ to = "off" /\ file' = file
            \/ pc[d] = "dial" /\ to = "remove" /\ ~Answered /\ file' = file
            \/ pc[d] = "remove" /\ to = "bind" /\ file' = Absent
            \/ pc[d] = "bind" /\ to = "listen" /\ file = Absent /\ file' = d
            \/ pc[d] = "listen" /\ to = "build" /\ file' = file
  BY <1>0
  DEF Launch, StartStep, Stat, DialAnswered, DialRefused, Remove, RemoveFails,
      Bind, BindFails, Listen, PathUnusable, GiveUp, Go, Phases, Failing, Starting,
      Serving, Stopping
<1>2. /\ file' \in {Absent, Leftover} \union Daemons
      /\ call' \in [Callers -> {NoDaemon} \union Daemons]
  BY <1>0, <1>1 DEF TypeOK
<1>3. pc'[d] = to /\ \A e \in Daemons \ {d} : pc'[e] = pc[e]
  BY <1>0, <1>1 DEF TypeOK
<1>4. FileIsOwned'
  <2>1. /\ file' \in {file, Absent, d}
        /\ file' = d => to \in {"listen", "build"}
    BY <1>0, <1>1 DEF Serving, Stopping, Failing
  <2> QED BY <1>0, <1>3, <2>1 DEF FileIsOwned, Serving
<1>5. NoCallCutOff'
  BY <1>0, <1>1, <1>3 DEF NoCallCutOff, TypeOK, Stopping
<1>6. ASSUME Orderly, \A e \in Daemons \ {d} : pc[e] \in Settled
      PROVE  Fits(d, to)
  <2>1. ~Answered /\ pc[d] = "dial" => file = Leftover
    BY <1>0, <1>6 DEF Answered, Orderly, FileIsOwned, Settled, Failing, TypeOK
  <2>2. ASSUME NEW e \in Daemons \ {d}, pc[e] \in Serving PROVE file' = e
    <3>1. file = e
      BY <1>6, <2>2 DEF Orderly
    <3>2. pc[d] # "remove" /\ pc[d] # "bind"
      BY <1>0, <1>6, <3>1 DEF Orderly
    <3> QED BY <1>1, <3>1, <3>2
  <2>3. /\ to \in Serving \union {"listen"} => file' = d
        /\ to = "dial" => file' # Absent
        /\ to = "remove" => file' = Leftover
        /\ to \in {"bind"} \union Stopping => file' = Absent
    BY <1>0, <1>1, <1>6, <2>1 DEF Orderly, Serving, Stopping, Failing
  <2> QED BY <2>2, <2>3 DEF Fits
<1>7. ASSUME pc[d] \in Settled, to \in Settled
      PROVE  Withdraws(d, to)
  BY <1>0, <1>1, <1>7 DEF Withdraws, Settled, Failing, Serving
<1> QED
  BY <1>1, <1>2, <1>4, <1>5, <1>6, <1>7, StepKeepsIInv

\* So does every later step of a daemon, and its death.
LEMMA StopKeepsIInv ==
    ASSUME IInv, NEW d \in Daemons,
           BuildStep(d) \/ Signal(d) \/ StopStep(d) \/ Crash(d)
    PROVE  IInv'
<1>0. /\ TypeOK /\ d # Absent /\ d # Leftover /\ Absent # Leftover
      /\ FileIsOwned /\ NoCallCutOff
  BY NamesAssumption DEF IInv, Absent, Leftover
<1>1. PICK to \in Phases :
         /\ pc' = [pc EXCEPT ![d] = to] /\ Remember(d)
         /\ \/ /\ pc[d] \in Serving /\ to \in Serving
               /\ file' = file /\ call' = call
            \/ /\ pc[d] = "close" /\ to = "drain"
               /\ file' = Absent /\ call' = call
            \/ /\ pc[d] = "drain" /\ to = "unlink" /\ file' = file
               /\ (\A c \in Callers : call[c] # d) /\ call' = call
            \/ /\ pc[d] = "unlink" /\ to = "off"
               /\ file' = Absent /\ call' = call
            \/ /\ Crash(d) /\ to = "off"
  BY <1>0
  DEF BuildStep, Built, BuildFails, Signal, StopStep, CleanedUp, Close, Drained,
      Unlink, Crash, Go, Phases, Serving, Stopping
<1>2. /\ file' \in {Absent, Leftover} \union Daemons
      /\ call' \in [Callers -> {NoDaemon} \union Daemons]
  BY <1>0, <1>1 DEF TypeOK, Crash
<1>3. pc'[d] = to /\ \A e \in Daemons \ {d} : pc'[e] = pc[e]
  BY <1>0, <1>1 DEF TypeOK
<1>4. FileIsOwned'
  BY <1>0, <1>1, <1>3, NamesAssumption
  DEF FileIsOwned, Serving, Crash, Absent, Leftover
<1>5. NoCallCutOff'
  <2> SUFFICES ASSUME NEW c \in Callers, call'[c] # NoDaemon
               PROVE  pc'[call'[c]] \in Serving \union {"drain"}
    BY DEF NoCallCutOff
  <2>1. call'[c] = call[c]
    BY <1>0, <1>1 DEF TypeOK, Crash
  <2>2. call[c] \in Daemons /\ pc[call[c]] \in Serving \union {"drain"}
    BY <1>0, <2>1 DEF TypeOK, NoCallCutOff
  <2>3. call[c] # d \/ to \in Serving \union {"drain"}
    BY <1>0, <1>1, <2>1, <2>2 DEF Crash, Serving, TypeOK
  <2> QED BY <1>3, <2>1, <2>2, <2>3
<1>6. ASSUME Orderly, \A e \in Daemons \ {d} : pc[e] \in Settled
      PROVE  Fits(d, to)
  BY <1>0, <1>1, <1>6 DEF Fits, Orderly, Crash, Serving, Stopping
<1>7. ASSUME pc[d] \in Settled, to \in Settled
      PROVE  Withdraws(d, to)
  BY <1>0, <1>1, <1>7 DEF Withdraws, Settled, Failing, Serving, Crash
<1> QED
  BY <1>1, <1>2, <1>4, <1>5, <1>6, <1>7, StepKeepsIInv
\* So does every step, the callers' included.
LEMMA NextKeepsIInv == IInv /\ [Next]_vars => IInv'
<1> SUFFICES ASSUME IInv, [Next]_vars PROVE IInv'
  OBVIOUS
<1>1. ASSUME NEW d \in Daemons, DaemonStep(d) PROVE IInv'
  BY <1>1, StartKeepsIInv, StopKeepsIInv DEF DaemonStep
<1>2. ASSUME NEW c \in Callers, Dial(c) \/ Answer(c) PROVE IInv'
  <2>1. /\ UNCHANGED <<file, pc, overlap>>
        /\ TypeOK /\ NoCallCutOff
        /\ \/ Answered /\ call' = [call EXCEPT ![c] = file]
           \/ call' = [call EXCEPT ![c] = NoDaemon]
    BY <1>2 DEF Dial, Answer, IInv
  <2>2. TypeOK' /\ NoCallCutOff'
    BY <2>1 DEF TypeOK, NoCallCutOff, Answered
  <2> QED BY <2>1, <2>2 DEF IInv, FileIsOwned, Orderly
<1>3. CASE UNCHANGED vars
  BY <1>3
  DEF vars, IInv, TypeOK, FileIsOwned, NoCallCutOff, Orderly
<1> QED
  BY <1>1, <1>2, <1>3 DEF Next

\* The invariant always holds.
LEMMA AlwaysIInv == Spec => []IInv
BY InitIInv, NextKeepsIInv, PTL DEF Spec

----------------------------------------------------------------------------
(* The theorems *)

\* Every variable keeps its type.
THEOREM ControlPlaneTypeCorrect == Spec => []TypeOK
<1>1. IInv => TypeOK
  BY DEF IInv
<1> QED BY <1>1, AlwaysIInv, PTL

\* At most one daemon serves, while no start or stop overlaps another.
THEOREM OneDaemonAtATime == Spec => []OneDaemonServes
<1>1. IInv => OneDaemonServes
  <2> SUFFICES ASSUME IInv, ~overlap, NEW d \in Daemons, NEW e \in Daemons,
                      pc[d] \in Serving, pc[e] \in Serving
               PROVE  d = e
    BY DEF OneDaemonServes
  <2> QED BY DEF IInv, Orderly
<1> QED BY <1>1, AlwaysIInv, PTL

\* A daemon that serves can be reached.
THEOREM ServingAlwaysReachable == Spec => []ServingIsReachable
<1>1. IInv => ServingIsReachable
  BY DEF IInv, Orderly, ServingIsReachable
<1> QED BY <1>1, AlwaysIInv, PTL

\* A stop cuts no call off, in any order of starts and stops.
THEOREM CallsAreAnswered == Spec => []NoCallCutOff
<1>1. IInv => NoCallCutOff
  BY DEF IInv
<1> QED BY <1>1, AlwaysIInv, PTL

\* What a start finds at the path keeps it out only where another daemon serves.
THEOREM StartsSucceedAlone == Spec => StartFailsOnlyBesideAnother
<1>1. ASSUME IInv, [Next]_vars, NEW d \in Daemons,
             ~overlap, pc[d] \in Starting, pc'[d] = "failed"
      PROVE  \E e \in Daemons \ {d} : pc[e] \in Serving
  <2>0. pc[d] \notin {"off", "failed"} /\ TypeOK /\ Orderly
    BY <1>1 DEF Starting, IInv
  <2>1. PICK e \in Daemons : DaemonStep(e)
    BY <1>1, <2>0 DEF Next, vars, Dial, Answer
  <2>2. DialAnswered(e) \/ RemoveFails(e) \/ BindFails(e)
    BY <1>1, <2>0, <2>1
    DEF DaemonStep, Launch, StartStep, Stat, DialRefused, Remove, Bind, Listen,
        PathUnusable, GiveUp, BuildStep, Built, BuildFails, Signal, StopStep, CleanedUp,
        Close, Drained, Unlink, Crash, Go, TypeOK
  <2>3. e = d
    BY <1>1, <2>0, <2>2
    DEF DialAnswered, RemoveFails, BindFails, Go, TypeOK
  <2>4. DialAnswered(d)
    BY <2>0, <2>2, <2>3 DEF RemoveFails, BindFails, Go, Orderly, Absent, Leftover
  <2> QED BY <2>0, <2>4 DEF DialAnswered, Answered, Go, Serving
<1>2. IInv /\ [Next]_vars
        => \A d \in Daemons :
              ~overlap /\ pc[d] \in Starting /\ pc'[d] = "failed"
                => \E e \in Daemons \ {d} : pc[e] \in Serving
  BY <1>1
<1> QED
  BY <1>2, AlwaysIInv, PTL DEF Spec, StartFailsOnlyBesideAnother
=============================================================================
