------------------------- MODULE ScriptBridgeProofs -------------------------
(***************************************************************************)
(* Proofs about ScriptBridge, for any bounds on the channels and loads.    *)
(*                                                                         *)
(* That an event meets its scripts is a fact about the whole command       *)
(* channel: the generations of the queued commands continue the worker's   *)
(* generation one load at a time, up to the loads sent (ChainInv).  That   *)
(* chain is broken by Shutdown, which drops the queue, so the invariant    *)
(* also says that nothing is sent to a worker that left (ExitInv).         *)
(***************************************************************************)
EXTENDS ScriptBridge, TLAPS

ForResolve(c, from) == c.kind = "resolve" /\ c.from = from

\* A thread blocks for a resolve exactly while its command is queued or executed: no
\* caller waits for a reply that nobody holds, and no reply of an earlier resolve is
\* left for a later one.  The resolver itself never blocks on the UI thread, and any
\* other script that does has its request in the channel that Pump drains.
WaitersAreServed ==
  /\ \A from \in {"main", "background"} :
       (IF from = "main" THEN main = "resolving" ELSE background = "waiting")
         <=> \/ ForResolve(cmd, from)
             \/ \E i \in 1 .. Len(cmds) : ForResolve(cmds[i], from)
  /\ worker = "waiting" => /\ cmd.kind # "resolve"
                           /\ \E i \in 1 .. Len(requests) : requests[i] = "call"

\* The generation the worker is in when the i-th queued command's turn comes.
GenBefore(i) == IF i = 1 THEN generation ELSE cmds[i - 1].gen

ChainInv ==
  /\ \A i \in 1 .. Len(cmds) :
       cmds[i].gen = GenBefore(i) + (IF cmds[i].kind = "load" THEN 1 ELSE 0)
  /\ worker # "exited" => loads = IF cmds = <<>> THEN generation ELSE cmds[Len(cmds)].gen

ExecInv ==
  /\ worker \in {"running", "waiting"} => cmd.gen = generation
  /\ worker \in {"idle", "exited"} => cmd.kind = "none"
  /\ resolving <=> cmd.kind = "resolve"

ExitInv ==
  /\ worker = "exited" => cmds = <<>> /\ main \in {"joining", "dropped"}
  /\ \A i \in 1 .. Len(cmds) : cmds[i].kind = "shutdown" => main = "joining"

\* One resolve of each caller is under way at a time.
OneResolve ==
  \A from \in {"main", "background"} :
    /\ \A i, j \in 1 .. Len(cmds) :
         ForResolve(cmds[i], from) /\ ForResolve(cmds[j], from) => i = j
    /\ ForResolve(cmd, from) => \A i \in 1 .. Len(cmds) : ~ForResolve(cmds[i], from)

IInv ==
  /\ TypeOK /\ ChainInv /\ ExecInv /\ ExitInv /\ OneResolve
  /\ EventsMeetTheirScripts /\ WaitersAreServed

-----------------------------------------------------------------------------
LEMMA AppendFacts ==
  ASSUME NEW S, NEW q \in Seq(S), NEW e \in S
  PROVE  /\ Append(q, e) \in Seq(S)
         /\ Append(q, e) # <<>>
         /\ Len(Append(q, e)) = Len(q) + 1
         /\ Len(q) \in Nat
         /\ Append(q, e)[Len(q) + 1] = e
         /\ \A i \in 1 .. Len(q) : Append(q, e)[i] = q[i] /\ q[i] \in S
         /\ q = <<>> <=> Len(q) = 0
  OBVIOUS

LEMMA TailFacts ==
  ASSUME NEW S, NEW q \in Seq(S), q # <<>>
  PROVE  /\ Tail(q) \in Seq(S)
         /\ Len(q) \in Nat \ {0}
         /\ Len(Tail(q)) = Len(q) - 1
         /\ Head(q) = q[1] /\ Head(q) \in S
         /\ \A i \in 1 .. Len(q) - 1 : Tail(q)[i] = q[i + 1]
         /\ \A i \in 1 .. Len(q) : q[i] \in S
         /\ Tail(q) = <<>> <=> Len(q) = 1
<1>1. Len(q) \in Nat \ {0} /\ \A i \in 1 .. Len(q) : q[i] \in S
  OBVIOUS
<1>2. Head(q) = q[1] /\ Head(q) \in S
  BY <1>1
<1>3. Tail(q) \in Seq(S) /\ Len(Tail(q)) = Len(q) - 1
  BY <1>1
<1>4. \A i \in 1 .. Len(q) - 1 : Tail(q)[i] = q[i + 1]
  BY <1>1
<1>5. \A r \in Seq(S) : r = <<>> <=> Len(r) = 0
  OBVIOUS
<1>6. Tail(q) = <<>> <=> Len(q) = 1
  <2>1. Tail(q) = <<>> <=> Len(Tail(q)) = 0
    BY <1>3, <1>5
  <2> QED
    BY <1>1, <1>3, <2>1
<1> QED
  BY <1>1, <1>2, <1>3, <1>4, <1>6

LEMMA InitInv == Init => IInv
<1> SUFFICES ASSUME Init PROVE IInv
  OBVIOUS
<1> USE MaxLoadsAssumption DEF Init
<1>1. cmd \in Commands
  BY DEF NoCommand, Commands
<1>2. TypeOK
  <2>1. \A S : <<>> \in Seq(S)
    OBVIOUS
  <2>2. cmds \in Seq(Commands) /\ requests \in Seq({"call", "log"})
    BY <2>1
  <2>3. generation \in 0 .. MaxLoads /\ handlers \subseteq 0 .. MaxLoads /\ loads \in 0 .. MaxLoads
    OBVIOUS
  <2>4. resolving \in BOOLEAN /\ attached \in BOOLEAN
    BY Zenon
  <2>5. worker = "idle" /\ main = "frame" /\ background = "idle"
    OBVIOUS
  <2> HIDE DEF Init
  <2> QED
    BY <1>1, <2>2, <2>3, <2>4, <2>5 DEF TypeOK
<1>3. ChainInv /\ ExecInv /\ ExitInv
  <2>1. Len(cmds) = 0 /\ cmd.kind = "none"
    BY DEF NoCommand
  <2> QED
    BY <2>1 DEF ChainInv, ExecInv, ExitInv
<1>4. OneResolve /\ EventsMeetTheirScripts /\ WaitersAreServed
  BY DEF OneResolve, EventsMeetTheirScripts, WaitersAreServed, ForResolve, NoCommand
<1> QED
  BY <1>2, <1>3, <1>4 DEF IInv

\* A command that is sent with the loads sent so far continues the chain.
LEMMA SendKeepsChain ==
  ASSUME IInv, NEW c \in Commands, cmds' = Append(cmds, c),
         worker # "exited", worker' = worker, generation' = generation, loads' = c.gen,
         c.gen = loads + (IF c.kind = "load" THEN 1 ELSE 0)
  PROVE  ChainInv'
<1>1. cmds \in Seq(Commands)
  BY DEF IInv, TypeOK
<1>2. /\ cmds' # <<>> /\ Len(cmds') = Len(cmds) + 1 /\ Len(cmds) \in Nat
      /\ cmds'[Len(cmds) + 1] = c
      /\ \A i \in 1 .. Len(cmds) : cmds'[i] = cmds[i]
      /\ cmds = <<>> <=> Len(cmds) = 0
  BY <1>1, AppendFacts
<1>3. ASSUME NEW i \in 1 .. Len(cmds')
      PROVE cmds'[i].gen = GenBefore(i)' + (IF cmds'[i].kind = "load" THEN 1 ELSE 0)
  <2>1. CASE i = Len(cmds) + 1
    BY <1>2, <2>1 DEF IInv, ChainInv, GenBefore
  <2>2. CASE i \in 1 .. Len(cmds)
    BY <1>2, <2>2 DEF IInv, ChainInv, GenBefore
  <2> QED
    BY <1>2, <2>1, <2>2
<1> QED
  BY <1>2, <1>3 DEF ChainInv

\* A resolve is only sent by a caller that has none under way; other commands are
\* nobody's resolve.
LEMMA SendKeepsOthers ==
  ASSUME IInv, NEW c \in Commands, cmds' = Append(cmds, c),
         UNCHANGED <<requests, worker, cmd>>,
         worker # "exited",
         c.kind = "shutdown" => main' = "joining",
         main = "joining" => main' = "joining",
         IF ForResolve(c, "main") THEN main # "resolving" /\ main' = "resolving"
                                  ELSE main' = "resolving" <=> main = "resolving",
         IF ForResolve(c, "background") THEN background # "waiting" /\ background' = "waiting"
                                        ELSE background' = "waiting" <=> background = "waiting"
  PROVE  (ExitInv /\ OneResolve /\ WaitersAreServed)'
<1>1. cmds \in Seq(Commands)
  BY DEF IInv, TypeOK
<1>2. /\ cmds' # <<>> /\ Len(cmds') = Len(cmds) + 1 /\ Len(cmds) \in Nat
      /\ cmds'[Len(cmds) + 1] = c
      /\ \A i \in 1 .. Len(cmds) : cmds'[i] = cmds[i]
  BY <1>1, AppendFacts
<1>3. ExitInv'
  BY <1>2 DEF IInv, ExitInv
<1>4. ASSUME NEW from \in {"main", "background"}, ForResolve(c, from)
      PROVE ~ForResolve(cmd, from) /\ \A i \in 1 .. Len(cmds) : ~ForResolve(cmds[i], from)
  BY <1>4 DEF IInv, WaitersAreServed
<1>5. OneResolve'
  BY <1>2, <1>4 DEF IInv, OneResolve
<1>6. ASSUME NEW from \in {"main", "background"}
      PROVE (\E i \in 1 .. Len(cmds') : ForResolve(cmds'[i], from))
              <=> ForResolve(c, from) \/ \E i \in 1 .. Len(cmds) : ForResolve(cmds[i], from)
  BY <1>2
<1>7. WaitersAreServed'
  BY <1>6 DEF IInv, WaitersAreServed
<1> QED
  BY <1>3, <1>5, <1>7

\* Every step preserves the invariant.
LEMMA StepInv == IInv /\ [Next]_vars => IInv'
<1> SUFFICES ASSUME IInv, [Next]_vars PROVE IInv'
  OBVIOUS
<1> USE MaxCommandsAssumption, MaxLogsAssumption, MaxLoadsAssumption DEF NoCommand
<1>t. TypeOK
  BY DEF IInv
<1>e. main = "frame" => worker # "exited"
  BY DEF IInv, ExitInv
<1>1. ASSUME NEW a \in BOOLEAN, OnEvent(a) PROVE IInv'
  <2> DEFINE c == Command("event", "main")
  <2>1. c \in Commands /\ c.kind = "event" /\ c.gen = loads /\ loads \in Nat
    BY <1>t DEF Command, Commands, TypeOK
  <2> HIDE DEF c
  <2>2. cmds' = Append(cmds, c)
    BY <1>1 DEF OnEvent, Send, c
  <2>t. cmds' \in Seq(Commands)
    BY <1>t, <2>1, <2>2, AppendFacts DEF TypeOK
  <2>3. TypeOK'
    BY <1>1, <1>t, <2>t DEF OnEvent, TypeOK
  <2>4. ChainInv'
    BY <1>1, <1>e, <2>1, <2>2, SendKeepsChain DEF OnEvent
  <2>5. (ExitInv /\ OneResolve /\ WaitersAreServed)'
    BY <1>1, <1>e, <2>1, <2>2, SendKeepsOthers DEF OnEvent, ForResolve
  <2>6. (ExecInv /\ EventsMeetTheirScripts)'
    BY <1>1 DEF IInv, OnEvent, ExecInv, EventsMeetTheirScripts
  <2> QED
    BY <2>3, <2>4, <2>5, <2>6 DEF IInv
<1>2. ASSUME LoadScripts PROVE IInv'
  <2> DEFINE c == [Command("load", "main") EXCEPT !.gen = loads + 1]
  <2>1. c \in Commands /\ c.kind = "load" /\ c.gen = loads + 1 /\ loads \in Nat
    BY <1>2, <1>t DEF LoadScripts, Command, Commands, TypeOK
  <2> HIDE DEF c
  <2>2. cmds' = Append(cmds, c)
    BY <1>2 DEF LoadScripts, Send, c
  <2>t. cmds' \in Seq(Commands)
    BY <1>t, <2>1, <2>2, AppendFacts DEF TypeOK
  <2>3. TypeOK'
    BY <1>2, <1>t, <2>t DEF LoadScripts, TypeOK
  <2>4. ChainInv'
    BY <1>2, <1>e, <2>1, <2>2, SendKeepsChain DEF LoadScripts
  <2>5. (ExitInv /\ OneResolve /\ WaitersAreServed)'
    BY <1>2, <1>e, <2>1, <2>2, SendKeepsOthers DEF LoadScripts, ForResolve
  <2>6. (ExecInv /\ EventsMeetTheirScripts)'
    BY <1>2 DEF IInv, LoadScripts, ExecInv, EventsMeetTheirScripts
  <2> QED
    BY <2>3, <2>4, <2>5, <2>6 DEF IInv
<1>3. ASSUME ResolveClassAddress PROVE IInv'
  <2> DEFINE c == Command("resolve", "main")
  <2>1. c \in Commands /\ c.kind = "resolve" /\ c.from = "main" /\ c.gen = loads /\ loads \in Nat
    BY <1>t DEF Command, Commands, TypeOK
  <2> HIDE DEF c
  <2>2. cmds' = Append(cmds, c)
    BY <1>3 DEF ResolveClassAddress, Send, c
  <2>t. cmds' \in Seq(Commands)
    BY <1>t, <2>1, <2>2, AppendFacts DEF TypeOK
  <2>3. TypeOK'
    BY <1>3, <1>t, <2>t DEF ResolveClassAddress, TypeOK
  <2>4. ChainInv'
    BY <1>3, <1>e, <2>1, <2>2, SendKeepsChain DEF ResolveClassAddress
  <2>5. (ExitInv /\ OneResolve /\ WaitersAreServed)'
    BY <1>3, <1>e, <2>1, <2>2, SendKeepsOthers DEF ResolveClassAddress, ForResolve
  <2>6. (ExecInv /\ EventsMeetTheirScripts)'
    BY <1>3 DEF IInv, ResolveClassAddress, ExecInv, EventsMeetTheirScripts
  <2> QED
    BY <2>3, <2>4, <2>5, <2>6 DEF IInv
<1>4. ASSUME BackgroundResolve PROVE IInv'
  <2> DEFINE c == Command("resolve", "background")
  <2>1. c \in Commands /\ c.kind = "resolve" /\ c.from = "background" /\ c.gen = loads /\ loads \in Nat
    BY <1>t DEF Command, Commands, TypeOK
  <2> HIDE DEF c
  <2>2. cmds' = Append(cmds, c)
    BY <1>4 DEF BackgroundResolve, Send, c
  <2>t. cmds' \in Seq(Commands)
    BY <1>t, <2>1, <2>2, AppendFacts DEF TypeOK
  <2>3. TypeOK'
    BY <1>4, <1>t, <2>t DEF BackgroundResolve, TypeOK
  <2>4. ChainInv'
    BY <1>4, <2>1, <2>2, SendKeepsChain DEF BackgroundResolve
  <2>5. (ExitInv /\ OneResolve /\ WaitersAreServed)'
    BY <1>4, <2>1, <2>2, SendKeepsOthers DEF BackgroundResolve, ForResolve
  <2>6. (ExecInv /\ EventsMeetTheirScripts)'
    BY <1>4 DEF IInv, BackgroundResolve, ExecInv, EventsMeetTheirScripts
  <2> QED
    BY <2>3, <2>4, <2>5, <2>6 DEF IInv
<1>5. ASSUME DropEngine PROVE IInv'
  <2> DEFINE c == Command("shutdown", "main")
  <2>1. c \in Commands /\ c.kind = "shutdown" /\ c.gen = loads /\ loads \in Nat
    BY <1>t DEF Command, Commands, TypeOK
  <2> HIDE DEF c
  <2>2. cmds' = Append(cmds, c)
    BY <1>5 DEF DropEngine, Send, c
  <2>t. cmds' \in Seq(Commands)
    BY <1>t, <2>1, <2>2, AppendFacts DEF TypeOK
  <2>3. TypeOK'
    BY <1>5, <1>t, <2>t DEF DropEngine, TypeOK
  <2>4. ChainInv'
    BY <1>5, <1>e, <2>1, <2>2, SendKeepsChain DEF DropEngine
  <2>5. (ExitInv /\ OneResolve /\ WaitersAreServed)'
    BY <1>5, <1>e, <2>1, <2>2, SendKeepsOthers DEF DropEngine, ForResolve
  <2>6. (ExecInv /\ EventsMeetTheirScripts)'
    BY <1>5 DEF IInv, DropEngine, ExecInv, EventsMeetTheirScripts
  <2> QED
    BY <2>3, <2>4, <2>5, <2>6 DEF IInv
<1>6. ASSUME Pump PROVE IInv'
  <2> USE <1>6 DEF Pump
  <2>1. TypeOK'
    BY <1>t DEF TypeOK
  <2>2. (ChainInv /\ ExecInv /\ ExitInv /\ OneResolve /\ EventsMeetTheirScripts)'
    BY <1>t DEF IInv, TypeOK, ChainInv, ExecInv, ExitInv, OneResolve, EventsMeetTheirScripts, GenBefore
  <2>3. WaitersAreServed'
    BY <1>t DEF IInv, TypeOK, WaitersAreServed
  <2> QED
    BY <2>1, <2>2, <2>3 DEF IInv
<1>7. ASSUME Joined PROVE IInv'
  <2> USE <1>7 DEF Joined
  <2>1. cmds = <<>> /\ cmd.kind = "none"
    BY DEF IInv, ExitInv, ExecInv
  <2>2. (TypeOK /\ ChainInv /\ ExecInv /\ ExitInv)'
    BY <1>t, <2>1 DEF IInv, TypeOK, ChainInv, ExecInv, ExitInv, GenBefore
  <2>3. (OneResolve /\ EventsMeetTheirScripts /\ WaitersAreServed)'
    BY <1>t, <2>1 DEF IInv, TypeOK, OneResolve, EventsMeetTheirScripts, WaitersAreServed
  <2> QED
    BY <2>2, <2>3 DEF IInv
<1>8. ASSUME WorkerTakes PROVE IInv'
  <2>1. /\ cmds' = Tail(cmds) /\ cmds' \in Seq(Commands) /\ Len(cmds) \in Nat \ {0}
        /\ Len(cmds') = Len(cmds) - 1
        /\ cmd' = cmds[1] /\ cmd' \in Commands
        /\ \A i \in 1 .. Len(cmds) - 1 : cmds'[i] = cmds[i + 1]
        /\ \A i \in 1 .. Len(cmds) : cmds[i] \in Commands
        /\ cmds' = <<>> <=> Len(cmds) = 1
    BY <1>8, <1>t, TailFacts DEF WorkerTakes, TypeOK
  <2>2. generation' = cmd'.gen
    BY <1>8, <1>t, <2>1 DEF IInv, WorkerTakes, ChainInv, GenBefore, GenerationAfterLoad, TypeOK, Commands
  <2>3. TypeOK'
    BY <1>8, <1>t, <2>1, <2>2 DEF WorkerTakes, ResetHandlers, TypeOK, Commands
  <2>4. ChainInv'
    <3>1. ASSUME NEW i \in 1 .. Len(cmds')
          PROVE cmds'[i].gen = GenBefore(i)' + (IF cmds'[i].kind = "load" THEN 1 ELSE 0)
      <4>1. i \in 1 .. Len(cmds) - 1 /\ i + 1 \in 1 .. Len(cmds)
        BY <2>1
      <4>2. cmds[i + 1].gen = cmds[i].gen + (IF cmds[i + 1].kind = "load" THEN 1 ELSE 0)
        BY <4>1 DEF IInv, ChainInv, GenBefore
      <4>3. GenBefore(i)' = cmds[i].gen
        BY <2>1, <2>2, <4>1 DEF GenBefore
      <4> QED
        BY <2>1, <4>1, <4>2, <4>3
    <3>2. loads' = IF cmds' = <<>> THEN generation' ELSE cmds'[Len(cmds')].gen
      BY <1>8, <2>1, <2>2 DEF IInv, WorkerTakes, ChainInv
    <3> QED
      BY <3>1, <3>2 DEF ChainInv
  <2>5. ExecInv'
    BY <1>8, <2>2 DEF WorkerTakes, ExecInv
  <2>6. ExitInv'
    BY <1>8, <2>1 DEF IInv, WorkerTakes, ExitInv
  <2>7. EventsMeetTheirScripts'
    BY <1>8, <2>2 DEF IInv, WorkerTakes, ResetHandlers, EventsMeetTheirScripts
  <2>8. cmd.kind = "none"
    BY <1>8 DEF IInv, WorkerTakes, ExecInv
  <2>9. ASSUME NEW from \in {"main", "background"}
        PROVE (\E i \in 1 .. Len(cmds) : ForResolve(cmds[i], from))
                <=> ForResolve(cmd', from) \/ \E i \in 1 .. Len(cmds') : ForResolve(cmds'[i], from)
    <3>1. ASSUME NEW i \in 1 .. Len(cmds), ForResolve(cmds[i], from)
          PROVE ForResolve(cmd', from) \/ \E j \in 1 .. Len(cmds') : ForResolve(cmds'[j], from)
      <4>1. CASE i = 1
        BY <2>1, <3>1, <4>1
      <4>2. CASE i # 1
        <5>1. i - 1 \in 1 .. Len(cmds') /\ cmds'[i - 1] = cmds[i]
          BY <2>1, <4>2
        <5> QED
          BY <3>1, <5>1
      <4> QED
        BY <4>1, <4>2
    <3>2. ASSUME NEW i \in 1 .. Len(cmds'), ForResolve(cmds'[i], from)
          PROVE \E j \in 1 .. Len(cmds) : ForResolve(cmds[j], from)
      BY <2>1, <3>2
    <3>3. 1 \in 1 .. Len(cmds)
      BY <2>1
    <3> QED
      BY <2>1, <3>1, <3>2, <3>3
  <2>10. OneResolve'
    BY <2>1 DEF IInv, OneResolve
  <2>11. WaitersAreServed'
    <3>1. worker' # "waiting" /\ UNCHANGED <<main, background>>
      BY <1>8 DEF WorkerTakes
    <3>2. \A from \in {"main", "background"} : ~ForResolve(cmd, from)
      BY <2>8 DEF ForResolve
    <3> QED
      BY <2>9, <3>1, <3>2 DEF IInv, WaitersAreServed
  <2> QED
    BY <2>3, <2>4, <2>5, <2>6, <2>7, <2>10, <2>11 DEF IInv
<1>9. ASSUME WorkerExits PROVE IInv'
  <2> USE <1>9 DEF WorkerExits
  <2>1. Len(cmds) \in Nat \ {0} /\ Head(cmds) = cmds[1]
    BY <1>t, TailFacts DEF TypeOK
  <2>2. main = "joining" /\ cmd.kind = "none"
    BY <2>1 DEF IInv, ExitInv, ExecInv
  <2>3. (TypeOK /\ ChainInv /\ ExecInv /\ ExitInv)'
    BY <1>t, <2>2 DEF IInv, TypeOK, ChainInv, ExecInv, ExitInv
  <2>4. (OneResolve /\ EventsMeetTheirScripts /\ WaitersAreServed)'
    BY <2>2 DEF IInv, OneResolve, EventsMeetTheirScripts, WaitersAreServed, ForResolve
  <2> QED
    BY <2>3, <2>4 DEF IInv
<1>10. ASSUME RegisterHandler PROVE IInv'
  BY <1>10, <1>t DEF RegisterHandler, IInv, TypeOK, ChainInv, ExecInv, ExitInv, OneResolve,
     EventsMeetTheirScripts, WaitersAreServed, GenBefore
<1>11. ASSUME HostCall PROVE IInv'
  <2> USE <1>11 DEF HostCall
  <2>1. requests' \in Seq({"call", "log"}) /\ Len(requests') \in 1 .. Len(requests')
        /\ requests'[Len(requests')] = "call"
    BY <1>t, AppendFacts DEF TypeOK
  <2>2. (TypeOK /\ ChainInv /\ ExecInv /\ ExitInv)'
    BY <1>t, <2>1 DEF IInv, TypeOK, ChainInv, ExecInv, ExitInv, GenBefore
  <2>3. (OneResolve /\ EventsMeetTheirScripts)'
    BY DEF IInv, OneResolve, EventsMeetTheirScripts
  <2>4. WaitersAreServed'
    BY <2>1 DEF IInv, WaitersAreServed, ExecInv, RefusedWhileResolving
  <2> QED
    BY <2>2, <2>3, <2>4 DEF IInv
<1>12. ASSUME Log PROVE IInv'
  <2> USE <1>12 DEF Log
  <2>1. requests' \in Seq({"call", "log"})
    BY <1>t, AppendFacts DEF TypeOK
  <2>2. (TypeOK /\ ChainInv /\ ExecInv /\ ExitInv)'
    BY <1>t, <2>1 DEF IInv, TypeOK, ChainInv, ExecInv, ExitInv, GenBefore
  <2>3. (OneResolve /\ EventsMeetTheirScripts /\ WaitersAreServed)'
    BY DEF IInv, OneResolve, EventsMeetTheirScripts, WaitersAreServed
  <2> QED
    BY <2>2, <2>3 DEF IInv
<1>13. ASSUME WorkerFinishes PROVE IInv'
  <2> USE <1>13 DEF WorkerFinishes
  <2>t. cmd' \in Commands
    BY DEF Commands
  <2>1. (TypeOK /\ ChainInv /\ ExecInv)'
    BY <1>t, <2>t DEF IInv, TypeOK, ChainInv, ExecInv, GenBefore
  <2>2. cmd.kind = "resolve" /\ cmd.from = "main" => main = "resolving"
    BY DEF IInv, WaitersAreServed, ForResolve
  <2>3. ExitInv'
    BY <2>2 DEF IInv, ExitInv
  <2>4. (OneResolve /\ EventsMeetTheirScripts)'
    BY DEF IInv, OneResolve, EventsMeetTheirScripts, ForResolve
  <2>5. WaitersAreServed'
    BY <2>2 DEF IInv, WaitersAreServed, OneResolve, ForResolve
  <2> QED
    BY <2>1, <2>3, <2>4, <2>5 DEF IInv
<1>14. ASSUME UNCHANGED vars PROVE IInv'
  BY <1>14 DEF vars, IInv, TypeOK, ChainInv, ExecInv, ExitInv, OneResolve,
     EventsMeetTheirScripts, WaitersAreServed, GenBefore
<1> QED
  BY <1>1, <1>2, <1>3, <1>4, <1>5, <1>6, <1>7, <1>8, <1>9, <1>10, <1>11, <1>12, <1>13, <1>14
     DEF Next, UiNext, WorkerNext

\* The chain of generations, and who waits for whom, hold at every moment.
THEOREM AlwaysIInv == Spec => []IInv
  BY InitInv, StepInv, PTL DEF Spec

\* Every variable keeps its type; no load is numbered past the loads sent.
THEOREM TypeCorrect == Spec => []TypeOK
<1>1. IInv => TypeOK
  BY DEF IInv
<1> QED
  BY <1>1, AlwaysIInv, PTL

\* An event reaches the scripts loaded when it was emitted, however many loads and
\* events are queued around it, and a load leaves no handler of the scripts before.
THEOREM EventOrder == Spec => []EventsMeetTheirScripts
<1>1. IInv => EventsMeetTheirScripts
  BY DEF IInv
<1> QED
  BY <1>1, AlwaysIInv, PTL

\* Every thread blocked on a resolve has its command queued or executed, every other
\* script blocked on the UI thread has its request queued, and a resolver never blocks.
THEOREM RepliesOwed == Spec => []WaitersAreServed
<1>1. IInv => WaitersAreServed
  BY DEF IInv
<1> QED
  BY <1>1, AlwaysIInv, PTL
=============================================================================
