-------------------------- MODULE CaptureScopeProofs --------------------------
(***************************************************************************)
(* CaptureLifecycle ends what it registered, keeps the writer until the    *)
(* session is over, and returns normally only from a clean capture: for    *)
(* every behaviour of the operating system, and for an interrupt wherever  *)
(* the code survives one.                                                  *)
(***************************************************************************)
EXTENDS CaptureScope, SequenceLemmas

Signals == {"none", "INT", "TERM", "KILL"}
States  == {"none", "alive", "clean", "failed", "killed"}

\* The points of the body before the client is registered, and all of them.
BeforeClient == {"spawn_dumpcap", "ready_dumpcap", "register_dumpcap", "spawn_server",
                 "register_server", "ready_server", "spawn_client", "register_client"}
Points == BeforeClient \union {"await_client", "client_done", "stop", "fail_stop", "fail", "check"}
          \union InExit

Typed ==
    /\ os \in [Process -> States] /\ sig \in [Process -> Signals]
    /\ processes \in Seq(Child) /\ active \subseteq {"dumpcap"} /\ registered \subseteq Process
    /\ sub \in InStop \union InTerminate \union {"idle"} /\ arg \in Process /\ pc \in Points
    /\ error \in {"none", "error", "interrupt"} /\ cleanupError \in BOOLEAN
    /\ outcome \in {"running", "ok", "error", "interrupt", "cleanup_error"}

\* An interrupt struck in terminate: its process may be left alone.  One struck
\* in __exit__: the rest of it is skipped.
Torn == error = "interrupt" /\ "terminate" \in InterruptAt
Cut  == pc = "exit_end" /\ error = "interrupt" /\ "exit" \in InterruptAt

Quiet == \A x \in registered \ {"dumpcap"} : Ended(x)

\* What is registered at each point, and which call may be under way there.
PointInv ==
    /\ pc \in BeforeClient => sub = "idle" /\ "client" \notin registered
    /\ pc \in {"spawn_dumpcap", "ready_dumpcap", "register_dumpcap"} =>
           registered = {} /\ active = {}
    /\ pc \in {"spawn_server", "register_server"} => "server" \notin registered
    /\ pc \in {"spawn_server", "register_server", "ready_server", "spawn_client", "register_client",
               "await_client", "client_done", "stop", "fail_stop", "check"} => "dumpcap" \in registered
    /\ pc \in {"ready_server", "spawn_client", "register_client", "await_client", "client_done",
               "stop", "fail_stop", "check"} => "server" \in registered
    /\ pc \in {"await_client", "client_done", "stop", "check"} => "client" \in registered
    /\ \A x \in registered : os[x] # "none"
    /\ pc \in {"ready_dumpcap", "register_dumpcap"} => os["dumpcap"] # "none"
    /\ pc = "register_server" => os["server"] # "none"
    /\ pc = "register_client" => os["client"] # "none"
    /\ pc = "await_client" => sub = "idle"
    /\ pc = "client_done" => sub = "idle" \/ (sub \in InTerminate /\ arg = "client")
    /\ pc \in {"stop", "fail_stop"} => sub = "idle" \/ (sub \in InTerminate /\ arg = "server")
    /\ pc = "check" => sub \in InStop \union {"idle"}
    /\ pc = "fail" => \/ sub \in InStop \union {"idle"}
                      \/ sub \in InTerminate /\ arg = "dumpcap" /\ registered = {}
    /\ pc = "exit_processes" => sub = "idle" \/ (sub \in InTerminate /\ arg \in Child)
    /\ pc = "exit_captures" => sub \in InStop \union {"idle"}
    /\ pc = "exit_end" => sub = "idle"
    /\ sub \in InStop => arg = "dumpcap"
    /\ outcome # "running" => pc = "exit_end"

\* A registered child is in the list, in the hands of terminate, or ended.
ChildInv ==
    \/ Torn \/ Cut
    \/ /\ \A x \in registered \ {"dumpcap"} :
             x \in ToSet(processes) \/ Ended(x) \/ (sub \in InTerminate /\ arg = x)
       /\ pc \in {"exit_captures", "exit_end"} => processes = <<>>

\* Where stop_capture is called the children have ended.
StopInv ==
    \/ Torn
    \/ /\ sub \in InStop => Quiet
       /\ pc = "client_done" /\ sub = "idle" => Ended("client")
       /\ pc \in {"stop", "fail_stop"} /\ "client" \in registered => Ended("client")
       /\ pc \in {"stop", "fail_stop"} /\ sub = "idle" => Ended("server")

\* A registered writer is registered still, in the hands of stop_capture, or
\* ended.
WriterInv ==
    /\ sub = "joined" => Exited("dumpcap")
    /\ sub = "wait_kill" => Ended("dumpcap")
    /\ pc \notin InExit /\ "dumpcap" \in registered => "dumpcap" \in active \/ Exited("dumpcap")
    /\ pc \in InExit /\ "dumpcap" \in registered =>
           Torn \/ Cut \/ "dumpcap" \in active \/ sub \in InStop \/ Ended("dumpcap")
    /\ pc = "exit_end" => Cut \/ active = {}
    /\ pc = "check" /\ sub = "idle" => Exited("dumpcap") /\ active = {}

\* __exit__ without an exception finds a writer that has exited.
OkInv ==
    /\ pc \notin InExit => error = "none"
    /\ error = "none" /\ pc \in InExit =>
           sub \notin InStop /\ active = {} /\ Exited("dumpcap") /\ Child \subseteq registered
    /\ outcome = "ok" => error = "none" /\ ~cleanupError

ScopeInv == Typed /\ PointInv /\ ChildInv /\ StopInv /\ WriterInv /\ OkInv
-----------------------------------------------------------------------------
(* The list of the registered processes.                                   *)

\* unregister_process leaves all items but one, however long the list is.
LEMMA WithoutOne ==
    ASSUME NEW s \in Seq(Child), NEW a
    PROVE  Without(s, a) \in Seq(Child) /\ ToSet(Without(s, a)) = ToSet(s) \ {a}
<1> DEFINE T == Seq(Child)
           n == Len(s)
           r == Without(s, a)
           Step(kept, p) == IF p = a THEN kept ELSE Append(kept, p)
           G == [c \in (1..n) \X T |-> Step(c[2], s[c[1]])]
           Eq(iter) == iter = [q \in SUBSET DOMAIN s |->
                         IF q = {} THEN <<>> ELSE Step(iter[q \ {Max(q)}], s[Max(q)])]
           iter == CHOOSE iter : Eq(iter)
<1>1. n \in Nat /\ DOMAIN s = 1..n /\ <<>> \in T /\ \A k \in 1..n : s[k] \in Child
  OBVIOUS
<1>2. G \in [(1..n) \X T -> T] /\ \A k \in 1..n, t \in T : G[<<k, t>>] = Step(t, s[k])
  BY <1>1
<1>3. r = iter[1..n]
  BY <1>1 DEF Without, FoldLeft, MapThenFoldSet
<1> HIDE DEF G, T, n, r, Step
<1>4. PICK F \in [SUBSET (1..n) -> T] : FoldOf(n, <<>>, G, F)
  BY <1>1, <1>2, FoldExists
<1>5. Eq(F)
  <2>1. ASSUME NEW q \in SUBSET (1..n), q # {}
        PROVE  G[<<Max(q), F[q \ {Max(q)}]>>] = Step(F[q \ {Max(q)}], s[Max(q)])
    BY <2>1, MaxIsIn, <1>1, <1>2
  <2> QED BY <2>1, <1>1, <1>4 DEF FoldOf
<1>6. Eq(iter)
  BY <1>5, Zenon
<1> HIDE DEF iter
<1>7. iter[{}] = <<>>
  BY <1>6
<1>8. ASSUME NEW q \in SUBSET (1..n), q # {}, iter[q \ {Max(q)}] \in T
      PROVE  iter[q] = G[<<Max(q), iter[q \ {Max(q)}]>>]
  BY <1>1, <1>2, <1>6, <1>8, MaxIsIn
<1>9. FoldSteps(n, <<>>, T, G, iter)
  BY <1>1, <1>2, <1>7, <1>8 DEF FoldSteps
<1> HIDE DEF Eq
<1>10. PICK h \in [0..n -> T] : ChainOf(n, <<>>, G, h) /\ h[n] = iter[1..n]
  BY <1>9, FoldRun
<1> DEFINE Good == {k \in 0..n : ToSet(h[k]) = {s[i] : i \in 1..k} \ {a}}
<1>11. 0 \in Good
  BY <1>1, <1>10 DEF ChainOf, ToSet
<1>12. ASSUME NEW k \in 1..n, k - 1 \in Good PROVE k \in Good
  <2>1. k - 1 \in 0..n /\ h[k - 1] \in Seq(Child) /\ s[k] \in Child
    BY <1>1, <1>10 DEF T
  <2>2. h[k] = IF s[k] = a THEN h[k - 1] ELSE Append(h[k - 1], s[k])
    BY <1>2, <1>10, <2>1 DEF ChainOf, Step, T
  <2>3. {s[i] : i \in 1..k} = {s[i] : i \in 1..(k - 1)} \union {s[k]}
    BY <1>1
  <2>4. ToSet(Append(h[k - 1], s[k])) = ToSet(h[k - 1]) \union {s[k]}
    BY <2>1, AppendedSet
  <2> QED BY <1>1, <1>12, <2>2, <2>3, <2>4
<1> HIDE DEF Good
<1>13. n \in Good
  BY <1>1, <1>11, <1>12, ChainInduction
<1> QED BY <1>1, <1>3, <1>10, <1>13 DEF Good, T, n, r, ToSet

LEMMA Unregistered ==
    ASSUME Typed, unregister_process
    PROVE  processes' \in Seq(Child) /\ ToSet(processes') = ToSet(processes) \ {arg}
<1>1. processes \in Seq(Child)
  BY DEF Typed
<1> QED BY <1>1, WithoutOne DEF unregister_process

LEMMA Registered ==
    ASSUME Typed, NEW x \in Child
    PROVE  /\ Append(processes, x) \in Seq(Child)
           /\ ToSet(Append(processes, x)) = ToSet(processes) \union {x}
  BY AppendedSet DEF Typed

LEMMA Popped ==
    ASSUME Typed, processes # <<>>
    PROVE  /\ SubSeq(processes, 1, Len(processes) - 1) \in Seq(Child)
           /\ processes[Len(processes)] \in Child
           /\ \A y \in ToSet(processes) :
                 \/ y \in ToSet(SubSeq(processes, 1, Len(processes) - 1))
                 \/ y = processes[Len(processes)]
<1> DEFINE front == SubSeq(processes, 1, Len(processes) - 1)
<1>1. processes \in Seq(Child)
  BY DEF Typed
<1>2. /\ front \in Seq(Child) /\ Len(front) = Len(processes) - 1
      /\ processes[Len(processes)] \in Child
      /\ \A i \in 1..(Len(processes) - 1) : front[i] = processes[i]
  BY <1>1, FrontOf
<1>3. ASSUME NEW i \in DOMAIN processes, i # Len(processes)
      PROVE  i \in DOMAIN front /\ front[i] = processes[i]
  BY <1>1, <1>2, <1>3
<1> QED BY <1>2, <1>3 DEF ToSet
-----------------------------------------------------------------------------
(* The operating-system processes.                                         *)

LEMMA StateSet ==
    ASSUME Typed, NEW x \in Process, NEW s \in States, os' = [os EXCEPT ![x] = s]
    PROVE  /\ os' \in [Process -> States]
           /\ os'[x] = s /\ \A y \in Process : y # x => os'[y] = os[y]
  BY DEF Typed

LEMMA Signalled ==
    ASSUME Typed, NEW x \in Process, NEW s \in Signals, Signal(x, s)
    PROVE  /\ sig' \in [Process -> Signals]
           /\ \A y \in Process : y # x => sig'[y] = sig[y]
           /\ Alive(x) => sig'[x] = s
           /\ ~Alive(x) => sig'[x] = sig[x]
  BY DEF Typed, Signal
-----------------------------------------------------------------------------
(* One lemma for each action: it keeps the invariant.                      *)

USE DEF Process, Child, InStop, InTerminate, InExit, BeforeClient, Points, States, Signals,
        At, Goto, Call, Raise, Stay, Exited, Alive, Ended, Quiet, Torn, Cut,
        osVars, registryVars, exitVars

LEMMA SpawnDumpcapKeeps ==
    ASSUME ScopeInv, SpawnDumpcap
    PROVE  ScopeInv'
<1> USE DEF ScopeInv
<1>1. \/ os' = os
      \/ /\ os' \in [Process -> States] /\ os'["dumpcap"] = "alive"
         /\ \A y \in Process : y # "dumpcap" => os'[y] = os[y]
  BY StateSet DEF SpawnDumpcap, Spawn, Typed
<1>2. Typed'
  BY <1>1 DEF SpawnDumpcap, Spawn, Typed
<1>3. PointInv'
  BY <1>1 DEF SpawnDumpcap, Spawn, Typed, PointInv
<1>4. ChildInv'
  BY <1>1 DEF SpawnDumpcap, Spawn, Typed, PointInv, ChildInv
<1>5. StopInv'
  BY <1>1 DEF SpawnDumpcap, Spawn, Typed, PointInv, ChildInv, StopInv
<1>6. WriterInv'
  BY <1>1 DEF SpawnDumpcap, Spawn, Typed, PointInv, WriterInv
<1>7. OkInv'
  BY <1>1 DEF SpawnDumpcap, Spawn, Typed, PointInv, WriterInv, OkInv
<1> QED BY <1>2, <1>3, <1>4, <1>5, <1>6, <1>7

LEMMA ReadyDumpcapKeeps ==
    ASSUME ScopeInv, ReadyDumpcap
    PROVE  ScopeInv'
<1> USE DEF ScopeInv
<1>1. Typed'
  BY DEF ReadyDumpcap, Typed
<1>2. PointInv'
  BY DEF ReadyDumpcap, Typed, PointInv
<1>3. ChildInv'
  BY DEF ReadyDumpcap, Typed, PointInv, ChildInv
<1>4. StopInv'
  BY DEF ReadyDumpcap, Typed, PointInv, ChildInv, StopInv
<1>5. WriterInv'
  BY DEF ReadyDumpcap, Typed, PointInv, WriterInv
<1>6. OkInv'
  BY DEF ReadyDumpcap, Typed, PointInv, WriterInv, OkInv
<1> QED BY <1>1, <1>2, <1>3, <1>4, <1>5, <1>6

LEMMA RegisterDumpcapKeeps ==
    ASSUME ScopeInv, RegisterDumpcap
    PROVE  ScopeInv'
<1> USE DEF ScopeInv
<1>1. Typed'
  BY DEF RegisterDumpcap, Typed
<1>2. PointInv'
  BY DEF RegisterDumpcap, Typed, PointInv
<1>3. ChildInv'
  BY DEF RegisterDumpcap, Typed, PointInv, ChildInv
<1>4. StopInv'
  BY DEF RegisterDumpcap, Typed, PointInv, ChildInv, StopInv
<1>5. WriterInv'
  BY DEF RegisterDumpcap, Typed, PointInv, WriterInv
<1>6. OkInv'
  BY DEF RegisterDumpcap, Typed, PointInv, WriterInv, OkInv
<1> QED BY <1>1, <1>2, <1>3, <1>4, <1>5, <1>6

LEMMA SpawnServerKeeps ==
    ASSUME ScopeInv, SpawnServer
    PROVE  ScopeInv'
<1> USE DEF ScopeInv
<1>1. \/ os' = os
      \/ /\ os' \in [Process -> States] /\ os'["server"] = "alive"
         /\ \A y \in Process : y # "server" => os'[y] = os[y]
  BY StateSet DEF SpawnServer, Spawn, Typed
<1>2. Typed'
  BY <1>1 DEF SpawnServer, Spawn, Typed
<1>3. PointInv'
  BY <1>1 DEF SpawnServer, Spawn, Typed, PointInv
<1>4. ChildInv'
  BY <1>1 DEF SpawnServer, Spawn, Typed, PointInv, ChildInv
<1>5. StopInv'
  BY <1>1 DEF SpawnServer, Spawn, Typed, PointInv, ChildInv, StopInv
<1>6. WriterInv'
  BY <1>1 DEF SpawnServer, Spawn, Typed, PointInv, WriterInv
<1>7. OkInv'
  BY <1>1 DEF SpawnServer, Spawn, Typed, PointInv, WriterInv, OkInv
<1> QED BY <1>2, <1>3, <1>4, <1>5, <1>6, <1>7

LEMMA RegisterServerKeeps ==
    ASSUME ScopeInv, RegisterServer
    PROVE  ScopeInv'
<1> USE DEF ScopeInv
<1>1. processes' \in Seq(Child) /\ ToSet(processes') = ToSet(processes) \union {"server"}
  BY Registered DEF RegisterServer, register_process
<1>2. Typed'
  BY <1>1 DEF RegisterServer, register_process, Typed
<1>3. PointInv'
  BY <1>1 DEF RegisterServer, register_process, Typed, PointInv
<1>4. ChildInv'
  BY <1>1 DEF RegisterServer, register_process, Typed, PointInv, ChildInv
<1>5. StopInv'
  BY <1>1 DEF RegisterServer, register_process, Typed, PointInv, ChildInv, StopInv
<1>6. WriterInv'
  BY <1>1 DEF RegisterServer, register_process, Typed, PointInv, WriterInv
<1>7. OkInv'
  BY <1>1 DEF RegisterServer, register_process, Typed, PointInv, WriterInv, OkInv
<1> QED BY <1>2, <1>3, <1>4, <1>5, <1>6, <1>7

LEMMA ReadyServerKeeps ==
    ASSUME ScopeInv, ReadyServer
    PROVE  ScopeInv'
<1> USE DEF ScopeInv
<1>1. Typed'
  BY DEF ReadyServer, Typed
<1>2. PointInv'
  BY DEF ReadyServer, Typed, PointInv
<1>3. ChildInv'
  BY DEF ReadyServer, Typed, PointInv, ChildInv
<1>4. StopInv'
  BY DEF ReadyServer, Typed, PointInv, ChildInv, StopInv
<1>5. WriterInv'
  BY DEF ReadyServer, Typed, PointInv, WriterInv
<1>6. OkInv'
  BY DEF ReadyServer, Typed, PointInv, WriterInv, OkInv
<1> QED BY <1>1, <1>2, <1>3, <1>4, <1>5, <1>6

LEMMA SpawnClientKeeps ==
    ASSUME ScopeInv, SpawnClient
    PROVE  ScopeInv'
<1> USE DEF ScopeInv
<1>1. \/ os' = os
      \/ /\ os' \in [Process -> States] /\ os'["client"] = "alive"
         /\ \A y \in Process : y # "client" => os'[y] = os[y]
  BY StateSet DEF SpawnClient, Spawn, Typed
<1>2. Typed'
  BY <1>1 DEF SpawnClient, Spawn, Typed
<1>3. PointInv'
  BY <1>1 DEF SpawnClient, Spawn, Typed, PointInv
<1>4. ChildInv'
  BY <1>1 DEF SpawnClient, Spawn, Typed, PointInv, ChildInv, StopInv, WriterInv, OkInv
<1>5. StopInv'
  BY <1>1 DEF SpawnClient, Spawn, Typed, PointInv, ChildInv, StopInv
<1>6. WriterInv'
  BY <1>1 DEF SpawnClient, Spawn, Typed, PointInv, WriterInv
<1>7. OkInv'
  BY <1>1 DEF SpawnClient, Spawn, Typed, PointInv, WriterInv, OkInv
<1> QED BY <1>2, <1>3, <1>4, <1>5, <1>6, <1>7

LEMMA RegisterClientKeeps ==
    ASSUME ScopeInv, RegisterClient
    PROVE  ScopeInv'
<1> USE DEF ScopeInv
<1>1. processes' \in Seq(Child) /\ ToSet(processes') = ToSet(processes) \union {"client"}
  BY Registered DEF RegisterClient, register_process
<1>2. Typed'
  BY <1>1 DEF RegisterClient, register_process, Typed
<1>3. PointInv'
  BY <1>1 DEF RegisterClient, register_process, Typed, PointInv
<1>4. ChildInv'
  BY <1>1 DEF RegisterClient, register_process, Typed, PointInv, ChildInv
<1>5. StopInv'
  BY <1>1 DEF RegisterClient, register_process, Typed, PointInv, ChildInv, StopInv
<1>6. WriterInv'
  BY <1>1 DEF RegisterClient, register_process, Typed, PointInv, WriterInv
<1>7. OkInv'
  BY <1>1 DEF RegisterClient, register_process, Typed, PointInv, WriterInv, OkInv
<1> QED BY <1>2, <1>3, <1>4, <1>5, <1>6, <1>7

LEMMA AwaitClientKeeps ==
    ASSUME ScopeInv, AwaitClient
    PROVE  ScopeInv'
<1> USE DEF ScopeInv
<1>1. Typed'
  BY DEF AwaitClient, Typed
<1>2. PointInv'
  BY DEF AwaitClient, Typed, PointInv
<1>3. ChildInv'
  BY DEF AwaitClient, Typed, PointInv, ChildInv
<1>4. StopInv'
  BY DEF AwaitClient, Typed, PointInv, ChildInv, StopInv
<1>5. WriterInv'
  BY DEF AwaitClient, Typed, PointInv, WriterInv
<1>6. OkInv'
  BY DEF AwaitClient, Typed, PointInv, WriterInv, OkInv
<1> QED BY <1>1, <1>2, <1>3, <1>4, <1>5, <1>6

LEMMA ClientDoneKeeps ==
    ASSUME ScopeInv, ClientDone
    PROVE  ScopeInv'
<1> USE DEF ScopeInv
<1>1. Typed'
  BY DEF ClientDone, Typed
<1>2. PointInv'
  BY DEF ClientDone, Typed, PointInv
<1>3. ChildInv'
  BY DEF ClientDone, Typed, PointInv, ChildInv
<1>4. StopInv'
  BY DEF ClientDone, Typed, PointInv, ChildInv, StopInv
<1>5. WriterInv'
  BY DEF ClientDone, Typed, PointInv, WriterInv
<1>6. OkInv'
  BY DEF ClientDone, Typed, PointInv, WriterInv, OkInv
<1> QED BY <1>1, <1>2, <1>3, <1>4, <1>5, <1>6

LEMMA StopKeeps ==
    ASSUME ScopeInv, Stop
    PROVE  ScopeInv'
<1> USE DEF ScopeInv
<1>1. Typed'
  BY DEF Stop, Typed
<1>2. PointInv'
  BY DEF Stop, Typed, PointInv
<1>3. ChildInv'
  BY DEF Stop, Typed, PointInv, ChildInv
<1>4. StopInv'
  BY DEF Stop, Typed, PointInv, ChildInv, StopInv
<1>5. WriterInv'
  BY DEF Stop, Typed, PointInv, WriterInv
<1>6. OkInv'
  BY DEF Stop, Typed, PointInv, WriterInv, OkInv
<1> QED BY <1>1, <1>2, <1>3, <1>4, <1>5, <1>6

LEMMA FailBodyKeeps ==
    ASSUME ScopeInv, FailBody
    PROVE  ScopeInv'
<1> USE DEF ScopeInv
<1>1. Typed'
  BY DEF FailBody, Typed
<1>2. PointInv'
  BY DEF FailBody, Typed, PointInv
<1>3. ChildInv'
  BY DEF FailBody, Typed, PointInv, ChildInv, StopInv, WriterInv, OkInv
<1>4. StopInv'
  BY DEF FailBody, Typed, PointInv, ChildInv, StopInv
<1>5. WriterInv'
  BY DEF FailBody, Typed, PointInv, WriterInv
<1>6. OkInv'
  BY DEF FailBody, Typed, PointInv, WriterInv, OkInv
<1> QED BY <1>1, <1>2, <1>3, <1>4, <1>5, <1>6

LEMMA CheckKeeps ==
    ASSUME ScopeInv, Check
    PROVE  ScopeInv'
<1> USE DEF ScopeInv
<1>1. Typed'
  BY DEF Check, Typed
<1>2. PointInv'
  BY DEF Check, Typed, PointInv
<1>3. ChildInv'
  BY DEF Check, Typed, PointInv, ChildInv, StopInv, WriterInv, OkInv
<1>4. StopInv'
  BY DEF Check, Typed, PointInv, ChildInv, StopInv
<1>5. WriterInv'
  BY DEF Check, Typed, PointInv, WriterInv
<1>6. OkInv'
  BY DEF Check, Typed, PointInv, WriterInv, OkInv
<1> QED BY <1>1, <1>2, <1>3, <1>4, <1>5, <1>6

\* A process that terminate has signalled stays in its hands.
LEMMA TerminateKeeps ==
    ASSUME ScopeInv, Terminate
    PROVE  ScopeInv'
<1> USE DEF ScopeInv
<1>1. \/ /\ Alive(arg) /\ sub' = "grace" /\ processes' = processes
         /\ sig' \in [Process -> Signals] /\ \A y \in Process : y # arg => sig'[y] = sig[y]
      \/ /\ ~Alive(arg) /\ sub' = "idle" /\ sig' = sig
         /\ processes' \in Seq(Child) /\ ToSet(processes') = ToSet(processes) \ {arg}
  BY Signalled, Unregistered DEF Terminate, Typed
<1>2. Typed'
  BY <1>1 DEF Terminate, Typed
<1>3. PointInv'
  BY <1>1 DEF Terminate, Typed, PointInv
<1>4. ChildInv'
  BY <1>1 DEF Terminate, Typed, PointInv, ChildInv
<1>5. StopInv'
  BY <1>1 DEF Terminate, Typed, PointInv, ChildInv, StopInv
<1>6. WriterInv'
  BY <1>1 DEF Terminate, Typed, PointInv, WriterInv
<1>7. OkInv'
  BY <1>1 DEF Terminate, Typed, PointInv, WriterInv, OkInv
<1> QED BY <1>2, <1>3, <1>4, <1>5, <1>6, <1>7

\* It leaves them killed.
LEMMA GraceKeeps ==
    ASSUME ScopeInv, Grace
    PROVE  ScopeInv'
<1> USE DEF ScopeInv
<1>1. /\ sig' \in [Process -> Signals] /\ \A y \in Process : y # arg => sig'[y] = sig[y]
      /\ Alive(arg) => sig'[arg] = "KILL"
      /\ processes' \in Seq(Child) /\ ToSet(processes') = ToSet(processes) \ {arg}
  BY Signalled, Unregistered DEF Grace, Typed
<1>2. Typed'
  BY <1>1 DEF Grace, Typed
<1>3. PointInv'
  BY <1>1 DEF Grace, Typed, PointInv
<1>4. ChildInv'
  BY <1>1 DEF Grace, Typed, PointInv, ChildInv
<1>5. StopInv'
  BY <1>1 DEF Grace, Typed, PointInv, ChildInv, StopInv
<1>6. WriterInv'
  BY <1>1 DEF Grace, Typed, PointInv, WriterInv
<1>7. OkInv'
  BY <1>1 DEF Grace, Typed, PointInv, WriterInv, OkInv
<1> QED BY <1>2, <1>3, <1>4, <1>5, <1>6, <1>7

LEMMA Interrupt_dumpcapKeeps ==
    ASSUME ScopeInv, Interrupt_dumpcap
    PROVE  ScopeInv'
<1> USE DEF ScopeInv
<1>1. sig' \in [Process -> Signals] /\ \A y \in Process : y # arg => sig'[y] = sig[y]
  BY Signalled DEF Interrupt_dumpcap, Typed
<1>2. Typed'
  BY <1>1 DEF Interrupt_dumpcap, Typed
<1>3. PointInv'
  BY <1>1 DEF Interrupt_dumpcap, Typed, PointInv
<1>4. ChildInv'
  BY <1>1 DEF Interrupt_dumpcap, Typed, PointInv, ChildInv
<1>5. StopInv'
  BY <1>1 DEF Interrupt_dumpcap, Typed, PointInv, ChildInv, StopInv
<1>6. WriterInv'
  BY <1>1 DEF Interrupt_dumpcap, Typed, PointInv, WriterInv
<1>7. OkInv'
  BY <1>1 DEF Interrupt_dumpcap, Typed, PointInv, WriterInv, OkInv
<1> QED BY <1>2, <1>3, <1>4, <1>5, <1>6, <1>7

LEMMA WaitExitKeeps ==
    ASSUME ScopeInv, WaitExit
    PROVE  ScopeInv'
<1> USE DEF ScopeInv
<1>1. /\ sig' \in [Process -> Signals] /\ \A y \in Process : y # arg => sig'[y] = sig[y]
      /\ Alive(arg) /\ sub' = "wait_kill" => sig'[arg] = "KILL"
  BY Signalled DEF WaitExit, Typed
<1>2. Typed'
  BY <1>1 DEF WaitExit, Typed
<1>3. PointInv'
  BY <1>1 DEF WaitExit, Typed, PointInv
<1>4. ChildInv'
  BY <1>1 DEF WaitExit, Typed, PointInv, ChildInv
<1>5. StopInv'
  BY <1>1 DEF WaitExit, Typed, PointInv, ChildInv, StopInv
<1>6. WriterInv'
  BY <1>1 DEF WaitExit, Typed, PointInv, WriterInv
<1>7. OkInv'
  BY <1>1 DEF WaitExit, Typed, PointInv, WriterInv, OkInv
<1> QED BY <1>2, <1>3, <1>4, <1>5, <1>6, <1>7

LEMMA WaitKilledKeeps ==
    ASSUME ScopeInv, WaitKilled
    PROVE  ScopeInv'
<1> USE DEF ScopeInv
<1>1. Typed'
  BY DEF WaitKilled, Typed, PointInv, ChildInv, StopInv, WriterInv, OkInv
<1>2. PointInv'
  BY DEF WaitKilled, Typed, PointInv
<1>3. ChildInv'
  BY DEF WaitKilled, Typed, PointInv, ChildInv, StopInv, WriterInv, OkInv
<1>4. StopInv'
  BY DEF WaitKilled, Typed, PointInv, ChildInv, StopInv
<1>5. WriterInv'
  BY DEF WaitKilled, Typed, PointInv, WriterInv
<1>6. OkInv'
  BY DEF WaitKilled, Typed, PointInv, WriterInv, OkInv
<1> QED BY <1>1, <1>2, <1>3, <1>4, <1>5, <1>6

LEMMA JoinedKeeps ==
    ASSUME ScopeInv, Joined
    PROVE  ScopeInv'
<1> USE DEF ScopeInv
<1>1. Typed'
  BY DEF Joined, Typed
<1>2. PointInv'
  BY DEF Joined, Typed, PointInv
<1>3. ChildInv'
  BY DEF Joined, Typed, PointInv, ChildInv
<1>4. StopInv'
  BY DEF Joined, Typed, PointInv, ChildInv, StopInv
<1>5. WriterInv'
  BY DEF Joined, Typed, PointInv, WriterInv
<1>6. OkInv'
  BY DEF Joined, Typed, PointInv, WriterInv, OkInv
<1> QED BY <1>1, <1>2, <1>3, <1>4, <1>5, <1>6

\* A child leaves the list into the hands of terminate.
LEMMA ExitProcessesKeeps ==
    ASSUME ScopeInv, ExitProcesses
    PROVE  ScopeInv'
<1> USE DEF ScopeInv
<1>1. processes # <<>> =>
         /\ processes' \in Seq(Child) /\ arg' \in Child
         /\ \A y \in ToSet(processes) : y \in ToSet(processes') \/ y = arg'
  BY Popped DEF ExitProcesses
<1>2. Typed'
  BY <1>1 DEF ExitProcesses, Typed
<1>3. PointInv'
  BY <1>1 DEF ExitProcesses, Typed, PointInv
<1>4. ChildInv'
  BY <1>1 DEF ExitProcesses, Typed, PointInv, ChildInv
<1>5. StopInv'
  BY <1>1 DEF ExitProcesses, Typed, PointInv, ChildInv, StopInv
<1>6. WriterInv'
  BY <1>1 DEF ExitProcesses, Typed, PointInv, WriterInv
<1>7. OkInv'
  BY <1>1 DEF ExitProcesses, Typed, PointInv, WriterInv, OkInv
<1> QED BY <1>2, <1>3, <1>4, <1>5, <1>6, <1>7

\* A writer leaves its registry into the hands of stop_capture; the list is
\* empty then, and every child has ended.
LEMMA ExitCapturesKeeps ==
    ASSUME ScopeInv, ExitCaptures
    PROVE  ScopeInv'
<1> USE DEF ScopeInv
<1>1. active # {} => arg' = "dumpcap"
  BY DEF ExitCaptures, Typed
<1>2. active = {} => arg' = arg
  BY DEF ExitCaptures
<1>3. ToSet(processes) = {} \/ Torn
  BY DEF ExitCaptures, ChildInv, ToSet
<1>4. /\ arg' \in Process /\ active' \subseteq {"dumpcap"} /\ pc' \in Points
      /\ sub' \in InStop \union InTerminate \union {"idle"}
  BY <1>1, <1>2 DEF ExitCaptures, Typed
<1>5. Typed'
  BY <1>1, <1>2, <1>3, <1>4 DEF ExitCaptures, Typed
<1>6. PointInv'
  BY <1>1, <1>2, <1>3, <1>4 DEF ExitCaptures, Typed, PointInv
<1>7. ChildInv'
  BY <1>1, <1>2, <1>3, <1>4 DEF ExitCaptures, Typed, PointInv, ChildInv
<1>8. StopInv'
  BY <1>1, <1>2, <1>3, <1>4 DEF ExitCaptures, Typed, PointInv, ChildInv, StopInv
<1>9. WriterInv'
  BY <1>1, <1>2, <1>3, <1>4 DEF ExitCaptures, Typed, PointInv, WriterInv
<1>10. OkInv'
  BY <1>1, <1>2, <1>3, <1>4 DEF ExitCaptures, Typed, PointInv, WriterInv, OkInv
<1> QED BY <1>5, <1>6, <1>7, <1>8, <1>9, <1>10

LEMMA ExitEndKeeps ==
    ASSUME ScopeInv, ExitEnd
    PROVE  ScopeInv'
<1> USE DEF ScopeInv
<1>1. Typed'
  BY DEF ExitEnd, Typed
<1>2. PointInv'
  BY DEF ExitEnd, Typed, PointInv
<1>3. ChildInv'
  BY DEF ExitEnd, Typed, PointInv, ChildInv
<1>4. StopInv'
  BY DEF ExitEnd, Typed, PointInv, ChildInv, StopInv
<1>5. WriterInv'
  BY DEF ExitEnd, Typed, PointInv, WriterInv
<1>6. OkInv'
  BY DEF ExitEnd, Typed, PointInv, WriterInv, OkInv
<1> QED BY <1>1, <1>2, <1>3, <1>4, <1>5, <1>6

LEMMA InterruptKeeps ==
    ASSUME ScopeInv, Interrupt
    PROVE  ScopeInv'
<1> USE DEF ScopeInv
<1>1. processes' \in Seq(Child) /\ (sub \notin InTerminate => processes' = processes)
  BY Unregistered DEF Interrupt, Typed
<1>2. Typed'
  BY <1>1 DEF Interrupt, Place, Typed
<1>3. PointInv'
  BY <1>1 DEF Interrupt, Place, Typed, PointInv
<1>4. ChildInv'
  BY <1>1 DEF Interrupt, Place, Typed, PointInv, ChildInv
<1>5. StopInv'
  BY <1>1 DEF Interrupt, Place, Typed, PointInv, ChildInv, StopInv
<1>6. WriterInv'
  BY <1>1 DEF Interrupt, Place, Typed, PointInv, WriterInv
<1>7. OkInv'
  BY <1>1 DEF Interrupt, Place, Typed, PointInv, WriterInv, OkInv
<1> QED BY <1>2, <1>3, <1>4, <1>5, <1>6, <1>7

LEMMA ExitsKeeps ==
    ASSUME ScopeInv, NEW x \in Process, Exits(x)
    PROVE  ScopeInv'
<1> USE DEF ScopeInv
<1>1. /\ os' \in [Process -> States] /\ os'[x] \in {"clean", "failed"}
      /\ \A y \in Process : y # x => os'[y] = os[y]
  BY StateSet DEF Exits
<1>2. Typed'
  BY <1>1 DEF Exits, Typed
<1>3. PointInv'
  BY <1>1 DEF Exits, Typed, PointInv
<1>4. ChildInv'
  BY <1>1 DEF Exits, Typed, PointInv, ChildInv
<1>5. StopInv'
  BY <1>1 DEF Exits, Typed, PointInv, ChildInv, StopInv
<1>6. WriterInv'
  BY <1>1 DEF Exits, Typed, PointInv, WriterInv
<1>7. OkInv'
  BY <1>1 DEF Exits, Typed, PointInv, WriterInv, OkInv
<1> QED BY <1>2, <1>3, <1>4, <1>5, <1>6, <1>7

LEMMA IsKilledKeeps ==
    ASSUME ScopeInv, NEW x \in Process, IsKilled(x)
    PROVE  ScopeInv'
<1> USE DEF ScopeInv
<1>1. /\ os' \in [Process -> States] /\ os'[x] = "killed"
      /\ \A y \in Process : y # x => os'[y] = os[y]
  BY StateSet DEF IsKilled
<1>2. Typed'
  BY <1>1 DEF IsKilled, Typed
<1>3. PointInv'
  BY <1>1 DEF IsKilled, Typed, PointInv
<1>4. ChildInv'
  BY <1>1 DEF IsKilled, Typed, PointInv, ChildInv
<1>5. StopInv'
  BY <1>1 DEF IsKilled, Typed, PointInv, ChildInv, StopInv
<1>6. WriterInv'
  BY <1>1 DEF IsKilled, Typed, PointInv, WriterInv
<1>7. OkInv'
  BY <1>1 DEF IsKilled, Typed, PointInv, WriterInv, OkInv
<1> QED BY <1>2, <1>3, <1>4, <1>5, <1>6, <1>7
-----------------------------------------------------------------------------
(* The theorems.                                                           *)

LEMMA ScopeInitial == Init => ScopeInv
<1> SUFFICES ASSUME Init PROVE ScopeInv
  OBVIOUS
<1>1. Typed
  <2>1. <<>> \in Seq(Child)
    OBVIOUS
  <2> QED BY <2>1 DEF Init, Typed
<1>2. PointInv
  BY DEF Init, PointInv
<1>3. ChildInv /\ StopInv
  BY DEF Init, ChildInv, StopInv
<1>4. WriterInv /\ OkInv
  BY DEF Init, WriterInv, OkInv
<1> QED BY <1>1, <1>2, <1>3, <1>4 DEF ScopeInv

LEMMA ScopeStep == ScopeInv /\ [Next]_vars => ScopeInv'
<1> SUFFICES ASSUME ScopeInv, [Next]_vars PROVE ScopeInv'
  OBVIOUS
<1>1. CASE Body
  BY <1>1, SpawnDumpcapKeeps, ReadyDumpcapKeeps, RegisterDumpcapKeeps, SpawnServerKeeps,
     RegisterServerKeeps, ReadyServerKeeps, SpawnClientKeeps, RegisterClientKeeps,
     AwaitClientKeeps, ClientDoneKeeps, StopKeeps, FailBodyKeeps, CheckKeeps DEF Body
<1>2. CASE Terminate \/ Grace
  BY <1>2, TerminateKeeps, GraceKeeps
<1>3. CASE Interrupt_dumpcap \/ WaitExit \/ WaitKilled \/ Joined
  BY <1>3, Interrupt_dumpcapKeeps, WaitExitKeeps, WaitKilledKeeps, JoinedKeeps
<1>4. CASE ExitProcesses \/ ExitCaptures \/ ExitEnd
  BY <1>4, ExitProcessesKeeps, ExitCapturesKeeps, ExitEndKeeps
<1>5. CASE Interrupt
  BY <1>5, InterruptKeeps
<1>6. CASE \E x \in Process : Exits(x) \/ IsKilled(x)
  BY <1>6, ExitsKeeps, IsKilledKeeps
<1>7. CASE UNCHANGED vars
  BY <1>7 DEF vars, ScopeInv, Typed, PointInv, ChildInv, StopInv, WriterInv, OkInv
<1> QED BY <1>1, <1>2, <1>3, <1>4, <1>5, <1>6, <1>7 DEF Next, Main

LEMMA ScopeInvariant == Spec => []ScopeInv
  BY ScopeInitial, ScopeStep, PTL DEF Spec

\* Whatever was registered has exited or was sent SIGKILL when the with
\* statement ends, after any failure and after an interrupt of the body or of
\* stop_capture, although the wait for a killed writer may time out and
\* __exit__ goes on.  An interrupt of terminate or of __exit__ itself is
\* outside: there the code loses its registrations.
THEOREM RegisteredEnd ==
    ASSUME InterruptAt \intersect {"terminate", "exit"} = {}
    PROVE  Spec => []RegisteredAreEnded
<1>1. ScopeInv => RegisteredAreEnded
  <2> SUFFICES ASSUME ScopeInv, outcome # "running", NEW x \in registered PROVE Ended(x)
    BY DEF RegisteredAreEnded
  <2>1. ~Torn /\ ~Cut /\ pc = "exit_end" /\ sub = "idle" /\ active = {}
    BY DEF ScopeInv, PointInv, WriterInv
  <2>2. CASE x = "dumpcap"
    BY <2>1, <2>2 DEF ScopeInv, WriterInv
  <2>3. CASE x # "dumpcap"
    BY <2>1, <2>3 DEF ScopeInv, ChildInv, ToSet
  <2> QED BY <2>2, <2>3
<1> QED BY <1>1, ScopeInvariant, PTL

\* The writer is told to stop only after every registered client and server has
\* ended, in the body and in __exit__, wherever an interrupt strikes outside of
\* terminate.
THEOREM WriterIsLast ==
    ASSUME "terminate" \notin InterruptAt
    PROVE  Spec => []WriterOutlivesSession
<1>1. ScopeInv => WriterOutlivesSession
  BY DEF ScopeInv, StopInv, WriterOutlivesSession
<1> QED BY <1>1, ScopeInvariant, PTL

\* A capture that returns normally is clean, wherever interrupts may strike and
\* although dumpcap may crash.
THEOREM OkIsClean == Spec => []OkMeansClean
<1>1. ScopeInv => OkMeansClean
  <2> SUFFICES ASSUME ScopeInv, outcome = "ok"
               PROVE  /\ Exited("dumpcap") /\ \A x \in Child : Ended(x)
                      /\ processes = <<>> /\ active = {} /\ ~cleanupError
    BY DEF OkMeansClean
  <2>1. /\ pc = "exit_end" /\ sub = "idle" /\ error = "none" /\ ~cleanupError
        /\ active = {} /\ Exited("dumpcap") /\ Child \subseteq registered
    BY DEF ScopeInv, PointInv, OkInv
  <2>2. processes = <<>> /\ \A x \in registered \ {"dumpcap"} : Ended(x)
    BY <2>1 DEF ScopeInv, ChildInv, ToSet
  <2> QED BY <2>1, <2>2
<1> QED BY <1>1, ScopeInvariant, PTL
=============================================================================
