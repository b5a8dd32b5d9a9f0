----------------------------- MODULE DaemonProofs -----------------------------
(***************************************************************************)
(* What holds of twepd and its socket path for any number of daemons,      *)
(* clients and crashes.                                                    *)
(***************************************************************************)
EXTENDS Daemon, TLAPS

\* Where a daemon can be.
PcType == pc \in [Daemons -> {"off", "chmod"} \cup Startup \cup Loop \cup Ending \cup Gone]

LEMMA InitPath == Init => PcType /\ PathInv
BY DEF Init, PcType, PathInv, Running, Gone, Loop

\* A step of one daemon changes the pc of no other, and sets its own.
LEMMA GotoPc ==
    ASSUME PcType, NEW d \in Daemons,
           NEW step \in {"off", "chmod"} \cup Startup \cup Loop \cup Ending \cup Gone,
           Goto(d, step)
    PROVE  /\ PcType'
           /\ pc'[d] = step
           /\ \A e \in Daemons : e # d => pc'[e] = pc[e]
BY DEF PcType, Goto

\* A running daemon goes on: the others do not run, so only its own place counts.
LEMMA RunKeepsPath ==
    ASSUME PcType, PathInv, NEW d \in Daemons, Running(d),
           NEW step \in {"off", "chmod"} \cup Startup \cup Loop \cup Ending \cup Gone,
           Goto(d, step), alone' = alone,
           step \in {"chmod"} \cup Loop =>
             path' = d \/ (path' = path /\ pc[d] \in {"chmod"} \cup Loop),
           step \in {"init", "listen"} =>
             path' = "nothing" \/ (path' = path /\ pc[d] \in {"init", "listen"}),
           step = "remove" => path' # "nothing"
    PROVE  PcType' /\ PathInv'
<1>1. /\ PcType' /\ pc'[d] = step
      /\ \A e \in Daemons : e # d => pc'[e] = pc[e]
  BY GotoPc
<1>2. ASSUME alone
      PROVE  /\ \A e, f \in Daemons : Running(e)' /\ Running(f)' => e = f
             /\ \A e \in Daemons : pc'[e] \in {"chmod"} \cup Loop => path' = e
             /\ \A e \in Daemons : pc'[e] \in {"init", "listen"} => path' = "nothing"
             /\ \A e \in Daemons : pc'[e] = "remove" => path' # "nothing"
  <2>1. \A e \in Daemons : e # d => ~ Running(e)
    BY <1>2 DEF PathInv
  <2>2. \A e \in Daemons : e # d => pc'[e] \in {"off"} \cup Gone
    BY <1>1, <2>1 DEF Running
  <2>3. \A e, f \in Daemons : Running(e)' /\ Running(f)' => e = f
    BY <2>2 DEF Running
  <2>4. \A e \in Daemons : e # d => pc'[e] \notin {"chmod", "init", "listen", "remove"} \cup Loop
    BY <2>2 DEF Gone, Loop
  <2>5. step \in {"chmod"} \cup Loop => path' = d
    BY <1>2 DEF PathInv
  <2>6. step \in {"init", "listen"} => path' = "nothing"
    BY <1>2 DEF PathInv
  <2> QED BY <1>1, <2>3, <2>4, <2>5, <2>6
<1> QED BY <1>1, <1>2 DEF PathInv

LEMMA NextPath ==
    ASSUME PcType, PathInv, [Next]_vars
    PROVE  PcType' /\ PathInv'
<1>1. ASSUME NEW d \in Daemons, Start(d) PROVE PcType' /\ PathInv'
  <2>1. /\ PcType' /\ pc'[d] = "prepare"
        /\ \A e \in Daemons : e # d => pc'[e] = pc[e]
    BY <1>1, GotoPc DEF Start, Startup
  <2>2. alone' => \A e \in Daemons : e # d => pc'[e] \in {"off"} \cup Gone
    BY <1>1, <2>1 DEF Start
  <2>3. alone' => \A e, f \in Daemons : Running(e)' /\ Running(f)' => e = f
    BY <2>2 DEF Running
  <2>4. alone' => \A e \in Daemons : pc'[e] \notin {"chmod", "init", "listen", "remove"} \cup Loop
    BY <2>1, <2>2 DEF Gone, Loop
  <2> QED BY <2>1, <2>3, <2>4 DEF PathInv
<1>2. ASSUME NEW d \in Daemons, prepareSocketPath(d) PROVE PcType' /\ PathInv'
  <2>1. PICK step \in {"init", "refused", "remove"} :
          /\ Goto(d, step)
          /\ step = "init" => path = "nothing"
          /\ step = "remove" => path # "nothing"
    BY <1>2 DEF prepareSocketPath
  <2>2. pc[d] = "prepare" /\ UNCHANGED <<path, alone>>
    BY <1>2 DEF prepareSocketPath
  <2> QED BY <2>1, <2>2, RunKeepsPath DEF Running, Startup, Loop, Gone
<1>3. ASSUME NEW d \in Daemons, RemoveSocket(d) PROVE PcType' /\ PathInv'
  <2>1. PICK step \in {"init", "refused"} : Goto(d, step)
    BY <1>3 DEF RemoveSocket
  <2>2. pc[d] = "remove" /\ path' = "nothing" /\ alone' = alone
    BY <1>3 DEF RemoveSocket
  <2> QED BY <2>1, <2>2, RunKeepsPath DEF Running, Startup, Loop, Gone
<1>4. ASSUME NEW d \in Daemons, InitWithConfig(d) PROVE PcType' /\ PathInv'
  BY <1>4, RunKeepsPath DEF InitWithConfig, Running, Startup, Loop, Gone
<1>5. ASSUME NEW d \in Daemons, Listen(d) PROVE PcType' /\ PathInv'
  BY <1>5, RunKeepsPath DEF Listen, Running, Startup, Loop, Gone
<1>6. ASSUME NEW d \in Daemons, Chmod(d) PROVE PcType' /\ PathInv'
  BY <1>6, RunKeepsPath DEF Chmod, Running, Startup, Loop, Gone
<1>7. ASSUME NEW d \in Daemons, Accept(d) PROVE PcType' /\ PathInv'
  BY <1>7, RunKeepsPath DEF Accept, Running, Startup, Loop, Gone
<1>8. ASSUME NEW d \in Daemons, AcceptFails(d) PROVE PcType' /\ PathInv'
  BY <1>8, RunKeepsPath DEF AcceptFails, Running, Loop, Gone, Ending
<1>9. ASSUME NEW d \in Daemons, ReadFrame(d) PROVE PcType' /\ PathInv'
  <2>1. PICK step \in {"execute", "reply", "close"} : Goto(d, step)
    BY <1>9 DEF ReadFrame
  <2>2. pc[d] = "read" /\ UNCHANGED <<path, alone>>
    BY <1>9 DEF ReadFrame
  <2> QED BY <2>1, <2>2, RunKeepsPath DEF Running, Loop, Gone
<1>10. ASSUME NEW d \in Daemons, Execute(d) PROVE PcType' /\ PathInv'
  BY <1>10, RunKeepsPath DEF Execute, Running, Loop, Gone
<1>11. ASSUME NEW d \in Daemons, WriteFrame(d) PROVE PcType' /\ PathInv'
  BY <1>11, RunKeepsPath DEF WriteFrame, Running, Loop, Gone
<1>12. ASSUME NEW d \in Daemons, CloseConn(d) PROVE PcType' /\ PathInv'
  <2>1. PICK step \in {"unlink", "accept"} : Goto(d, step)
    BY <1>12 DEF CloseConn
  <2>2. pc[d] = "close" /\ UNCHANGED <<path, alone>>
    BY <1>12 DEF CloseConn
  <2> QED BY <2>1, <2>2, RunKeepsPath DEF Running, Loop, Gone, Ending
<1>13. ASSUME NEW d \in Daemons, Unlink(d) \/ CloseListener(d) \/ Shutdown(d)
       PROVE  PcType' /\ PathInv'
  <2>1. PICK step \in {"lnclose", "shutdown", "exited"} : Goto(d, step)
    BY <1>13 DEF Unlink, CloseListener, Shutdown
  <2>2. pc[d] \in Ending /\ alone' = alone
    BY <1>13 DEF Unlink, CloseListener, Shutdown, Ending
  <2> QED BY <2>1, <2>2, RunKeepsPath DEF Running, Loop, Gone, Ending
<1>14. ASSUME NEW d \in Daemons, Crash(d) PROVE PcType' /\ PathInv'
  BY <1>14, RunKeepsPath DEF Crash, Running, Loop, Gone
<1>15. ASSUME NEW c \in Clients, Dial(c) \/ Send(c) \/ Kill(c)
       PROVE  PcType' /\ PathInv'
  <2>1. UNCHANGED <<path, pc, alone>>
    BY <1>15 DEF Dial, Send, Kill
  <2> QED BY <2>1 DEF PcType, PathInv, Running
<1>16. CASE UNCHANGED vars
  BY <1>16 DEF vars, PcType, PathInv, Running
<1> QED
  BY <1>1, <1>2, <1>3, <1>4, <1>5, <1>6, <1>7, <1>8, <1>9, <1>10, <1>11, <1>12,
     <1>13, <1>14, <1>15, <1>16
  DEF Next, Run

(***************************************************************************)
(* While daemons are run one after the other, what a daemon found at the   *)
(* path, or put there, is there until it removes it (run).                 *)
(***************************************************************************)
THEOREM PathCorrect == Spec => [](PcType /\ PathInv)
<1>1. PcType /\ PathInv /\ [Next]_vars => (PcType /\ PathInv)'
  BY NextPath
<1> QED BY <1>1, InitPath, PTL DEF Spec

(***************************************************************************)
(* A daemon that accepts connections can be reached at its path, for any   *)
(* number of daemons that are run one after the other, with any number of  *)
(* them killed: what one leaves, or removes on its way out, never hides    *)
(* the next (run, prepareSocketPath).                                      *)
(***************************************************************************)
THEOREM ListenerCorrect == Spec => []ListenerReachable
<1>1. PathInv => ListenerReachable
  BY DEF PathInv, ListenerReachable
<1> QED BY <1>1, PathCorrect, PTL

(***************************************************************************)
(* Once a daemon that runs alone has looked at the path, neither the       *)
(* removal of an old socket nor net.Listen nor os.Chmod refuses it.        *)
(***************************************************************************)
THEOREM StartCorrect == Spec => NeverRefused
<1>1. ASSUME PcType, PathInv, [Next]_vars,
             NEW d \in Daemons, alone, pc[d] \in {"remove", "listen", "chmod"}
      PROVE  pc'[d] # "refused"
  <2>1. /\ pc[d] = "remove" => path # "nothing"
        /\ pc[d] = "listen" => path = "nothing"
        /\ pc[d] = "chmod" => path = d
    BY <1>1 DEF PathInv
  <2>2. ASSUME NEW e \in Daemons, NEW step, Goto(e, step), e # d PROVE pc'[d] = pc[d]
    BY <1>1, <2>2 DEF Goto, PcType
  <2>3. ASSUME NEW e \in Daemons, Start(e) \/ Run(e) \/ AcceptFails(e) \/ Crash(e), e # d
        PROVE  pc'[d] = pc[d]
    BY <2>2, <2>3
    DEF Start, Run, AcceptFails, Crash, prepareSocketPath, RemoveSocket,
        InitWithConfig, Listen, Chmod, Accept, ReadFrame, Execute, WriteFrame,
        CloseConn, Unlink, CloseListener, Shutdown
  <2>4. ASSUME NEW step, Goto(d, step) PROVE pc'[d] = step
    BY <1>1, <2>4 DEF Goto, PcType
  <2>5. CASE Start(d) \/ Run(d) \/ AcceptFails(d) \/ Crash(d)
    BY <1>1, <2>1, <2>4, <2>5, DaemonsAssumption
    DEF Start, Run, AcceptFails, Crash, prepareSocketPath, RemoveSocket,
        InitWithConfig, Listen, Chmod, Accept, ReadFrame, Execute, WriteFrame,
        CloseConn, Unlink, CloseListener, Shutdown
  <2>6. ASSUME NEW c \in Clients, Dial(c) \/ Send(c) \/ Kill(c) PROVE pc' = pc
    BY <2>6 DEF Dial, Send, Kill
  <2> QED BY <1>1, <2>3, <2>5, <2>6 DEF Next, vars
<1>2. PcType /\ PathInv /\ [Next]_vars =>
        [\A d \in Daemons :
            alone /\ pc[d] \in {"remove", "listen", "chmod"} => pc'[d] # "refused"]_vars
  BY <1>1
<1> QED BY <1>2, PathCorrect, PTL DEF Spec, NeverRefused

=============================================================================
