--------------------------- MODULE ServerApi_proofs ---------------------------
(***************************************************************************)
(* The safety theorems of ServerApi, for any number of instances, clients  *)
(* and repositories.  IInv is inductive; the properties follow from it.    *)
(***************************************************************************)
EXTENDS ServerApi, TLAPS

LEMMA InitIInv == Init => IInv
<1> SUFFICES ASSUME Init PROVE IInv
  OBVIOUS
<1> USE NoneAssumption, WorkloadAssumption DEF Init
<1>1. TypeOK
  BY DEF TypeOK, Phases, Stages, Answers, Requests
<1>2. LockHeld /\ ThreadsLive /\ MutexHeld
  BY DEF LockHeld, ThreadsLive, MutexHeld, Active, InThread, Holding
<1>3. ChildrenWaited /\ LockInherited /\ OneGitboardPerInstance
  BY DEF ChildrenWaited, LockInherited, OneGitboardPerInstance, Gitboards
<1> QED BY <1>1, <1>2, <1>3 DEF IInv

\* The end of a live instance: whatever it leaves running, no invariant breaks.
LEMMA EndsKeeps ==
  ASSUME IInv, NEW i \in Instances, NEW how \in Stopped, Ends(i, how),
         phase[i] = "exiting" => how = "exited",
         phase[i] \in Active \union {"exiting"}
  PROVE  IInv'
<1> USE NoneAssumption DEF IInv, Ends
<1>1. TypeOK'
  BY DEF TypeOK, Phases, Stages, Stopped
<1>2. LockHeld'
  BY DEF LockHeld, TypeOK, Active, Stopped
<1>3. ThreadsLive'
  BY DEF ThreadsLive, TypeOK, InThread, Holding
<1>4. MutexHeld'
  BY DEF MutexHeld, TypeOK, InThread, Stages, Holding
<1>5. ChildrenWaited'
  BY DEF ChildrenWaited, TypeOK, Gitboards, InThread, Holding, Stopped, Active
<1>6. LockInherited'
  <2> SUFFICES ASSUME Posix, NEW k \in children, ~Unwound(k.inst)'
               PROVE  lockOwner' = k.inst
    BY DEF LockInherited
  <2>1. ~Unwound(k.inst)
    BY DEF Unwound, TypeOK, Active
  <2>2. lockOwner = k.inst
    BY <2>1 DEF LockInherited
  <2> QED BY <2>2 DEF ChildrenOf
<1>7. OneGitboardPerInstance'
  BY DEF OneGitboardPerInstance, Gitboards
<1> QED BY <1>1, <1>2, <1>3, <1>4, <1>5, <1>6, <1>7

\* A handler that answers releases the mutex it alone held.
LEMMA ReturnKeeps ==
  ASSUME IInv, NEW c \in Clients, NEW status \in Answers, Return(c, status),
         stage[c] \in Holding, children' = children, repos' \subseteq Repos,
         stage[c] = "child" => ChildOf(c) = {}
  PROVE  IInv'
<1> USE DEF IInv, Return, Goto
<1>1. TypeOK'
  BY DEF TypeOK, Stages, InThread
<1>2. LockHeld' /\ LockInherited' /\ OneGitboardPerInstance'
  BY DEF LockHeld, LockInherited, Unwound, OneGitboardPerInstance, Gitboards
<1>3. ThreadsLive'
  BY DEF ThreadsLive, TypeOK, InThread
<1>4. MutexHeld'
  BY DEF MutexHeld, ThreadsLive, TypeOK, Holding, InThread
<1>5. ChildrenWaited'
  BY DEF ChildrenWaited, TypeOK, Gitboards, ChildOf, Holding
<1> QED BY <1>1, <1>2, <1>3, <1>4, <1>5

\* A gitboard child is launched when its instance has no other: any other would
\* have a handler waiting for it, which would hold the same mutex.
LEMMA LaunchKeeps ==
  ASSUME IInv, NEW c \in Clients, NEW prog \in {"gitboard", "picker"}, Launch(c, prog),
         stage[c] \in Holding, left' \in [Clients -> Nat],
         stage[c] = "child" => ChildOf(c) = {}
  PROVE  IInv'
<1> USE DEF IInv, Launch, Goto, Child
<1>0. /\ conn[c] \in Instances
      /\ phase[conn[c]] \in Active \union {"exiting"}
  BY DEF ThreadsLive, InThread, Holding
<1>1. TypeOK'
  <2>1. children' \subseteq [inst : Instances, client : Clients \union {Nobody},
                             prog : {"gitboard", "picker", "opener"}]
    BY <1>0 DEF TypeOK
  <2>2. stage' \in [Clients -> Stages]
    BY DEF TypeOK, Stages, InThread, Holding
  <2> QED BY <2>1, <2>2 DEF TypeOK
<1>2. LockHeld'
  BY DEF LockHeld
<1>3. ThreadsLive'
  BY DEF ThreadsLive, TypeOK, InThread, Holding
<1>4. MutexHeld'
  BY DEF MutexHeld, TypeOK, Holding
<1>5. ChildrenWaited'
  BY <1>0 DEF ChildrenWaited, TypeOK, Gitboards
<1>6. LockInherited'
  <2> SUFFICES ASSUME Posix, NEW k \in children', ~Unwound(k.inst)
               PROVE  lockOwner = k.inst
    BY DEF LockInherited, Unwound
  <2>1. k.inst = conn[c] => lockOwner = conn[c]
    BY <1>0 DEF Unwound, LockHeld
  <2> QED BY <2>1 DEF LockInherited
<1>7. OneGitboardPerInstance'
  <2> SUFFICES ASSUME NEW k \in Gitboards, prog = "gitboard", k.inst = conn[c]
               PROVE  FALSE
    BY DEF OneGitboardPerInstance, Gitboards
  <2>1. k.client \in Clients /\ stage[k.client] = "child" /\ conn[k.client] = conn[c]
    BY <1>0 DEF ChildrenWaited, Active, Stopped
  <2>2. k.client = c
    BY <2>1 DEF MutexHeld, Holding
  <2> QED BY <2>1, <2>2 DEF ChildOf, Gitboards
<1> QED BY <1>1, <1>2, <1>3, <1>4, <1>5, <1>6, <1>7

\* Every step keeps the invariant.
LEMMA StepIInv == IInv /\ [Next]_vars => IInv'
<1> SUFFICES ASSUME IInv, [Next]_vars PROVE IInv'
  OBVIOUS
<1> USE NoneAssumption
<1>1. ASSUME NEW i \in Instances, TryLock(i) PROVE IInv'
  <2> USE <1>1 DEF TryLock, clientVars
  <2>1. TypeOK'
    BY DEF IInv, TypeOK, Phases, Active, Stopped
  <2>2. LockHeld' /\ ThreadsLive'
    BY DEF IInv, TypeOK, LockHeld, ThreadsLive, Active, Stopped
  <2>3. MutexHeld' /\ ChildrenWaited' /\ OneGitboardPerInstance'
    BY DEF IInv, TypeOK, MutexHeld, ChildrenWaited, OneGitboardPerInstance, Gitboards, Stopped
  <2>4. LockInherited'
    BY DEF IInv, TypeOK, LockInherited, Unwound
  <2> QED BY <2>1, <2>2, <2>3, <2>4 DEF IInv
<1>2. ASSUME NEW i \in Instances, Listen(i) PROVE IInv'
  <2> USE <1>2 DEF Listen, clientVars, Child
  <2>1. TypeOK'
    BY DEF IInv, TypeOK, Phases, Active
  <2>2. LockHeld' /\ ThreadsLive'
    BY DEF IInv, TypeOK, LockHeld, ThreadsLive, Active
  <2>3. MutexHeld' /\ ChildrenWaited' /\ OneGitboardPerInstance'
    BY DEF IInv, TypeOK, MutexHeld, ChildrenWaited, OneGitboardPerInstance, Gitboards, Stopped
  <2>4. LockInherited'
    BY DEF IInv, TypeOK, LockHeld, LockInherited, Unwound, Active
  <2> QED BY <2>1, <2>2, <2>3, <2>4 DEF IInv
<1>3. ASSUME NEW i \in Instances, OpenerReturns(i) PROVE IInv'
  <2> USE <1>3 DEF OpenerReturns, clientVars
  <2>1. TypeOK' /\ LockHeld' /\ ThreadsLive'
    BY DEF IInv, TypeOK, LockHeld, ThreadsLive, Phases, Active
  <2>2. MutexHeld' /\ ChildrenWaited' /\ OneGitboardPerInstance' /\ LockInherited'
    BY DEF IInv, TypeOK, MutexHeld, ChildrenWaited, OneGitboardPerInstance, Gitboards,
           Stopped, LockInherited, Unwound
  <2> QED BY <2>1, <2>2 DEF IInv
<1>4. ASSUME NEW i \in Instances, Unwind(i) PROVE IInv'
  <2> USE <1>4 DEF Unwind, clientVars
  <2>1. TypeOK'
    BY DEF IInv, TypeOK, Phases
  <2>2. LockHeld' /\ ThreadsLive'
    BY DEF IInv, TypeOK, LockHeld, ThreadsLive, Active
  <2>3. MutexHeld' /\ ChildrenWaited' /\ OneGitboardPerInstance'
    BY DEF IInv, TypeOK, MutexHeld, ChildrenWaited, OneGitboardPerInstance, Gitboards, Stopped
  <2>4. LockInherited'
    <3> SUFFICES ASSUME Posix, NEW k \in children, ~Unwound(k.inst)'
                 PROVE  FALSE
      BY DEF LockInherited
    <3>1. k.inst # i /\ ~Unwound(k.inst)
      BY DEF IInv, TypeOK, Unwound
    <3>2. lockOwner = k.inst
      BY <3>1 DEF IInv, LockInherited
    <3>3. lockOwner = i
      BY DEF IInv, LockHeld, Active
    <3> QED BY <3>1, <3>2, <3>3
  <2> QED BY <2>1, <2>2, <2>3, <2>4 DEF IInv
<1>5. ASSUME NEW i \in Instances, Exit(i) PROVE IInv'
  BY <1>5, EndsKeeps DEF Exit, Stopped, Active
<1>6. ASSUME NEW i \in Instances, Kill(i) PROVE IInv'
  <2>1. /\ Ends(i, "killed")
        /\ phase[i] \in Active \union {"exiting"}
        /\ phase[i] # "exiting"
    BY <1>6 DEF Kill, Active
  <2>2. "killed" \in Stopped
    BY DEF Stopped
  <2> QED BY <2>1, <2>2, EndsKeeps, Zenon
<1>7. ASSUME NEW k \in children, ChildExits(k) PROVE IInv'
  <2> USE <1>7 DEF ChildExits, clientVars
  <2>1. TypeOK'
    BY DEF IInv, TypeOK
  <2>2. LockHeld' /\ ThreadsLive' /\ MutexHeld'
    BY DEF IInv, TypeOK, LockHeld, ThreadsLive, MutexHeld, Active, Stopped
  <2>3. ChildrenWaited' /\ OneGitboardPerInstance'
    BY DEF IInv, ChildrenWaited, OneGitboardPerInstance, Gitboards
  <2>4. LockInherited'
    BY DEF IInv, LockInherited, Unwound, ChildrenOf
  <2> QED BY <2>1, <2>2, <2>3, <2>4 DEF IInv
<1>8. ASSUME NEW c \in Clients, NEW i \in Instances, Connect(c, i) PROVE IInv'
  <2> USE <1>8 DEF Connect, Goto, procVars
  <2>1. TypeOK'
    BY DEF IInv, TypeOK, Stages
  <2>2. ThreadsLive' /\ MutexHeld'
    BY DEF IInv, TypeOK, ThreadsLive, MutexHeld, InThread, Holding, Active
  <2>3. ChildrenWaited'
    BY DEF IInv, TypeOK, ChildrenWaited, Gitboards
  <2>4. LockHeld' /\ LockInherited' /\ OneGitboardPerInstance'
    BY DEF IInv, LockHeld, LockInherited, Unwound, OneGitboardPerInstance, Gitboards
  <2> QED BY <2>1, <2>2, <2>3, <2>4 DEF IInv
<1>9. ASSUME NEW c \in Clients, \/ Disconnect(c) \/ Accept(c) \/ ReadRequest(c)
                                \/ LoadConfig(c) \/ AcquireMutex(c)
      PROVE  IInv'
  <2> USE <1>9 DEF Disconnect, Accept, ReadRequest, LoadConfig, AcquireMutex, Goto, procVars
  <2>1. TypeOK'
    BY DEF IInv, TypeOK, Stages, InThread, Holding, Answers
  <2>2. ThreadsLive'
    BY DEF IInv, TypeOK, ThreadsLive, InThread, Holding
  <2>3. MutexHeld'
    BY DEF IInv, TypeOK, ThreadsLive, MutexHeld, InThread, Holding
  <2>4. ChildrenWaited'
    BY DEF IInv, TypeOK, ChildrenWaited, Gitboards
  <2>5. LockHeld' /\ LockInherited' /\ OneGitboardPerInstance'
    BY DEF IInv, LockHeld, LockInherited, Unwound, OneGitboardPerInstance, Gitboards
  <2> QED BY <2>1, <2>2, <2>3, <2>4, <2>5 DEF IInv
<1>10. ASSUME NEW c \in Clients, \/ AddRepo(c) \/ DeleteRepo(c) \/ UnknownRepo(c)
                                 \/ HandlerThrows(c)
       PROVE  IInv'
  <2>1. PICK status \in Answers : Return(c, status)
    BY <1>10 DEF AddRepo, DeleteRepo, UnknownRepo, HandlerThrows, Answers
  <2>2. /\ stage[c] \in {"handling", "loaded"}
        /\ children' = children
        /\ repos' \subseteq Repos
    BY <1>10 DEF AddRepo, DeleteRepo, UnknownRepo, HandlerThrows, IInv, TypeOK, Requests
  <2> QED BY <2>1, <2>2, ReturnKeeps DEF Holding
<1>11. ASSUME NEW c \in Clients, LaunchBatch(c) \/ LaunchPicker(c) PROVE IInv'
  <2>1. PICK prog \in {"gitboard", "picker"} : Launch(c, prog)
    BY <1>11 DEF LaunchBatch, LaunchPicker
  <2>2. stage[c] \in {"handling", "loaded"} /\ left' \in [Clients -> Nat]
    BY <1>11, MaxRunsAssumption DEF LaunchBatch, LaunchPicker, IInv, TypeOK
  <2> QED BY <2>1, <2>2, LaunchKeeps DEF Holding
<1>12. ASSUME NEW c \in Clients, ReapChild(c) PROVE IInv'
  <2>1. ASSUME left[c] > 0, NEW prog \in {"gitboard", "picker"}, Launch(c, prog)
        PROVE  IInv'
    <3>1. left' \in [Clients -> Nat]
      BY <1>12, <2>1 DEF ReapChild, Return, Launch, Goto, IInv, TypeOK
    <3> QED BY <1>12, <2>1, <3>1, LaunchKeeps DEF ReapChild, Holding
  <2>2. ASSUME NEW status \in Answers, Return(c, status), UNCHANGED <<children, repos>>
        PROVE  IInv'
    BY <1>12, <2>2, ReturnKeeps DEF ReapChild, Holding, IInv, TypeOK
  <2> QED BY <1>12, <2>1, <2>2 DEF ReapChild, Answers
<1>13. ASSUME NEW c \in Clients, SendResponse(c) PROVE IInv'
  <2>1. CASE Goto(c, "closed") /\ UNCHANGED <<procVars, conn, gone, request, loaded, left,
                                              repos, answer>>
    <3> USE <1>13, <2>1 DEF SendResponse, Goto, procVars
    <3>1. TypeOK' /\ ThreadsLive'
      BY DEF IInv, TypeOK, ThreadsLive, Stages, InThread, Holding
    <3>2. MutexHeld' /\ ChildrenWaited'
      BY DEF IInv, TypeOK, MutexHeld, ChildrenWaited, Gitboards, Holding
    <3>3. LockHeld' /\ LockInherited' /\ OneGitboardPerInstance'
      BY DEF IInv, LockHeld, LockInherited, Unwound, OneGitboardPerInstance, Gitboards
    <3> QED BY <3>1, <3>2, <3>3 DEF IInv
  <2>2. CASE Ends(conn[c], IF phase[conn[c]] = "exiting" THEN "exited" ELSE "sigpiped")
    <3>1. conn[c] \in Instances /\ phase[conn[c]] \in Active \union {"exiting"}
      BY <1>13 DEF SendResponse, IInv, ThreadsLive, InThread
    <3>2. "exited" \in Stopped /\ "sigpiped" \in Stopped
      BY DEF Stopped
    <3>3. CASE phase[conn[c]] = "exiting"
      BY <2>2, <3>1, <3>2, <3>3, EndsKeeps
    <3>4. CASE phase[conn[c]] # "exiting"
      <4>1. Ends(conn[c], "sigpiped")
        BY <2>2, <3>1, <3>4
      <4> QED BY <3>1, <3>2, <3>4, <4>1, EndsKeeps
    <3> QED BY <3>3, <3>4
  <2> QED BY <1>13, <2>1, <2>2 DEF SendResponse
<1>14. CASE UNCHANGED vars
  BY <1>14 DEF vars, procVars, clientVars, IInv, TypeOK, LockHeld, ThreadsLive, MutexHeld,
               ChildrenWaited, LockInherited, Unwound, OneGitboardPerInstance, Gitboards
<1> QED
  BY <1>1, <1>2, <1>3, <1>4, <1>5, <1>6, <1>7, <1>8, <1>9, <1>10, <1>11, <1>12, <1>13, <1>14
     DEF Next, Thread, Handle

THEOREM Invariant == Spec => []IInv
BY InitIInv, StepIInv, PTL DEF Spec

\* The variables keep their types.
THEOREM TypeCorrect == Spec => []TypeOK
<1>1. IInv => TypeOK
  BY DEF IInv
<1> QED BY <1>1, Invariant, PTL

\* Two servers with the same configuration directory are never at work together,
\* orphaned children included, unless one has unwound after an error.
THEOREM Exclusive == Spec => []InstancesExclude
<1>1. ASSUME IInv, NEW i \in Instances, AtWork(i), ~Unwound(i)
      PROVE  lockOwner = i
  <2>1. CASE phase[i] \in Active
    BY <1>1, <2>1 DEF IInv, LockHeld
  <2>2. ASSUME NEW c \in Clients, conn[c] = i, stage[c] \in InThread
        PROVE  lockOwner = i
    BY <1>1, <2>2 DEF IInv, LockHeld, ThreadsLive, Unwound
  <2>3. CASE Posix /\ ChildrenOf(i) # {}
    BY <1>1, <2>3 DEF IInv, LockInherited, ChildrenOf
  <2> QED BY <1>1, <2>1, <2>2, <2>3 DEF AtWork
<1>2. IInv => InstancesExclude
  BY <1>1 DEF InstancesExclude
<1> QED BY <1>2, Invariant, PTL

\* One server never runs two gitboard processes, orphans included.
THEOREM GitboardExclusive == Spec => []OneGitboardPerInstance
<1>1. IInv => OneGitboardPerInstance
  BY DEF IInv
<1> QED BY <1>1, Invariant, PTL

\* On POSIX the inherited flock keeps gitboard exclusive across restarts too,
\* until an instance unlocks it by leaving run_server with an exception.
THEOREM LockProtects == Spec => []InheritedLockProtects
<1>1. IInv => InheritedLockProtects
  BY DEF IInv, TypeOK, LockInherited, OneGitboardPerInstance, InheritedLockProtects,
         NoUnwinding, Gitboards
<1> QED BY <1>1, Invariant, PTL
-----------------------------------------------------------------------------
(* Serialisation: the handlers of one configuration directory implement    *)
(* RepoRegistry as long as no server leaves its accept loop on an error.   *)

LEMMA InitSerialized == Init => SerializedInv
BY DEF Init, SerializedInv, InThread, Holding

\* Only one request is inside a handler, whichever server it was sent to.
LEMMA OneHandler ==
  ASSUME IInv, SerializedInv, NEW c \in Clients, NEW d \in Clients,
         stage[c] \in Holding, stage[d] \in Holding
  PROVE  c = d
<1>1. lockOwner = conn[c] /\ lockOwner = conn[d]
  BY DEF IInv, SerializedInv, LockHeld, ThreadsLive, InThread, Active
<1>2. mutex[conn[c]] = c /\ mutex[conn[d]] = d
  BY DEF IInv, MutexHeld
<1> QED BY <1>1, <1>2

\* The conjuncts of SerializedInv that a step of c's own thread can disturb.
LEMMA StepSerialized ==
  ASSUME ~AcceptErrors, IInv, IInv', SerializedInv, [Next]_vars
  PROVE  SerializedInv'
<1> USE DEF IInv, SerializedInv
<1>1. ASSUME NEW i \in Instances, TryLock(i) \/ Listen(i) \/ OpenerReturns(i) \/ Unwind(i)
      PROVE  SerializedInv'
  <2>1. \A j \in Instances : phase[j] \in {"opening", "accepting"} =>
                             phase'[j] \in {"opening", "accepting"}
    BY <1>1 DEF TryLock, Listen, OpenerReturns, Unwind, TypeOK
  <2>2. UNCHANGED <<clientVars, repos, answer>>
    BY <1>1 DEF TryLock, Listen, OpenerReturns, Unwind
  <2> QED BY <2>1, <2>2 DEF clientVars, ThreadsLive
<1>2. ASSUME NEW i \in Instances, NEW how \in Stopped, Ends(i, how) PROVE SerializedInv'
  BY <1>2 DEF Ends, TypeOK, InThread, Holding
<1>3. ASSUME NEW k \in children, ChildExits(k) PROVE SerializedInv'
  BY <1>3 DEF ChildExits, clientVars
<1>4. ASSUME NEW c \in Clients, NEW i \in Instances, Connect(c, i) PROVE SerializedInv'
  BY <1>4 DEF Connect, Goto, procVars, TypeOK, InThread, Holding
<1>5. ASSUME NEW c \in Clients, \/ Disconnect(c) \/ Accept(c) \/ ReadRequest(c)
                                \/ AcquireMutex(c) \/ LoadConfig(c)
      PROVE  SerializedInv'
  BY <1>5 DEF Disconnect, Accept, ReadRequest, AcquireMutex, LoadConfig, Goto, procVars,
              TypeOK, InThread, Holding
<1>6. ASSUME NEW c \in Clients, NEW status, Return(c, status), stage[c] \in Holding
      PROVE  SerializedInv'
  BY <1>6, OneHandler DEF Return, Goto, TypeOK, InThread, Holding
<1>7. ASSUME NEW c \in Clients, NEW prog, Launch(c, prog), stage[c] \in Holding
      PROVE  SerializedInv'
  BY <1>7 DEF Launch, Goto, TypeOK, InThread, Holding
<1>8. ASSUME NEW c \in Clients, Handle(c) PROVE SerializedInv'
  BY <1>5, <1>6, <1>7, <1>8 DEF Handle, AddRepo, DeleteRepo, UnknownRepo, LaunchBatch,
     LaunchPicker, ReapChild, HandlerThrows, Holding
<1>9. ASSUME NEW c \in Clients, SendResponse(c) PROVE SerializedInv'
  <2>1. CASE Goto(c, "closed") /\ UNCHANGED <<procVars, conn, gone, request, loaded, left,
                                              repos, answer>>
    BY <1>9, <2>1 DEF Goto, procVars, TypeOK, InThread, Holding
  <2>2. conn[c] \in Instances
    BY <1>9 DEF SendResponse, ThreadsLive, InThread
  <2>3. "exited" \in Stopped /\ "sigpiped" \in Stopped
    BY DEF Stopped
  <2> QED BY <1>2, <1>9, <2>1, <2>2, <2>3 DEF SendResponse
<1>10. CASE UNCHANGED vars
  BY <1>10 DEF vars, procVars, clientVars
<1>11. ASSUME NEW i \in Instances, Exit(i) \/ Kill(i) PROVE SerializedInv'
  BY <1>2, <1>11 DEF Exit, Kill, Stopped
<1> QED
  BY <1>1, <1>3, <1>4, <1>5, <1>8, <1>9, <1>10, <1>11 DEF Next, Thread

Batches == {c \in Clients : stage[c] = "child" /\ request[c].kind = "batch"}

LEMMA InitRegistry == Init => Registry!Init
BY WorkloadAssumption DEF Init, Registry!Init

\* Every step of the server is a step of the abstract registry, or none.
LEMMA StepRegistry ==
  ASSUME IInv, SerializedInv, [Next]_vars
  PROVE  [Registry!Next]_(Registry!vars)
<1> DEFINE G == Registry!Next \/ UNCHANGED Registry!vars
<1> USE DEF Registry!vars
<1>0. /\ stage \in [Clients -> Stages] /\ answer \in [Clients -> Answers]
      /\ request \in [Clients -> Requests]
  BY DEF IInv, TypeOK
<1>1. ASSUME NEW i \in Instances, TryLock(i) \/ Listen(i) \/ OpenerReturns(i) \/ Unwind(i)
      PROVE  G
  BY <1>1 DEF TryLock, Listen, OpenerReturns, Unwind, clientVars
<1>2. ASSUME NEW i \in Instances, NEW how \in Stopped, Ends(i, how) PROVE G
  <2>1. Batches' \subseteq Batches /\ UNCHANGED <<repos, answer>>
    BY <1>0, <1>2 DEF Ends, Batches
  <2>2. CASE Batches' = Batches
    BY <2>1, <2>2 DEF Batches
  <2>3. CASE Batches' # Batches
    <3>1. Batches' = {} /\ Batches # {}
      BY <2>1, <2>3, OneHandler DEF Batches, Holding
    <3> QED BY <2>1, <3>1 DEF Registry!Next, Registry!Abandon, Batches
  <2> QED BY <2>2, <2>3
<1>3. ASSUME NEW k \in children, ChildExits(k) PROVE G
  BY <1>3 DEF ChildExits, clientVars
<1>4. ASSUME NEW c \in Clients, NEW i \in Instances, Connect(c, i) PROVE G
  BY <1>0, <1>4 DEF Connect, Goto
<1>5. ASSUME NEW c \in Clients, \/ Disconnect(c) \/ Accept(c) \/ AcquireMutex(c) \/ LoadConfig(c)
      PROVE  G
  BY <1>0, <1>5 DEF Disconnect, Accept, AcquireMutex, LoadConfig, Goto
<1>6. ASSUME NEW c \in Clients, ReadRequest(c) PROVE G
  <2>1. Batches' = Batches /\ UNCHANGED repos
    BY <1>0, <1>6 DEF ReadRequest, Goto, Batches
  <2>2. answer[c] = "none"
    BY <1>6 DEF ReadRequest, SerializedInv
  <2>3. answer' = answer \/ answer' = [answer EXCEPT ![c] = "other"]
    BY <1>6 DEF ReadRequest
  <2> QED BY <2>1, <2>2, <2>3 DEF Registry!Next, Registry!Other, Registry!Decide, Batches
<1>7. ASSUME NEW c \in Clients, stage[c] \in {"handling", "loaded"}
      PROVE  /\ Batches = {}
             /\ answer[c] = "none"
             /\ \A status : Return(c, status) => Batches' = {}
  BY <1>0, <1>7, OneHandler DEF Batches, Holding, Return, Goto, SerializedInv
<1>8. ASSUME NEW c \in Clients, AddRepo(c) PROVE G
  BY <1>0, <1>7, <1>8 DEF AddRepo, Return, SerializedInv, Requests, Batches,
     Registry!Next, Registry!Add, Registry!Decide
<1>9. ASSUME NEW c \in Clients, DeleteRepo(c) PROVE G
  BY <1>0, <1>7, <1>9 DEF DeleteRepo, Return, SerializedInv, Requests, Batches,
     Registry!Next, Registry!Remove, Registry!Decide
<1>10. ASSUME NEW c \in Clients, UnknownRepo(c) PROVE G
  BY <1>0, <1>7, <1>10 DEF UnknownRepo, Return, SerializedInv, Requests, Batches,
     Registry!Next, Registry!RefuseBatch, Registry!Decide
<1>11. ASSUME NEW c \in Clients, HandlerThrows(c) PROVE G
  BY <1>0, <1>7, <1>11 DEF HandlerThrows, Return, Batches,
     Registry!Next, Registry!Other, Registry!Decide
<1>12. ASSUME NEW c \in Clients, LaunchBatch(c) PROVE G
  <2>1. Batches = {} /\ Batches' = {c}
    BY <1>0, <1>7, <1>12 DEF LaunchBatch, Launch, Goto, Batches
  <2>2. request[c].repo \in repos \intersect Repos /\ answer[c] = "none" /\ UNCHANGED <<repos, answer>>
    BY <1>0, <1>7, <1>12 DEF LaunchBatch, Launch, SerializedInv, Requests
  <2> QED BY <2>1, <2>2 DEF Registry!Next, Registry!BeginBatch, Batches
<1>13. ASSUME NEW c \in Clients, LaunchPicker(c) PROVE G
  BY <1>0, <1>13 DEF LaunchPicker, Launch, Goto
<1>14. ASSUME NEW c \in Clients, ReapChild(c) PROVE G
  <2>0. answer[c] = "none" /\ stage[c] = "child"
    BY <1>14 DEF ReapChild, SerializedInv, Holding
  <2>1. ASSUME NEW prog, Launch(c, prog) PROVE G
    BY <1>0, <1>14, <2>1 DEF ReapChild, Launch, Goto
  <2>2. CASE UNCHANGED <<children, repos>> /\ request[c].kind = "batch" /\
             (Return(c, "ran") \/ Return(c, "500"))
    <3>1. Batches = {c} /\ Batches' = {}
      BY <1>0, <2>0, <2>2, OneHandler DEF Batches, Holding, Return, Goto
    <3> QED BY <2>0, <2>2, <3>1 DEF Return, Registry!Next, Registry!EndBatch, Registry!Decide, Batches
  <2>3. CASE UNCHANGED <<children, repos>> /\ request[c].kind # "batch" /\
             (Return(c, "other") \/ Return(c, "500"))
    <3>1. Batches = Batches'
      BY <1>0, <2>0, <2>3 DEF Batches, Return, Goto
    <3> QED BY <2>0, <2>3, <3>1 DEF Return, Registry!Next, Registry!Other, Registry!Decide, Batches
  <2> QED BY <1>14, <2>1, <2>2, <2>3 DEF ReapChild
<1>15. ASSUME NEW c \in Clients, SendResponse(c) PROVE G
  <2>1. CASE Goto(c, "closed") /\ UNCHANGED <<procVars, conn, gone, request, loaded, left,
                                              repos, answer>>
    BY <1>0, <1>15, <2>1 DEF SendResponse, Goto
  <2>2. conn[c] \in Instances
    BY <1>15 DEF IInv, SendResponse, ThreadsLive, InThread
  <2>3. "exited" \in Stopped /\ "sigpiped" \in Stopped
    BY DEF Stopped
  <2> QED BY <1>2, <1>15, <2>1, <2>2, <2>3 DEF SendResponse
<1>16. CASE UNCHANGED vars
  BY <1>16 DEF vars, clientVars
<1>17. ASSUME NEW i \in Instances, Exit(i) \/ Kill(i) PROVE G
  BY <1>2, <1>17 DEF Exit, Kill, Stopped
<1> QED
  BY <1>1, <1>3, <1>4, <1>5, <1>6, <1>8, <1>9, <1>10, <1>11, <1>12, <1>13, <1>14, <1>15,
     <1>16, <1>17 DEF Next, Thread, Handle

\* Requests are served one at a time: the whole server, with its threads, kills
\* and restarts, implements the atomic registry of RepoRegistry.
THEOREM Serialized == ASSUME ~AcceptErrors PROVE Spec => RegistrySpec
<1>1. Init => IInv /\ SerializedInv /\ Registry!Init
  BY InitIInv, InitSerialized, InitRegistry
<1>2. IInv /\ SerializedInv /\ [Next]_vars => IInv' /\ SerializedInv'
  BY StepIInv, StepSerialized
<1>3. IInv /\ SerializedInv /\ [Next]_vars => [Registry!Next]_(Registry!vars)
  BY StepRegistry
<1> QED BY <1>1, <1>2, <1>3, PTL DEF Spec, RegistrySpec, Registry!Spec

-----------------------------------------------------------------------------
(* Why every request ends.                                                 *)

\* What is left of a request: stages of its thread, then children to launch.
StageRank(c) == CASE stage[c] = "idle" -> 8
                  [] stage[c] = "backlog" -> 7
                  [] stage[c] = "reading" -> 6
                  [] stage[c] = "waiting" -> 5
                  [] stage[c] = "handling" -> 4
                  [] stage[c] = "loaded" -> 3
                  [] stage[c] = "child" -> 2
                  [] stage[c] = "reply" -> 1
                  [] OTHER -> 0
Rank(c) == <<StageRank(c), left[c]>>
Lower(a, b) == \/ a[1] < b[1]
               \/ a[1] = b[1] /\ a[2] < b[2]

Advances(c) == /\ Lower(Rank(c)', Rank(c)) \/ Rank(c)' = Rank(c)
               /\ Thread(c) \/ Accept(c) => Lower(Rank(c)', Rank(c))

LEMMA RankType == ASSUME IInv, NEW c \in Clients PROVE Rank(c) \in Nat \X Nat
<1>1. StageRank(c) \in Nat
  BY DEF StageRank
<1>2. left[c] \in Nat
  BY DEF IInv, TypeOK
<1> QED BY <1>1, <1>2 DEF Rank, StageRank

\* A step of the thread itself, or of the accept loop that creates it.
LEMMA ThreadLowers ==
  ASSUME IInv, NEW c \in Clients, Thread(c) \/ Accept(c)
  PROVE  /\ Lower(Rank(c)', Rank(c))
         /\ stage[c] \in InThread \union {"backlog"}
         /\ \/ \A d \in Clients \ {c} : stage'[d] = stage[d] /\ left'[d] = left[d]
            \/ Ends(conn[c], IF phase[conn[c]] = "exiting" THEN "exited" ELSE "sigpiped")
<1>0. stage \in [Clients -> Stages] /\ left \in [Clients -> Nat]
  BY DEF IInv, TypeOK
<1> DEFINE Others == \A d \in Clients \ {c} : stage'[d] = stage[d] /\ left'[d] = left[d]
<1>1. CASE Accept(c) \/ ReadRequest(c) \/ AcquireMutex(c) \/ LoadConfig(c)
  <2>1. left' = left /\ Others
    BY <1>0, <1>1 DEF Accept, ReadRequest, AcquireMutex, LoadConfig, Goto
  <2>2. StageRank(c)' < StageRank(c) /\ stage[c] \in InThread \union {"backlog"}
    BY <1>0, <1>1
    DEF Accept, ReadRequest, AcquireMutex, LoadConfig, Goto, StageRank, InThread, Holding
  <2> QED BY <2>1, <2>2 DEF Lower, Rank
<1>2. CASE AddRepo(c) \/ DeleteRepo(c) \/ UnknownRepo(c) \/ HandlerThrows(c)
  <2>1. /\ stage[c] \in {"handling", "loaded"} /\ stage'[c] = "reply" /\ left' = left /\ Others
    BY <1>0, <1>2 DEF AddRepo, DeleteRepo, UnknownRepo, HandlerThrows, Return, Goto
  <2>2. StageRank(c)' < StageRank(c)
    BY <2>1 DEF StageRank
  <2> QED BY <2>1, <2>2 DEF Lower, Rank, InThread, Holding
<1>3. CASE LaunchBatch(c) \/ LaunchPicker(c)
  <2>1. /\ stage[c] \in {"handling", "loaded"} /\ stage'[c] = "child" /\ Others
    BY <1>0, <1>3 DEF LaunchBatch, LaunchPicker, Launch, Goto
  <2>2. StageRank(c)' < StageRank(c)
    BY <2>1 DEF StageRank
  <2> QED BY <2>1, <2>2 DEF Lower, Rank, InThread, Holding
<1>4. CASE ReapChild(c)
  <2>1. stage[c] = "child" /\ Others
    BY <1>0, <1>4 DEF ReapChild, Return, Launch, Goto
  <2>2. \/ stage'[c] = "reply"
        \/ stage'[c] = "child" /\ left[c] > 0 /\ left'[c] = left[c] - 1
    BY <1>0, <1>4 DEF ReapChild, Return, Launch, Goto
  <2>3. left[c] \in Nat
    BY <1>0
  <2> QED BY <2>1, <2>2, <2>3 DEF Lower, Rank, StageRank, InThread, Holding
<1>5. CASE SendResponse(c)
  <2>1. stage[c] = "reply"
    BY <1>5 DEF SendResponse
  <2>2. CASE Goto(c, "closed") /\ left' = left
    <3>1. stage'[c] = "closed" /\ Others
      BY <1>0, <2>2 DEF Goto
    <3> QED BY <2>1, <3>1 DEF Lower, Rank, StageRank, InThread
  <2>3. CASE Ends(conn[c], IF phase[conn[c]] = "exiting" THEN "exited" ELSE "sigpiped")
    <3>1. stage'[c] = "lost"
      BY <2>1, <2>3 DEF Ends, InThread
    <3> QED BY <2>1, <2>3, <3>1 DEF Lower, Rank, StageRank, InThread
  <2> QED BY <1>5, <2>2, <2>3 DEF SendResponse
<1> QED BY <1>1, <1>2, <1>3, <1>4, <1>5 DEF Thread, Handle

\* The end of an instance takes its threads and its backlog with it.
LEMMA EndsLowers ==
  ASSUME IInv, NEW i \in Instances, NEW how, Ends(i, how), NEW c \in Clients
  PROVE  Lower(Rank(c)', Rank(c)) \/ Rank(c)' = Rank(c)
<1>1. /\ left' = left
      /\ \/ stage'[c] = stage[c]
         \/ stage'[c] = "lost" /\ stage[c] \in InThread \union {"backlog"}
  BY DEF Ends
<1>2. CASE stage'[c] = stage[c]
  BY <1>1, <1>2 DEF Rank, StageRank
<1>3. CASE stage'[c] = "lost" /\ stage[c] \in InThread \union {"backlog"}
  <2>1. StageRank(c)' < StageRank(c)
    BY <1>3 DEF StageRank, InThread, Holding
  <2> QED BY <2>1 DEF Lower, Rank
<1> QED BY <1>1, <1>2, <1>3

LEMMA StepAdvances ==
  ASSUME IInv, [Next]_vars, NEW c \in Clients
  PROVE  Advances(c)
<1> DEFINE Keeps == Lower(Rank(c)', Rank(c)) \/ Rank(c)' = Rank(c)
<1> SUFFICES Keeps
  BY ThreadLowers DEF Advances
<1>0. stage \in [Clients -> Stages] /\ left \in [Clients -> Nat]
  BY DEF IInv, TypeOK
<1>1. CASE stage' = stage /\ left' = left
  BY <1>1 DEF Rank, StageRank
<1>2. ASSUME NEW i \in Instances, TryLock(i) \/ Listen(i) \/ OpenerReturns(i) \/ Unwind(i)
      PROVE  Keeps
  BY <1>1, <1>2 DEF TryLock, Listen, OpenerReturns, Unwind, clientVars
<1>3. ASSUME NEW i \in Instances, Exit(i) \/ Kill(i) PROVE Keeps
  BY <1>3, EndsLowers DEF Exit, Kill
<1>4. ASSUME NEW k \in children, ChildExits(k) PROVE Keeps
  BY <1>1, <1>4 DEF ChildExits, clientVars
<1>5. ASSUME NEW d \in Clients, NEW i \in Instances, Connect(d, i) PROVE Keeps
  <2>1. /\ left' = left
        /\ \/ stage'[c] = stage[c]
           \/ stage[c] = "idle" /\ stage'[c] = "backlog"
    BY <1>0, <1>5 DEF Connect, Goto
  <2> QED BY <2>1 DEF Lower, Rank, StageRank
<1>6. ASSUME NEW d \in Clients, Disconnect(d) PROVE Keeps
  BY <1>1, <1>6 DEF Disconnect
<1>7. ASSUME NEW d \in Clients, Thread(d) \/ Accept(d) PROVE Keeps
  <2>1. CASE d = c
    BY <1>7, <2>1, ThreadLowers
  <2>2. CASE d # c /\ stage'[c] = stage[c] /\ left'[c] = left[c]
    BY <2>2 DEF Rank, StageRank
  <2>3. CASE Ends(conn[d], IF phase[conn[d]] = "exiting" THEN "exited" ELSE "sigpiped")
    <3>1. conn[d] \in Instances
      BY <1>7, ThreadLowers DEF IInv, ThreadsLive
    <3> QED BY <2>3, <3>1, EndsLowers
  <2> QED BY <1>7, <2>1, <2>2, <2>3, ThreadLowers
<1>8. CASE UNCHANGED vars
  BY <1>1, <1>8 DEF vars, clientVars
<1> QED BY <1>2, <1>3, <1>4, <1>5, <1>6, <1>7, <1>8 DEF Next

\* No request is ever sent back: every step of its thread leaves less of it to
\* do, and no step of another thread, of a client, a child or a server more.
THEOREM RequestsAdvance ==
  Spec => /\ [](\A c \in Clients : Rank(c) \in Nat \X Nat)
          /\ [][\A c \in Clients : Advances(c)]_vars
<1>1. IInv => \A c \in Clients : Rank(c) \in Nat \X Nat
  BY RankType
<1>2. IInv /\ [Next]_vars => [\A c \in Clients : Advances(c)]_vars
  BY StepAdvances
<1> QED BY <1>1, <1>2, Invariant, PTL DEF Spec

\* The mutex is held by nobody but a thread inside its handler.
MutexOwned == \A c \in Clients : \A i \in Instances :
                mutex[i] = c => conn[c] = i /\ stage[c] \in Holding

LEMMA StepMutexOwned == IInv /\ MutexOwned /\ [Next]_vars => MutexOwned'
<1> SUFFICES ASSUME IInv, MutexOwned, [Next]_vars PROVE MutexOwned'
  OBVIOUS
<1>0. /\ stage \in [Clients -> Stages] /\ conn \in [Clients -> Instances \union {NoInstance}]
      /\ mutex \in [Instances -> Clients \union {Nobody}]
  BY DEF IInv, TypeOK
<1> USE NoneAssumption DEF MutexOwned
<1>1. CASE UNCHANGED <<mutex, conn, stage>>
  BY <1>1
<1>2. ASSUME NEW i \in Instances, TryLock(i) \/ Listen(i) \/ OpenerReturns(i) \/ Unwind(i)
      PROVE  MutexOwned'
  BY <1>1, <1>2 DEF TryLock, Listen, OpenerReturns, Unwind, clientVars
<1>3. ASSUME NEW i \in Instances, NEW how, Ends(i, how) PROVE MutexOwned'
  BY <1>0, <1>3 DEF Ends
<1>4. ASSUME NEW k \in children, ChildExits(k) PROVE MutexOwned'
  BY <1>1, <1>4 DEF ChildExits, clientVars
<1>5. ASSUME NEW c \in Clients, NEW i \in Instances, Connect(c, i) PROVE MutexOwned'
  BY <1>0, <1>5 DEF Connect, Goto, procVars, Holding
<1>6. ASSUME NEW c \in Clients, Disconnect(c) \/ Accept(c) \/ ReadRequest(c) PROVE MutexOwned'
  BY <1>0, <1>6 DEF Disconnect, Accept, ReadRequest, Goto, procVars, Holding
<1>7. ASSUME NEW c \in Clients, AcquireMutex(c) PROVE MutexOwned'
  <2>1. conn[c] \in Instances /\ stage[c] = "waiting"
    BY <1>7 DEF AcquireMutex, IInv, ThreadsLive, InThread
  <2>2. mutex' = [mutex EXCEPT ![conn[c]] = c] /\ stage' = [stage EXCEPT ![c] = "handling"]
        /\ conn' = conn
    BY <1>7 DEF AcquireMutex, Goto
  <2> QED BY <1>0, <2>1, <2>2 DEF Holding
<1>8. ASSUME NEW c \in Clients, NEW status, Return(c, status), stage[c] \in Holding
      PROVE  MutexOwned'
  <2>1. conn[c] \in Instances /\ mutex[conn[c]] = c
    BY <1>8 DEF IInv, ThreadsLive, MutexHeld, InThread
  <2>2. mutex' = [mutex EXCEPT ![conn[c]] = Nobody] /\ stage' = [stage EXCEPT ![c] = "reply"]
        /\ conn' = conn
    BY <1>8 DEF Return, Goto
  <2> QED BY <1>0, <2>1, <2>2
<1>9. ASSUME NEW c \in Clients, NEW s \in Holding, Goto(c, s), mutex' = mutex, conn' = conn
      PROVE  MutexOwned'
  BY <1>0, <1>9 DEF Goto
<1>10. ASSUME NEW c \in Clients, Handle(c) PROVE MutexOwned'
  <2>1. CASE LoadConfig(c)
    BY <1>9, <2>1 DEF LoadConfig, procVars, Holding
  <2>2. CASE AddRepo(c) \/ DeleteRepo(c) \/ UnknownRepo(c) \/ HandlerThrows(c)
    BY <1>8, <2>2 DEF AddRepo, DeleteRepo, UnknownRepo, HandlerThrows, Holding
  <2>3. CASE LaunchBatch(c) \/ LaunchPicker(c)
    BY <1>9, <2>3 DEF LaunchBatch, LaunchPicker, Launch, Holding
  <2>4. CASE ReapChild(c)
    BY <1>8, <1>9, <2>4 DEF ReapChild, Launch, Holding
  <2> QED BY <1>10, <2>1, <2>2, <2>3, <2>4 DEF Handle
<1>11. ASSUME NEW c \in Clients, SendResponse(c) PROVE MutexOwned'
  <2>1. stage[c] = "reply" /\ conn[c] \in Instances
    BY <1>11 DEF SendResponse, IInv, ThreadsLive, InThread
  <2>2. CASE Goto(c, "closed") /\ UNCHANGED <<mutex, conn>>
    BY <1>0, <2>1, <2>2 DEF Goto, Holding
  <2>3. CASE Ends(conn[c], IF phase[conn[c]] = "exiting" THEN "exited" ELSE "sigpiped")
    BY <1>3, <2>1, <2>3
  <2> QED BY <1>11, <2>2, <2>3 DEF SendResponse, procVars
<1> QED BY <1>1, <1>2, <1>3, <1>4, <1>5, <1>6, <1>7, <1>10, <1>11
        DEF Next, Thread, Exit, Kill, vars, procVars, clientVars

\* Nobody waits for nothing: a thread that waits for the mutex finds it free, or
\* held by a thread of its own instance that is still inside its handler, through
\* throwing handlers, clients that leave and instances that end.
WaitsForWork ==
  \A c \in Clients :
    stage[c] = "waiting" /\ mutex[conn[c]] # Nobody =>
      \E d \in Clients :
        d = mutex[conn[c]] /\ conn[d] = conn[c] /\ stage[d] \in Holding

THEOREM NoThreadIsStuck == Spec => []WaitsForWork
<1>1. Init => MutexOwned
  BY NoneAssumption DEF Init, MutexOwned
<1>2. IInv /\ MutexOwned => WaitsForWork
  <2> SUFFICES ASSUME IInv, MutexOwned, NEW c \in Clients, stage[c] = "waiting",
                      mutex[conn[c]] # Nobody
               PROVE  \E d \in Clients :
                        d = mutex[conn[c]] /\ conn[d] = conn[c] /\ stage[d] \in Holding
    BY DEF WaitsForWork
  <2>1. conn[c] \in Instances
    BY DEF IInv, ThreadsLive, InThread
  <2>2. mutex[conn[c]] \in Clients
    BY <2>1 DEF IInv, TypeOK
  <2> WITNESS mutex[conn[c]] \in Clients
  <2> QED BY <2>1, <2>2 DEF MutexOwned
<1> QED BY <1>1, <1>2, StepMutexOwned, Invariant, PTL DEF Spec
=============================================================================
