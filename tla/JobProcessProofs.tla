-------------------------- MODULE JobProcessProofs --------------------------
(***************************************************************************)
(* Proofs about JobProcess, for any set of runs and any number of crashes. *)
(***************************************************************************)
EXTENDS JobProcess, TLAPS

Full(r) == {"agent"} \cup Directories(r) \cup Credential(r)

\* What a run holds is settled by how far it has come.
Staged ==
    \A r \in JobRun :
        /\ step[r] \in {"queued", "started"} => holds[r] = {}
        /\ step[r] \in {"agent", "keys"} => holds[r] = {"agent"}
        /\ step[r] \in {"prepared", "getting", "got", "running", "reported"} =>
              holds[r] = Full(r)

\* A command is alive while it is waited for, or left behind by a crash.
Attended ==
    \A r \in JobRun : command[r] # {} =>
        /\ step[r] \in {"getting", "running", "lost"}
        /\ holds[r] = Full(r)

\* Timers belong to commands.
Timed ==
    \A r \in JobRun : timer[r] # "off" => step[r] \in {"running", "reported", "done", "lost"}

\* A consumer has one run in hand.
OneInHand ==
    \A r, s \in JobRun : SameConsumer(r, s) /\ InHand(r) /\ InHand(s) => r = s

IInv ==
    /\ TypeOK
    /\ Staged
    /\ Attended
    /\ Timed
    /\ OneInHand
    /\ LeftoversMeanNoCommand

\* The actions of a run, for proofs that look at one run.
Act(r) == Prepare(r) \/ Perform(r) \/ FireTimer(r) \/ Process(r)

USE JobProcessAssumption

LEMMA InitIInv == Init => IInv
  BY DEF Init, IInv, TypeOK, Step, Staged, Attended, Timed, OneInHand, InHand,
         LeftoversMeanNoCommand

\* Only the entries of the run that acts change, each within its type.
LEMMA ActType ==
    ASSUME TypeOK, NEW r \in JobRun, Act(r)
    PROVE  /\ TypeOK'
           /\ \A s \in JobRun \ {r} :
                /\ step'[s] = step[s]
                /\ verdict'[s] = verdict[s]
                /\ holds'[s] = holds[s]
                /\ command'[s] = command[s]
                /\ timer'[s] = timer[s]
  <1> USE DEF TypeOK, Step, Kind, Resource, Go, Acquire, Report, Exec, Directories, Credential
  <1>1. CASE Begin(r) BY <1>1 DEF Begin
  <1>2. CASE StartAgent(r) BY <1>2 DEF StartAgent
  <1>3. CASE AddKeys(r) BY <1>3 DEF AddKeys
  <1>4. CASE RejectKey(r) BY <1>4 DEF RejectKey
  <1>5. CASE GetCmd(r) BY <1>5 DEF GetCmd
  <1>6. CASE GetCmdFails(r)
    <2>1. PICK file \in SUBSET {"credential"} : Acquire(r, Directories(r) \cup file)
      BY <1>6 DEF GetCmdFails
    <2>2. Directories(r) \cup file \in SUBSET Resource
      OBVIOUS
    <2>3. holds' = [holds EXCEPT ![r] = @ \cup (Directories(r) \cup file)]
      BY <2>1
    <2>4. holds' \in [JobRun -> SUBSET Resource]
      BY <2>2, <2>3
    <2> QED BY <1>6, <2>3, <2>4 DEF GetCmdFails
  <1>7. CASE StartGet(r) BY <1>7 DEF StartGet
  <1>8. CASE GetEnds(r) BY <1>8 DEF GetEnds
  <1>9. CASE Start(r) BY <1>9 DEF Start
  <1>10. CASE JobSuccess(r) BY <1>10 DEF JobSuccess
  <1>11. CASE JobFail(r) BY <1>11 DEF JobFail
  <1>12. CASE Cleanup(r) BY <1>12 DEF Cleanup
  <1>13. CASE FireTimer(r) BY <1>13 DEF FireTimer
  <1>14. CASE Fork(r) BY <1>14 DEF Fork
  <1>15. CASE \E p \in {"leader", "children"} : Exit(r, p) BY <1>15 DEF Exit
  <1> QED
    BY <1>1, <1>2, <1>3, <1>4, <1>5, <1>6, <1>7, <1>8, <1>9, <1>10, <1>11, <1>12,
       <1>13, <1>14, <1>15
    DEF Act, Prepare, Perform, Process

\* The invariant as it speaks of one run.
About(r) ==
    /\ step[r] \in {"queued", "started"} => holds[r] = {}
    /\ step[r] \in {"agent", "keys"} => holds[r] = {"agent"}
    /\ step[r] \in {"prepared", "getting", "got", "running", "reported"} => holds[r] = Full(r)
    /\ command[r] # {} => step[r] \in {"getting", "running", "lost"} /\ holds[r] = Full(r)
    /\ timer[r] # "off" => step[r] \in {"running", "reported", "done", "lost"}
    /\ step[r] = "done" /\ holds[r] # {} =>
          /\ verdict[r] = "failed"
          /\ timer[r] = "off"
          /\ KindOf[r] = "sync" => holds[r] = {"agent"}

LEMMA AboutAll ==
    (\A r \in JobRun : About(r)) <=> Staged /\ Attended /\ Timed /\ LeftoversMeanNoCommand
  BY DEF About, Staged, Attended, Timed, LeftoversMeanNoCommand

\* A run keeps its part of the invariant in each of its actions.
LEMMA ActAbout ==
    ASSUME TypeOK, NEW r \in JobRun, Act(r), About(r)
    PROVE  About(r)'
  <1> USE DEF TypeOK, Step, About, Full, Go, Acquire, Report, Exec
  <1>1. CASE Begin(r) BY <1>1 DEF Begin
  <1>2. CASE StartAgent(r) BY <1>2 DEF StartAgent
  <1>3. CASE AddKeys(r) BY <1>3 DEF AddKeys
  <1>4. CASE RejectKey(r) BY <1>4 DEF RejectKey
  <1>5. CASE GetCmd(r) BY <1>5 DEF GetCmd
  <1>6. CASE GetCmdFails(r) BY <1>6 DEF GetCmdFails
  <1>7. CASE StartGet(r) BY <1>7 DEF StartGet
  <1>8. CASE GetEnds(r) BY <1>8 DEF GetEnds, Exited
  <1>9. CASE Start(r) BY <1>9 DEF Start, MayStart
  <1>10. CASE JobSuccess(r) BY <1>10 DEF JobSuccess, Exited
  <1>11. CASE JobFail(r) BY <1>11 DEF JobFail, Exited
  <1>12. CASE Cleanup(r) BY <1>12 DEF Cleanup
  <1>13. CASE FireTimer(r) BY <1>13 DEF FireTimer
  <1>14. CASE Fork(r) BY <1>14 DEF Fork
  <1>15. CASE \E p \in {"leader", "children"} : Exit(r, p) BY <1>15 DEF Exit
  <1> QED
    BY <1>1, <1>2, <1>3, <1>4, <1>5, <1>6, <1>7, <1>8, <1>9, <1>10, <1>11, <1>12,
       <1>13, <1>14, <1>15
    DEF Act, Prepare, Perform, Process

\* Only Begin takes a run in hand, and only when the consumer's hands are empty.
LEMMA ActInHand ==
    ASSUME TypeOK, NEW r \in JobRun, Act(r)
    PROVE  \/ InHand(r)' => InHand(r)
           \/ \A s \in JobRun : SameConsumer(r, s) => ~InHand(s)
  <1> USE DEF TypeOK, InHand, Go
  <1>1. CASE Begin(r) BY <1>1 DEF Begin
  <1>2. CASE StartAgent(r) \/ AddKeys(r) \/ RejectKey(r) \/ GetCmd(r) \/ GetCmdFails(r)
    BY <1>2 DEF StartAgent, AddKeys, RejectKey, GetCmd, GetCmdFails
  <1>3. CASE Perform(r)
    BY <1>3 DEF Perform, StartGet, GetEnds, Start, MayStart, JobSuccess, JobFail, Cleanup
  <1>4. CASE FireTimer(r) \/ Process(r)
    BY <1>4 DEF FireTimer, Process, Fork, Exit
  <1> QED BY <1>1, <1>2, <1>3, <1>4 DEF Act, Prepare

LEMMA ActIInv ==
    ASSUME IInv, NEW r \in JobRun, Act(r)
    PROVE  IInv'
  <1>1. TypeOK' BY ActType DEF IInv
  <1>2. ASSUME NEW s \in JobRun PROVE About(s)'
    <2>1. About(s) BY AboutAll DEF IInv
    <2>2. CASE s = r BY <2>1, <2>2, ActAbout DEF IInv
    <2>3. CASE s # r BY <2>1, <2>3, ActType DEF IInv, About, Full, Directories, Credential
    <2> QED BY <2>2, <2>3
  <1>3. OneInHand'
    <2> SUFFICES ASSUME NEW s \in JobRun, NEW t \in JobRun,
                        SameConsumer(s, t), InHand(s)', InHand(t)'
                 PROVE  s = t
      BY DEF OneInHand, SameConsumer
    <2>1. \A x \in JobRun \ {r} : InHand(x)' <=> InHand(x)
      BY ActType DEF IInv, InHand
    <2>2. CASE InHand(r)' => InHand(r) BY <2>1, <2>2 DEF IInv, OneInHand
    <2>3. CASE \A x \in JobRun : SameConsumer(r, x) => ~InHand(x)
      BY <2>1, <2>3 DEF IInv, OneInHand, SameConsumer
    <2> QED BY <2>2, <2>3, ActInHand DEF IInv
  <1>4. Staged' /\ Attended' /\ Timed' /\ LeftoversMeanNoCommand'
    BY <1>2 DEF About, Staged, Attended, Timed, LeftoversMeanNoCommand
  <1> QED BY <1>1, <1>3, <1>4 DEF IInv

LEMMA CrashIInv ==
    ASSUME IInv, Crash
    PROVE  IInv'
  <1> USE DEF IInv, TypeOK, Step, Crash, InHand
  <1>1. TypeOK' OBVIOUS
  <1>2. Staged' BY DEF Staged, Full
  <1>3. Attended' BY DEF Attended, Full
  <1>4. Timed' BY DEF Timed
  <1>5. OneInHand' BY DEF OneInHand
  <1>6. LeftoversMeanNoCommand' BY DEF LeftoversMeanNoCommand, Timed
  <1> QED BY <1>1, <1>2, <1>3, <1>4, <1>5, <1>6

\* The invariant is inductive.
THEOREM Inductive == Spec => []IInv
  <1>1. IInv /\ [Next]_vars => IInv'
    <2> SUFFICES ASSUME IInv, [Next]_vars PROVE IInv'
      OBVIOUS
    <2>1. CASE \E r \in JobRun : Act(r) BY <2>1, ActIInv
    <2>2. CASE Crash BY <2>2, CrashIInv
    <2>3. CASE UNCHANGED vars
      BY <2>3 DEF vars, IInv, TypeOK, Staged, Attended, Timed, OneInHand, InHand,
                  LeftoversMeanNoCommand, Full
    <2> QED BY <2>1, <2>2, <2>3 DEF Next, Act
  <1> QED BY InitIInv, <1>1, PTL DEF Spec

\* Every variable keeps its type.
THEOREM TypeCorrect == Spec => []TypeOK
  <1>1. IInv => TypeOK BY DEF IInv
  <1> QED BY <1>1, Inductive, PTL

\* The clean-up a run defers never takes the agent, the directories or the
\* credential file from under a process of its command.
THEOREM FilesStay == Spec => []FilesOutliveCommand
  <1>1. IInv => FilesOutliveCommand
    BY DEF IInv, Attended, Full, FilesOutliveCommand
  <1> QED BY <1>1, Inductive, PTL

\* A run that started a command leaves nothing on the node, whatever its verdict.
THEOREM LittleIsLeft == Spec => []LeftoversMeanNoCommand
  <1>1. IInv => LeftoversMeanNoCommand BY DEF IInv
  <1> QED BY <1>1, Inductive, PTL

\* Two commands of one consumer are alive together only after a crash.
THEOREM CommandsTakeTurns == Spec => []OneCommandAtATime
  <1>1. IInv => OneCommandAtATime
    BY DEF IInv, Attended, OneInHand, InHand, OneCommandAtATime
  <1> QED BY <1>1, Inductive, PTL

=============================================================================
