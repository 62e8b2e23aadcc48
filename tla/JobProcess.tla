----------------------------- MODULE JobProcess -----------------------------
(***************************************************************************)
(* What a run does to its node, as ansibleRun, terraformRun and Sync and   *)
(* the getCmd of each do it: the ssh-agent it starts, the directories and  *)
(* the cloud credential file it creates, the command it runs in a session  *)
(* of its own and the timer that kills the command.  A node runs two       *)
(* consumers, one for Ansible jobs and project updates and one for         *)
(* Terraform jobs, each of them one run at a time.                         *)
(*                                                                         *)
(* A command is its leader, the process cmd.Start started, and children    *)
(* that inherited its output.  cmd.Wait copies the output to a buffer, so  *)
(* it returns when the leader and the children are gone.                   *)
(***************************************************************************)
EXTENDS Naturals

CONSTANTS
    JobRun,     \* the runs this node is handed
    KindOf,     \* [JobRun -> {"ansible", "terraform", "sync"}]
    KeyOf,      \* [JobRun -> {"none", "plain", "locked"}]: its machine or SCM key
    CloudFile,  \* the runs whose cloud credential is a file: Rackspace and GCE
    MaxCrashes  \* bound: how many times tensord may die

Kind == {"ansible", "terraform", "sync"}
Resource == {"agent", "directories", "credential"}

ASSUME JobProcessAssumption ==
    /\ KindOf \in [JobRun -> Kind]
    /\ KeyOf \in [JobRun -> {"none", "plain", "locked"}]
    /\ CloudFile \subseteq {r \in JobRun : KindOf[r] # "sync"}
    /\ MaxCrashes \in Nat

VARIABLES
    step,     \* how far the function that runs it has come
    verdict,  \* what it has reported
    holds,    \* what it has on the node
    command,  \* the processes of its command that are alive
    timer,    \* the timer of its command: it "killed" the leader or fired "late"
    crashes   \* crashes so far

vars == <<step, verdict, holds, command, timer, crashes>>

-----------------------------------------------------------------------------
\* From "prepared" on the clean-up is deferred: every return runs it.
Step == {"queued", "started", "agent", "keys", "prepared", "getting", "got",
         "running", "reported", "done", "lost"}

TypeOK ==
    /\ step \in [JobRun -> Step]
    /\ verdict \in [JobRun -> {"none", "successful", "failed"}]
    /\ holds \in [JobRun -> SUBSET Resource]
    /\ command \in [JobRun -> SUBSET {"leader", "children"}]
    /\ timer \in [JobRun -> {"off", "armed", "killed", "late", "stopped"}]
    /\ crashes \in 0 .. MaxCrashes

Init ==
    /\ step = [r \in JobRun |-> "queued"]
    /\ verdict = [r \in JobRun |-> "none"]
    /\ holds = [r \in JobRun |-> {}]
    /\ command = [r \in JobRun |-> {}]
    /\ timer = [r \in JobRun |-> "off"]
    /\ crashes = 0

SameConsumer(r, s) == (KindOf[r] = "terraform") = (KindOf[s] = "terraform")
InHand(r) == step[r] \notin {"queued", "done", "lost"}

Go(r, s) == step' = [step EXCEPT ![r] = s]
Acquire(r, R) == holds' = [holds EXCEPT ![r] = @ \cup R]
Report(r, v) == verdict' = [verdict EXCEPT ![r] = v]

-----------------------------------------------------------------------------
(* Up to the command.                                                      *)

\* start
Begin(r) ==
    /\ step[r] = "queued"
    /\ \A s \in JobRun : SameConsumer(r, s) => ~InHand(s)
    /\ Go(r, "started")
    /\ UNCHANGED <<verdict, holds, command, timer, crashes>>

StartAgent(r) ==
    /\ step[r] = "started"
    /\ Acquire(r, {"agent"})
    /\ Go(r, "agent")
    /\ UNCHANGED <<verdict, command, timer, crashes>>

\* A key is parsed without its passphrase whether or not it was parsed with it
\* before, so a locked key is never good.  A network credential is opened with
\* the machine's key, and an error of client.Add is never looked at.
AddKeys(r) ==
    /\ step[r] = "agent"
    /\ KeyOf[r] # "locked"
    /\ Go(r, "keys")
    /\ UNCHANGED <<verdict, holds, command, timer, crashes>>

\* The return skips the clean-up, which is not yet deferred.
RejectKey(r) ==
    /\ step[r] = "agent"
    /\ KeyOf[r] # "none"
    /\ Report(r, "failed")
    /\ Go(r, "done")
    /\ UNCHANGED <<holds, command, timer, crashes>>

Directories(r) == IF KindOf[r] = "sync" THEN {} ELSE {"directories"}
Credential(r) == IF r \in CloudFile THEN {"credential"} ELSE {}

\* getCmd: createTmpDirs and GetCloudCredential.
GetCmd(r) ==
    /\ step[r] = "keys"
    /\ Acquire(r, Directories(r) \cup Credential(r))
    /\ Go(r, "prepared")
    /\ UNCHANGED <<verdict, command, timer, crashes>>

\* The credential file cannot be created, written or closed; unless it could not
\* be created, it is there.
GetCmdFails(r) ==
    /\ step[r] = "keys"
    /\ r \in CloudFile
    /\ \E file \in SUBSET {"credential"} : Acquire(r, Directories(r) \cup file)
    /\ Report(r, "failed")
    /\ Go(r, "done")
    /\ UNCHANGED <<command, timer, crashes>>

-----------------------------------------------------------------------------
(* The command.                                                            *)

Exec(r) == command' = [command EXCEPT ![r] = {"leader"}]

\* Slip: only the leader is waited for.
LeaderExited(r) == "leader" \notin command[r]

\* What cmd.Wait waits for.
Exited(r) == command[r] = {}

MayStart(r) ==
    \/ step[r] = "got"
    \/ step[r] = "prepared" /\ KindOf[r] # "terraform"

\* getCmd.CombinedOutput starts terraform get; no timer limits it.
StartGet(r) ==
    /\ step[r] = "prepared"
    /\ KindOf[r] = "terraform"
    /\ Exec(r)
    /\ Go(r, "getting")
    /\ UNCHANGED <<verdict, holds, timer, crashes>>

GetEnds(r) ==
    /\ step[r] = "getting"
    /\ Exited(r)
    /\ Go(r, "got")
    /\ UNCHANGED <<verdict, holds, command, timer, crashes>>

\* Slip: no timer.
StartUntimed(r) ==
    /\ MayStart(r)
    /\ Exec(r)
    /\ Go(r, "running")
    /\ UNCHANGED <<verdict, holds, timer, crashes>>

\* cmd.Start and time.AfterFunc
Start(r) ==
    /\ MayStart(r)
    /\ Exec(r)
    /\ timer' = [timer EXCEPT ![r] = "armed"]
    /\ Go(r, "running")
    /\ UNCHANGED <<verdict, holds, crashes>>

\* Slip: the timer reports the failure itself.
FireTimerAndReport(r) ==
    /\ timer[r] = "armed"
    /\ timer' = [timer EXCEPT ![r] = IF "leader" \in command[r] THEN "killed" ELSE "late"]
    /\ command' = [command EXCEPT ![r] = @ \ {"leader"}]
    /\ IF step[r] = "running" THEN Report(r, "failed") /\ Go(r, "reported")
                              ELSE UNCHANGED <<verdict, step>>
    /\ UNCHANGED <<holds, crashes>>

\* cmd.Process.Kill, which does nothing to a leader that has exited.  jobFail leaves
\* the timer armed, so it may fire when the run is over.
FireTimer(r) ==
    /\ timer[r] = "armed"
    /\ timer' = [timer EXCEPT ![r] = IF "leader" \in command[r] THEN "killed" ELSE "late"]
    /\ command' = [command EXCEPT ![r] = @ \ {"leader"}]
    /\ UNCHANGED <<step, verdict, holds, crashes>>

\* The command exited with status zero.
JobSuccess(r) ==
    /\ step[r] = "running"
    /\ Exited(r)
    /\ timer[r] # "killed"
    /\ timer' = [timer EXCEPT ![r] = "stopped"]
    /\ Report(r, "successful")
    /\ Go(r, "reported")
    /\ UNCHANGED <<holds, command, crashes>>

\* Slip: a killed command is reported the way jobCancel does.
JobFailOrCancel(r) ==
    /\ step[r] = "running" /\ Exited(r)
    /\ Report(r, IF timer[r] = "killed" THEN "canceled" ELSE "failed")
    /\ Go(r, "reported")
    /\ UNCHANGED <<holds, command, timer, crashes>>

\* A command cannot be started, or ended badly.
JobFail(r) ==
    /\ \/ step[r] \in {"prepared", "got"}
       \/ step[r] \in {"getting", "running"} /\ Exited(r)
    /\ Report(r, "failed")
    /\ Go(r, "reported")
    /\ UNCHANGED <<holds, command, timer, crashes>>

\* Slip: the agent is forgotten.
CleanupFilesOnly(r) ==
    /\ step[r] = "reported"
    /\ holds' = [holds EXCEPT ![r] = @ \cap {"agent"}]
    /\ Go(r, "done")
    /\ UNCHANGED <<verdict, command, timer, crashes>>

\* The deferred sshcleanup and cleanup.
Cleanup(r) ==
    /\ step[r] = "reported"
    /\ holds' = [holds EXCEPT ![r] = {}]
    /\ Go(r, "done")
    /\ UNCHANGED <<verdict, command, timer, crashes>>

-----------------------------------------------------------------------------
(* The processes, and the end of tensord.                                  *)

Fork(r) ==
    /\ "leader" \in command[r]
    /\ command' = [command EXCEPT ![r] = @ \cup {"children"}]
    /\ UNCHANGED <<step, verdict, holds, timer, crashes>>

Exit(r, p) ==
    /\ p \in command[r]
    /\ command' = [command EXCEPT ![r] = @ \ {p}]
    /\ UNCHANGED <<step, verdict, holds, timer, crashes>>

\* tensord dies and is started again.  A panic in either consumer does it too:
\* StartAgent panics without ssh-agent, GetCloudCredential when no GCE file can be
\* created.  The commands have sessions of their own and live on, without a timer.
Crash ==
    /\ crashes < MaxCrashes
    /\ crashes' = crashes + 1
    /\ step' = [r \in JobRun |-> IF InHand(r) THEN "lost" ELSE step[r]]
    /\ timer' = [r \in JobRun |-> IF timer[r] = "armed" THEN "off" ELSE timer[r]]
    /\ UNCHANGED <<verdict, holds, command>>

Prepare(r) == Begin(r) \/ StartAgent(r) \/ AddKeys(r) \/ RejectKey(r) \/ GetCmd(r) \/ GetCmdFails(r)

Perform(r) ==
    \/ StartGet(r)
    \/ GetEnds(r)
    \/ Start(r)
    \/ JobSuccess(r)
    \/ JobFail(r)
    \/ Cleanup(r)

Process(r) == Fork(r) \/ \E p \in {"leader", "children"} : Exit(r, p)

Next ==
    \/ \E r \in JobRun : Prepare(r) \/ Perform(r) \/ FireTimer(r) \/ Process(r)
    \/ Crash

Spec == Init /\ [][Next]_vars

-----------------------------------------------------------------------------
(* Safety.                                                                 *)

\* What a command was given stays while a process of it is alive: the agent, the
\* bound directories and the credential file are removed after the last process
\* is gone, timeouts included, and not at all when tensord died.
FilesOutliveCommand ==
    \A r \in JobRun : command[r] # {} =>
        holds[r] = {"agent"} \cup Directories(r) \cup Credential(r)

\* Only a run that failed before it started a command leaves anything on the
\* node, and a project update leaves its agent at most.
LeftoversMeanNoCommand ==
    \A r \in JobRun : step[r] = "done" /\ holds[r] # {} =>
        /\ verdict[r] = "failed"
        /\ timer[r] = "off"
        /\ KindOf[r] = "sync" => holds[r] = {"agent"}

\* A project is updated and its playbooks are run by the same consumer, so that
\* no update changes a checkout under a playbook: two commands of one consumer
\* are alive together only if one of them was left behind by a crash.
OneCommandAtATime ==
    \A r, s \in JobRun :
        r # s /\ SameConsumer(r, s) /\ command[r] # {} /\ command[s] # {} =>
            step[r] = "lost" \/ step[s] = "lost"

\* What cloud.go says of the credential file it returns: it is the caller's to
\* remove when no longer needed.
CredentialFileRemoved ==
    \A r \in JobRun : step[r] = "done" => "credential" \notin holds[r]

-----------------------------------------------------------------------------
(* Liveness.                                                               *)

\* The consumers' goroutines and the timers are scheduled; no process is obliged
\* to end.
Fairness ==
    \A r \in JobRun :
        /\ WF_vars(Prepare(r))
        /\ WF_vars(Perform(r))
        /\ WF_vars(FireTimer(r))

FairSpec == Spec /\ Fairness

\* The timer limits the leader of a command.  A consumer can be held up by a
\* terraform get, or by children that outlive a leader, and by nothing else.
HeldUp(r) ==
    \/ step[r] = "getting" /\ command[r] # {}
    \/ step[r] = "running" /\ command[r] = {"children"}

EveryRunEnds ==
    \A r \in JobRun : InHand(r) ~> ~InHand(r) \/ HeldUp(r)

=============================================================================
