---------------------------- MODULE PrintAgents ----------------------------
(***************************************************************************)
(* The silent-print agents (src/integrations/print-agent/print_agent.py)   *)
(* driving the print jobs of PrintOrders over the network.                 *)
(*                                                                         *)
(* An agent polls the queued jobs and works through the list it got: for   *)
(* each job it reports "printing", downloads and prints the file, and      *)
(* reports "done", or "failed" after anything went wrong.  The list is not *)
(* read again in between, no job is reserved for an agent, and each report *)
(* is a request of its own that may be refused by the job's status machine *)
(* or lost, before the server acted on it or after.                        *)
(*                                                                         *)
(* Left out: the sign-in, and the order of the list (an agent may take its *)
(* jobs in any order).                                                     *)
(***************************************************************************)
EXTENDS PrintOrders

CONSTANTS
    Agents,     \* running copies of the program
    Jams,       \* the download or the printer may fail
    Restarts,   \* an agent may be stopped and started again
    MaxFaults,  \* bound on the lost requests and replies and the restarts
    MaxRetries  \* bound on the retries of a job from the dashboard

ASSUME AgentsAssumption ==
    /\ {Jams, Restarts} \subseteq BOOLEAN
    /\ MaxFaults \in Nat
    /\ MaxRetries \in Nat

VARIABLES
    step,     \* where each agent stands with its current job
    current,  \* its current job
    list,     \* jobs of its last poll that it has not looked at yet
    printed,  \* how often the paper of a job came out of an agent's printer
    retries,  \* how often the staff queued a job again
    faults    \* requests and replies lost and agents restarted so far

agentVars == <<step, current, list, printed, retries, faults>>

allVars == <<vars, agentVars>>

AgentsTypeOK ==
    /\ step \in [Agents -> {"idle", "claimed", "printed", "failing"}]
    /\ current \in [Agents -> Jobs \cup {Null}]
    /\ \A a \in Agents : step[a] # "idle" => current[a] \in Jobs
    /\ list \in [Agents -> SUBSET Jobs]
    /\ printed \in [Agents -> [Jobs -> Nat]]
    /\ retries \in [Jobs -> 0..MaxRetries]
    /\ faults \in 0..MaxFaults

AgentsInit ==
    /\ Init
    /\ step = [a \in Agents |-> "idle"]
    /\ current = [a \in Agents |-> Null]
    /\ list = [a \in Agents |-> {}]
    /\ printed = [a \in Agents |-> [j \in Jobs |-> 0]]
    /\ retries = [j \in Jobs |-> 0]
    /\ faults = 0

HasJobStatus(j, statuses) == job[j] # Null /\ job[j].status \in statuses

Goto(a, where) == step' = [step EXCEPT ![a] = where]

-----------------------------------------------------------------------------
(* The agent *)

MutantQueued(j) == HasJobStatus(j, {"queued", "printing"})

Queued(j) == HasJobStatus(j, {"queued"})

\* run_forever asks for the queued jobs.
MutantPollOnce(a) ==
    /\ step[a] = "idle"
    /\ list[a] = {}
    /\ list' = [list EXCEPT ![a] = {j \in Jobs : Queued(j) /\ retries[j] = 0}]
    /\ UNCHANGED <<vars, step, current, printed, retries, faults>>

Poll(a) ==
    /\ step[a] = "idle"
    /\ list[a] = {}
    /\ list' = [list EXCEPT ![a] = {j \in Jobs : Queued(j)}]
    /\ UNCHANGED <<vars, step, current, printed, retries, faults>>

Fault == faults < MaxFaults /\ faults' = faults + 1

Report(j, status) == SetJobStatus(j, status) /\ UNCHANGED faults

\* A report that ends in an exception: refused, or lost on its way there or
\* back.
ReportFails(j, status) ==
    \/ ~JobMayBecome(j, status) /\ UNCHANGED <<vars, faults>>
    \/ Fault /\ UNCHANGED vars
    \/ Fault /\ SetJobStatus(j, status)

\* print_job takes the next job of the list.
Claim(a, j) ==
    /\ step[a] = "idle"
    /\ j \in list[a]
    /\ list' = [list EXCEPT ![a] = @ \ {j}]
    /\ current' = [current EXCEPT ![a] = j]
    /\ \/ Report(j, "printing") /\ Goto(a, "claimed")
       \/ ReportFails(j, "printing") /\ Goto(a, "failing")
    /\ UNCHANGED <<printed, retries>>

\* The paper comes out.  When the printer fails or the run outlasts
\* PRINT_TIMEOUT, it may have come out or not.
PrintPaper(a) ==
    /\ step[a] = "claimed"
    /\ \/ /\ printed' = [printed EXCEPT ![a][current[a]] = @ + 1]
          /\ Goto(a, "printed")
       \/ /\ Jams
          /\ printed' \in {printed, [printed EXCEPT ![a][current[a]] = @ + 1]}
          /\ Goto(a, "failing")
    /\ UNCHANGED <<vars, current, list, retries, faults>>

MutantReportDone(a) ==
    /\ step[a] \in {"claimed", "printed"}
    /\ \/ Report(current[a], "done") /\ Goto(a, "idle")
       \/ ReportFails(current[a], "done") /\ Goto(a, "failing")
    /\ UNCHANGED <<current, list, printed, retries>>

ReportDone(a) ==
    /\ step[a] = "printed"
    /\ \/ Report(current[a], "done") /\ Goto(a, "idle")
       \/ ReportFails(current[a], "done") /\ Goto(a, "failing")
    /\ UNCHANGED <<current, list, printed, retries>>

\* The exception handler of print_job.  When this report fails too, it is only
\* logged, and the agent goes on.
MutantReportFailure(a) ==
    /\ step[a] = "failing"
    /\ Goto(a, "idle")
    /\ UNCHANGED <<vars, current, list, printed, retries, faults>>

ReportFailure(a) ==
    /\ step[a] = "failing"
    /\ Report(current[a], "failed") \/ ReportFails(current[a], "failed")
    /\ Goto(a, "idle")
    /\ UNCHANGED <<current, list, printed, retries>>

\* The program stops wherever it is and is started again.
Crash(a) ==
    /\ Restarts
    /\ Fault
    /\ step[a] # "idle" \/ list[a] # {}
    /\ Goto(a, "idle")
    /\ list' = [list EXCEPT ![a] = {}]
    /\ UNCHANGED <<vars, current, printed, retries>>

AgentStep(a) ==
    \/ Poll(a)
    \/ \E j \in Jobs : Claim(a, j)
    \/ PrintPaper(a)
    \/ ReportDone(a)
    \/ ReportFailure(a)

-----------------------------------------------------------------------------
(* The dashboard *)

\* DashboardPrintJobRetryView; on a queued job it changes nothing.
Retry(j) ==
    /\ HasJobStatus(j, {"failed"})
    /\ retries[j] < MaxRetries
    /\ SetJobStatus(j, "queued")
    /\ retries' = [retries EXCEPT ![j] = @ + 1]
    /\ UNCHANGED <<step, current, list, printed, faults>>

Dashboard ==
    \/ \E j \in Jobs : Retry(j)
    \/ /\ \/ Submit \/ AtTheCounter \/ OrderMoves \/ AccountDeletion
          \/ \E j \in Jobs, o \in Orders : QueueJob(o, j)
          \/ \E j \in Jobs : CancelJob(j)
       /\ UNCHANGED agentVars

AgentsNext ==
    \/ \E a \in Agents : AgentStep(a) \/ Crash(a)
    \/ Dashboard

\* A running agent keeps polling and working: run_forever has no way out.
\* Nobody is obliged to do anything at the dashboard.  That the network loses
\* only so many requests is the bound MaxFaults.
AgentsSpec ==
    /\ AgentsInit
    /\ [][AgentsNext]_allVars
    /\ \A a \in Agents : WF_allVars(AgentStep(a))

-----------------------------------------------------------------------------
(* What must hold *)

\* A job that the dashboard shows as done came out of a printer, even when it
\* was failed, queued again and finished by an agent of the round before.
DoneWasPrinted ==
    \A j \in Jobs : HasJobStatus(j, {"done"}) => \E a \in Agents : printed[a][j] > 0

\* An agent prints a job once, and once more for every retry the staff asks
\* for, whatever is lost and wherever the agent is stopped.  Two agents may
\* both print it: a claim of a job that is already printing is accepted.
NoExtraPaper == \A a \in Agents, j \in Jobs : printed[a][j] <= 1 + retries[j]

\* A job that carries no start stamp has taken no paper since it was queued
\* last: what an agent printed of it, each earlier queueing accounts for.  The
\* agent that holds a job of the round before may print at any moment, while
\* reports of others, a failure and a retry stamp the row and wipe the stamps.
UnstartedTookNoPaper ==
    \A a \in Agents, j \in Jobs :
        job[j] # Null /\ ~job[j].started => printed[a][j] <= retries[j]

\* A queued job is taken up, unless it is cancelled first.
QueueIsServed ==
    \A j \in Jobs : HasJobStatus(j, {"queued"}) ~> ~HasJobStatus(j, {"queued"})

\* A job an agent has started ends, unless a request was lost or an agent was
\* restarted.
PrintingEnds ==
    \A j \in Jobs :
        HasJobStatus(j, {"printing"}) ~> ~HasJobStatus(j, {"printing"}) \/ faults > 0
=============================================================================
