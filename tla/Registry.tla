--------------------------- MODULE Registry ---------------------------
(***************************************************************************)
(* The agent registry (phase 7): the rows of agent_registry with the       *)
(* governance identity of each agent, the operators' patches, heartbeats   *)
(* and delegations.                                                        *)
(*                                                                         *)
(* A patch is a request of its own session: BeginPatch loads the row and   *)
(* validates the change, CommitPatch writes the columns that differ from   *)
(* what was loaded.  The scheduler's part of the rows is in Routing.       *)
(*                                                                         *)
(* Left out: names, departments, skills and tools (Routing keeps what they *)
(* decide), run counters and the reliability they give, the views.         *)
(***************************************************************************)
EXTENDS Integers, FiniteSets

CONSTANTS
    Agents,             \* agent keys
    Patches,            \* the operators' patches, each made once at most
    Capacity,           \* max_concurrency of each agent
    HeartbeatRequired,  \* agents whose profile demands heartbeats
    MaxBeats,           \* bound: heartbeats that come, or are missed
    None

ASSUME RegistryAssumption ==
    /\ IsFiniteSet(Agents)
    /\ None \notin Agents
    /\ Capacity \in [Agents -> Nat \ {0}]
    /\ HeartbeatRequired \subseteq Agents
    /\ MaxBeats \in Nat

VARIABLES
    agent,       \* agent_registry, with the status of the governance identity
    patch,       \* the operators' patches
    delegation,  \* the delegation to each agent
    beats,       \* heartbeats that came or were missed so far
    raced        \* a patch was committed on a row that was changed after it was loaded

registryVars == <<agent, patch, delegation, beats, raced>>

Lifecycle == {"ACTIVE", "SUSPENDED", "RETIRED"}
(* WAITING is treated everywhere as BUSY is.                               *)
Availability == {"AVAILABLE", "BUSY", "OFFLINE", "MAINTENANCE"}
Identity == {"NONE", "ACTIVE", "SUSPENDED"}

AgentRows ==
    [status : Lifecycle \cup {"ABSENT"}, availability : Availability, workload : Nat,
     manager : Agents \cup {None}, identity : Identity]
NoAgent == [status |-> "ABSENT", availability |-> "OFFLINE", workload |-> 0,
            manager |-> None, identity |-> "NONE"]

(* What a patch may set: one column of the row, or nothing kept here.      *)
Changes ==
    {[column |-> "manager", value |-> m] : m \in Agents \cup {None}} \cup
    {[column |-> "status", value |-> s] : s \in Lifecycle} \cup
    {[column |-> "availability", value |-> v] : v \in Availability} \cup
    {[column |-> "other", value |-> None]}

NoPatch == [pc |-> "new", agent |-> None, change |-> [column |-> "other", value |-> None],
            row |-> NoAgent, late |-> FALSE]

Registered == {a \in Agents : agent[a].status # "ABSENT"}

RegistryInit ==
    /\ agent \in [Agents -> {NoAgent, [NoAgent EXCEPT !.status = "ACTIVE", !.identity = "ACTIVE",
                                                      !.availability = "AVAILABLE"]}]
    /\ \E S \in SUBSET Patches :
          patch = [q \in Patches |-> [NoPatch EXCEPT !.pc = IF q \in S THEN "new" ELSE "done"]]
    /\ delegation \in [Agents -> {"NONE", "EXPIRED"}]
    /\ beats \in 0..MaxBeats
    /\ raced = FALSE

-----------------------------------------------------------------------------
(* Managers above a, up to n steps.                                        *)
Above(a, n) ==
    LET up[i \in 0..n] ==
            IF i = 0 THEN {a} ELSE {agent[b].manager : b \in up[i - 1] \ {None}}
    IN (UNION {up[i] : i \in 1..n}) \ {None}

(* Mutant: only the manager's own row is looked at.                        *)
ManagerValidMutant(a, m) == m = None \/ (m # a /\ m \in Registered)

(* validate_manager walks from the new manager upwards.                    *)
ManagerValid(a, m) ==
    m = None \/ (m # a /\ m \in Registered /\ a \notin Above(m, Cardinality(Agents)))

(* A new agent gets a governance identity of its own.                      *)
CreateAgent(a) ==
    /\ agent[a].status = "ABSENT"
    /\ \E m \in Registered \cup {None} :
          agent' = [agent EXCEPT ![a] = [status |-> "ACTIVE", availability |-> "AVAILABLE",
                                         workload |-> 0, manager |-> m, identity |-> "ACTIVE"]]
    /\ UNCHANGED <<patch, delegation, beats, raced>>

BeginPatch(q, a, change) ==
    /\ patch[q].pc = "new"
    /\ a \in Registered
    /\ change.column = "manager" => ManagerValid(a, change.value)
    /\ patch' = [patch EXCEPT ![q] = [pc |-> "loaded", agent |-> a, change |-> change,
                                      row |-> agent[a], late |-> FALSE]]
    /\ UNCHANGED <<agent, delegation, beats, raced>>

(* SQLAlchemy writes a column only if it differs from what was loaded.     *)
Flushed(stored, loaded, assigned) == IF assigned = loaded THEN stored ELSE assigned

Patched(q, column) ==
    LET p == patch[q] IN
    IF p.change.column = column
    THEN Flushed(agent[p.agent][column], p.row[column], p.change.value)
    ELSE agent[p.agent][column]

IdentityOf(status) == IF status = "ACTIVE" THEN "ACTIVE" ELSE "SUSPENDED"

(* The identity is loaded last and gets the status of the session's row.   *)
CommitPatch(q) ==
    LET p == patch[q]
        seen == IF p.change.column = "status" THEN p.change.value ELSE p.row.status
    IN
    /\ p.pc = "loaded"
    /\ agent' = [agent EXCEPT ![p.agent].status = Patched(q, "status"),
                              ![p.agent].availability = Patched(q, "availability"),
                              ![p.agent].manager = Patched(q, "manager"),
                              ![p.agent].identity = IdentityOf(seen)]
    /\ raced' = (raced \/ p.late)
    /\ patch' = [r \in Patches |->
                    IF r = q THEN [NoPatch EXCEPT !.pc = "done"]
                    ELSE [patch[r] EXCEPT !.late = patch[r].pc = "loaded"]]
    /\ UNCHANGED <<delegation, beats>>

(* A heartbeat sets the availability and, if it brings one, the workload.  *)
Heartbeat(a) ==
    /\ a \in Registered
    /\ beats < MaxBeats
    /\ \E v \in Availability, w \in {agent[a].workload, 0} :
          agent' = [agent EXCEPT ![a].availability = v, ![a].workload = w]
    /\ beats' = beats + 1
    /\ UNCHANGED <<patch, delegation, raced>>

CreateDelegation(source, target) ==
    /\ source # target /\ source \in Registered
    /\ agent[target].status = "ACTIVE"
    /\ delegation[target] = "NONE"
    /\ delegation' = [delegation EXCEPT ![target] = "ACTIVE"]
    /\ UNCHANGED <<agent, patch, beats, raced>>

(* ends_at has passed.                                                     *)
DelegationFallsDue(a) ==
    /\ delegation[a] = "ACTIVE"
    /\ delegation' = [delegation EXCEPT ![a] = "DUE"]
    /\ UNCHANGED <<agent, patch, beats, raced>>

ExpireDelegations == [a \in Agents |-> IF delegation[a] = "DUE" THEN "EXPIRED" ELSE delegation[a]]

(* reconcile_workloads: count is the number of the agent's active tasks,   *)
(* late whether its heartbeat is overdue.                                  *)
Reconciled(a, count, late) ==
    [agent[a] EXCEPT
        !.workload = count,
        !.availability =
            IF agent[a].status # "ACTIVE" \/ (late /\ a \in HeartbeatRequired) THEN "OFFLINE"
            ELSE IF count > 0 THEN "BUSY"
            ELSE IF agent[a].availability = "BUSY" THEN "AVAILABLE"
            ELSE agent[a].availability]

(* What the registry does without the scheduler.                           *)
Administer ==
    \/ \E a \in Agents : CreateAgent(a) \/ Heartbeat(a) \/ DelegationFallsDue(a)
    \/ \E a, b \in Agents : CreateDelegation(a, b)
    \/ \E q \in Patches : CommitPatch(q) \/ \E a \in Agents, c \in Changes : BeginPatch(q, a, c)
==========================================================================
