----------------------------- MODULE Supervisor -----------------------------
(***************************************************************************)
(* The process supervisor of rskit-process (supervisor/, runner/, sync.rs).*)
(* Children are spawned and registered, each under its own lifecycle       *)
(* policy; the run that spawned a child waits for it, terminates it on     *)
(* cancellation or timeout, and unregisters it or hands it over to the     *)
(* registry; shutdown passes claim the registered children and terminate   *)
(* them; dropping the supervisor kills what is still registered.           *)
(*                                                                         *)
(* A child is a leader process and, when its policy targets the process    *)
(* group, the live descendants in its group.  SIGTERM may be obeyed or     *)
(* ignored at any time, so sending it changes nothing here; SIGKILL is     *)
(* recorded, and takes effect at some later moment.  Every timer (a grace  *)
(* period, a poll budget) may expire at any time.  Numeric pids are not    *)
(* recycled: leaders are signalled through pidfds.                         *)
(***************************************************************************)
EXTENDS Naturals, FiniteSets, FiniteSetsExt

CONSTANTS
    Children,  \* registrations, by generation id
    Passes,    \* calls of fan_out_shutdown()
    Detached,  \* the passes run by a ShutdownSubscription: never dropped
    Fanout,    \* SHUTDOWN_FANOUT
    Policies   \* the lifecycle policies children are spawned under

NoHolder == "free"

ASSUME SupervisorAssumption ==
    /\ IsFiniteSet(Children) /\ IsFiniteSet(Passes)
    /\ NoHolder \notin Children \cup Passes
    /\ Detached \subseteq Passes
    /\ Fanout \in Nat \ {0}
    /\ Policies \subseteq [kill_after_grace : BOOLEAN, targets_group : BOOLEAN,
                           wrapped : BOOLEAN]

VARIABLES
    leader,  \* the leader process
    sub,     \* live descendants are in the leader's group
    killed,  \* the parts of the child a SIGKILL was sent to
    policy,  \* LifecyclePolicy, and whether a Supervised*Child wrapper owns it
    entry,   \* Entry::state, or "absent"
    gone,    \* OwnedTarget::confirmed_gone
    handle,  \* who holds the Child that can be waited for
    owner,   \* where the run or the wrapper that spawned the child is
    task,    \* where the pass's task for the child is in terminate()
    pass,    \* where each pass is
    claims,  \* ClaimGuard::outstanding
    failed,  \* the pass counted a failed target
    atCall,  \* history: what was registered when the pass was called
    gate,    \* holder of shutdown_gate
    sup,     \* the supervisor itself: "up", "dropping", "dropped"
    drain,   \* the targets its drop has still to kill
    victim,  \* the target its drop is killing
    adrift   \* history: scopes dropped after their leader was reaped

process == <<leader, sub, killed>>
registry == <<entry, gone, handle>>
passes == <<task, pass, claims, failed, atCall, gate>>
ending == <<sup, drain, victim, adrift>>
vars == <<process, policy, registry, owner, passes, ending>>

Outcome == {"Terminated", "Survived", "Failed"}

\* Owners that have returned, and those that borrow the supervisor.
Returned == {"none", "done"}
Borrowing == {"spawned", "wait", "grace", "killing", "exited", "survived",
              "handback", "dropping"}
ActivePass == {"gate", "join"}

Init ==
    /\ leader = [c \in Children |-> "none"]
    /\ sub = [c \in Children |-> FALSE]
    /\ killed = [c \in Children |-> {}]
    /\ policy \in [Children -> Policies]
    /\ entry = [c \in Children |-> "absent"]
    /\ gone = [c \in Children |-> FALSE]
    /\ handle = [c \in Children |-> "none"]
    /\ owner = [c \in Children |-> "none"]
    /\ task = [c \in Children |-> "none"]
    /\ pass = [p \in Passes |-> "idle"]
    /\ claims = [p \in Passes |-> {}]
    /\ failed = [p \in Passes |-> FALSE]
    /\ atCall = [p \in Passes |-> {}]
    /\ gate = NoHolder
    /\ sup = "up"
    /\ drain = {}
    /\ victim = NoHolder
    /\ adrift = {}

(***************************************************************************)
(* Processes and signals                                                   *)
(***************************************************************************)

Group(c) == policy[c].targets_group

\* group_alive(): a zombie leader still answers the probe.
GroupAlive(c) == Group(c) /\ (leader[c] \in {"run", "zombie"} \/ sub[c])

\* OwnedTarget::is_alive(): the leader only, and a zombie is gone.
IsAlive(c) == ~gone[c] /\ leader[c] = "run"

\* What a SIGKILL reaches: kill_target() by group or by leader.
KillParts(c) == {"leader"} \cup (IF Group(c) THEN {"sub"} ELSE {})

\* OwnedTarget::signal(Kill): nothing once the target is confirmed gone.
TargetKilled(c) ==
    [killed EXCEPT ![c] = IF gone[c] THEN @ ELSE @ \cup KillParts(c)]

LeaderExits(c) ==
    /\ leader[c] = "run"
    /\ leader' = [leader EXCEPT ![c] = "zombie"]
    /\ UNCHANGED <<sub, killed, policy, registry, owner, passes, ending>>

DescendantsExit(c) ==
    /\ sub[c]
    /\ sub' = [sub EXCEPT ![c] = FALSE]
    /\ UNCHANGED <<leader, killed, policy, registry, owner, passes, ending>>

\* A process that was sent SIGKILL dies.
Dies(c) ==
    \/ "leader" \in killed[c] /\ LeaderExits(c)
    \/ "sub" \in killed[c] /\ DescendantsExit(c)

(***************************************************************************)
(* The registry                                                            *)
(***************************************************************************)

Registered == {c \in Children : entry[c] # "absent"}

\* LiveChildRegistry::remove(), as RegistrationGuard::unregister() calls it.
Remove(c) ==
    IF entry[c] = "claimed"
    THEN /\ entry' = [entry EXCEPT ![c] = "reaped"]
         /\ gone' = [gone EXCEPT ![c] = TRUE]
    ELSE /\ entry' = [entry EXCEPT ![c] = "absent"]
         /\ UNCHANGED gone

\* attach_child(): whether the entry takes the child.
Attachable(c) == entry[c] \in {"live", "survived"}

\* claim_live(): the batches a pass can claim.
Batches ==
    LET live == {c \in Children : entry[c] = "live"}
    IN  {b \in SUBSET live : Cardinality(b) = Min({Fanout, Cardinality(live)})}

\* Mutant: a survivor stays eligible within the pass that left it.
CompletedEligible(c, outcome) ==
    IF entry[c] = "absent" \/ entry[c] = "reaped" \/ outcome = "Terminated"
    THEN "absent" ELSE "live"

\* complete_claim(): the entry after a claim ended with an outcome.
Completed(c, outcome) ==
    IF entry[c] = "absent" \/ entry[c] = "reaped" \/ outcome = "Terminated"
    THEN "absent" ELSE "survived"

\* Mutant: a dropped pass forgets what it had claimed.
ReleasedNot(cs) == entry

\* release_claims(): the entries after the claims in cs were given up.
Released(cs) ==
    [c \in Children |->
        IF c \notin cs \/ entry[c] = "absent" THEN entry[c]
        ELSE IF entry[c] = "reaped" \/ gone[c] THEN "absent" ELSE "live"]

(***************************************************************************)
(* Runs: run_process() and run_blocking() with their ChildScope            *)
(***************************************************************************)

Owner(c, from, to) == owner[c] = from /\ owner' = [owner EXCEPT ![c] = to]
Reaped(c) == leader' = [leader EXCEPT ![c] = "reaped"]

Spawn(c) ==
    /\ sup = "up"
    /\ leader[c] = "none"
    /\ Owner(c, "none", "spawned")
    /\ leader' = [leader EXCEPT ![c] = "run"]
    /\ \E descendants \in BOOLEAN : sub' = [sub EXCEPT ![c] = descendants /\ Group(c)]
    /\ handle' = [handle EXCEPT ![c] = "owner"]
    /\ UNCHANGED <<killed, policy, entry, gone, passes, ending>>

\* register() by a run, register_owned() by spawn_blocking() and spawn_async().
Register(c) ==
    /\ Owner(c, "spawned", IF policy[c].wrapped THEN "wrapped" ELSE "wait")
    /\ entry' = [entry EXCEPT ![c] = "live"]
    /\ handle' = [handle EXCEPT ![c] = IF policy[c].wrapped THEN "target" ELSE "owner"]
    /\ UNCHANGED <<process, policy, gone, passes, ending>>

RunUnchanged == UNCHANGED <<sub, killed, policy, registry, passes, ending>>

\* wait_for_completion(): the child exited, or cancel or timeout sent SIGTERM.
WaitExit(c) ==
    /\ leader[c] = "zombie"
    /\ Owner(c, "wait", "exited")
    /\ Reaped(c)
    /\ RunUnchanged

\* terminate_and_wait_async() when the SIGTERM was refused: start_kill() of the
\* leader, if the policy escalates.
TermRefused(c) ==
    /\ policy[c].kill_after_grace
    /\ killed' = [killed EXCEPT ![c] = @ \cup {"leader"}]

WaitStop(c) ==
    /\ Owner(c, "wait", "grace")
    /\ UNCHANGED killed \/ TermRefused(c)
    /\ UNCHANGED <<leader, sub, policy, registry, passes, ending>>

\* terminate_and_wait_async(): the leader exits within the grace period; a group
\* is waited for as well.
GraceExit(c) ==
    /\ leader[c] = "zombie"
    /\ Owner(c, "grace", IF sub[c] THEN "grace" ELSE "exited")
    /\ Reaped(c)
    /\ RunUnchanged

GroupGone(c) ==
    /\ leader[c] = "reaped" /\ ~sub[c]
    /\ Owner(c, "grace", "exited")
    /\ UNCHANGED leader
    /\ RunUnchanged

\* escalate_after_grace(): leave the survivor alone, or SIGKILL it.
GraceExpires(c) ==
    /\ owner[c] = "grace"
    /\ IF policy[c].kill_after_grace
       THEN /\ owner' = [owner EXCEPT ![c] = "killing"]
            /\ killed' = [killed EXCEPT ![c] = @ \cup KillParts(c)]
       ELSE /\ owner' = [owner EXCEPT ![c] = "survived"]
            /\ UNCHANGED killed
    /\ UNCHANGED <<leader, sub, policy, registry, passes, ending>>

\* Its wait for the group after SIGKILL is bounded and its result is unused.
KillReaped(c) ==
    /\ leader[c] \in {"zombie", "reaped"}
    /\ Owner(c, "killing", "exited")
    /\ Reaped(c)
    /\ RunUnchanged

\* end_lingering_group_async(): descendants that hold the output pipes after the
\* leader exited are terminated, then killed.
KillLingering(c) ==
    /\ owner[c] = "exited" /\ policy[c].kill_after_grace
    /\ GroupAlive(c) /\ "sub" \notin killed[c]
    /\ killed' = [killed EXCEPT ![c] = @ \cup KillParts(c)]
    /\ UNCHANGED <<leader, sub, policy, registry, owner, passes, ending>>

\* Mutant: the run returns without probing the group.
DisarmUnprobed(c) ==
    /\ Owner(c, "exited", "done")
    /\ handle' = [handle EXCEPT ![c] = "none"]
    /\ Remove(c)
    /\ UNCHANGED <<process, policy, passes, ending>>

\* ChildScope::disarm()
Disarm(c) ==
    /\ ~GroupAlive(c)
    /\ Owner(c, "exited", "done")
    /\ handle' = [handle EXCEPT ![c] = "none"]
    /\ Remove(c)
    /\ UNCHANGED <<process, policy, passes, ending>>

\* ChildScope::relinquish(): the survivor moves into its target; when the entry
\* does not take it the scope kills its leader and waits.
Relinquish(c) ==
    /\ owner[c] = "survived" \/ (owner[c] = "exited" /\ GroupAlive(c))
    /\ IF Attachable(c)
       THEN /\ owner' = [owner EXCEPT ![c] = "done"]
            /\ handle' = [handle EXCEPT ![c] = "target"]
            /\ UNCHANGED killed
       ELSE /\ owner' = [owner EXCEPT ![c] = "handback"]
            /\ killed' = [killed EXCEPT ![c] = @ \cup {"leader"}]
            /\ UNCHANGED handle
    /\ UNCHANGED <<leader, sub, policy, entry, gone, passes, ending>>

HandbackReaped(c) ==
    /\ leader[c] \in {"zombie", "reaped"}
    /\ Owner(c, "handback", "done")
    /\ Reaped(c)
    /\ handle' = [handle EXCEPT ![c] = "none"]
    /\ UNCHANGED <<sub, killed, policy, entry, gone, passes, ending>>

\* Drop of an armed scope, at any await of the run.  ChildScope kills the child,
\* leaves the wait to a detached task and unregisters at once.  A tokio Child
\* whose exit was already collected has no id(): then nothing is signalled.
Armed == {"wait", "grace", "killing", "exited", "survived"}

ScopeDrop(c) ==
    /\ owner[c] \in Armed
    /\ owner' = [owner EXCEPT ![c] = "reaper"]
    /\ IF leader[c] = "reaped"
       THEN /\ adrift' = adrift \cup {c}
            /\ UNCHANGED killed
       ELSE /\ killed' = [killed EXCEPT ![c] = @ \cup KillParts(c)]
            /\ UNCHANGED adrift
    /\ Remove(c)
    /\ UNCHANGED <<leader, sub, policy, handle, passes, sup, drain, victim>>

\* BlockingChildScope kills by the pid it still knows, waits, then unregisters.
BlockingScopeDrop(c) ==
    /\ owner[c] \in Armed
    /\ owner' = [owner EXCEPT ![c] = "dropping"]
    /\ killed' = [killed EXCEPT ![c] = @ \cup KillParts(c)]
    /\ UNCHANGED <<leader, sub, policy, registry, passes, ending>>

\* The run's future dropped while relinquish() waits for the child it killed:
\* the runtime's orphan queue collects it.
HandbackDrop(c) ==
    /\ Owner(c, "handback", "reaper")
    /\ UNCHANGED <<process, policy, registry, passes, ending>>

DropReaped(c) ==
    /\ leader[c] \in {"zombie", "reaped"}
    /\ owner[c] \in {"reaper", "dropping"}
    /\ owner' = [owner EXCEPT ![c] = "done"]
    /\ Reaped(c)
    /\ handle' = [handle EXCEPT ![c] = "none"]
    /\ IF owner[c] = "dropping" THEN Remove(c) ELSE UNCHANGED <<entry, gone>>
    /\ UNCHANGED <<sub, killed, policy, passes, ending>>

(***************************************************************************)
(* Drop of a wrapper, and of the supervisor: kill_blocking(), then remove  *)
(***************************************************************************)

\* kill_blocking(): SIGKILL through the target, then through a handle it owns,
\* which who takes.
KillBlocking(c, who) ==
    /\ IF handle[c] = "target"
       THEN /\ killed' = [TargetKilled(c) EXCEPT ![c] = @ \cup {"leader"}]
            /\ handle' = [handle EXCEPT ![c] = who]
       ELSE /\ killed' = TargetKilled(c)
            /\ UNCHANGED handle

\* Its poll reaps the leader it took, or gives up; then the entry is removed.
RemoveAfterPoll(c, who) ==
    /\ IF handle[c] = who /\ leader[c] # "run"
       THEN Reaped(c) ELSE UNCHANGED leader
    /\ handle' = [handle EXCEPT ![c] = IF @ = who THEN "none" ELSE @]
    /\ IF handle[c] = who /\ leader[c] # "run"
       THEN /\ gone' = [gone EXCEPT ![c] = TRUE]
            /\ entry' = [entry EXCEPT ![c] =
                            IF @ = "claimed" THEN "reaped" ELSE "absent"]
       ELSE Remove(c)

WrapperDrop(c) ==
    /\ Owner(c, "wrapped", "wrapper_drop")
    /\ IF c \in Registered
       THEN KillBlocking(c, "owner")
       ELSE UNCHANGED <<killed, handle>>
    /\ UNCHANGED <<leader, sub, policy, entry, gone, passes, ending>>

WrapperRemoved(c) ==
    /\ Owner(c, "wrapper_drop", "done")
    /\ RemoveAfterPoll(c, "owner")
    /\ UNCHANGED <<sub, killed, policy, passes, ending>>

\* ProcessSupervisor::drop(): nothing borrows the supervisor any more.
SupervisorDrop ==
    /\ sup = "up"
    /\ \A c \in Children : owner[c] \notin Borrowing
    /\ \A p \in Passes \ Detached : pass[p] \notin ActivePass
    /\ sup' = "dropping"
    /\ drain' = Registered
    /\ UNCHANGED <<process, policy, registry, owner, passes, victim, adrift>>

SupervisorKill(c) ==
    /\ sup = "dropping" /\ victim = NoHolder /\ c \in drain
    /\ victim' = c
    /\ KillBlocking(c, "supervisor")
    /\ UNCHANGED <<leader, sub, policy, entry, gone, owner, passes, sup, drain, adrift>>

SupervisorRemove(c) ==
    /\ victim = c
    /\ victim' = NoHolder
    /\ drain' = drain \ {c}
    /\ RemoveAfterPoll(c, "supervisor")
    /\ UNCHANGED <<sub, killed, policy, owner, passes, sup, adrift>>

SupervisorDropped ==
    /\ sup = "dropping" /\ drain = {}
    /\ sup' = "dropped"
    /\ UNCHANGED <<process, policy, registry, owner, passes, drain, victim, adrift>>

(***************************************************************************)
(* OwnedTarget::terminate(), one task per claimed target                   *)
(***************************************************************************)

Task(c, from, to) == task[c] = from /\ task' = [task EXCEPT ![c] = to]
TaskUnchanged == UNCHANGED <<sub, policy, entry, owner, pass, claims, failed, atCall,
                             gate, ending>>

\* signal(Terminate), which the system may refuse.
TaskTerm(c) ==
    /\ \/ Task(c, "term", "grace")
       \/ IsAlive(c) /\ Task(c, "term", "Failed")
    /\ UNCHANGED <<leader, killed, gone, handle>>
    /\ TaskUnchanged

\* One poll of wait_until_gone(): try_reap_leader(), then is_gone().
LeaderAfterPoll(c) ==
    IF handle[c] = "target" /\ leader[c] = "zombie" THEN "reaped" ELSE leader[c]

GoneAtPoll(c) ==
    \/ gone[c]
    \/ /\ LeaderAfterPoll(c) # "run"
       /\ ~(Group(c) /\ (LeaderAfterPoll(c) = "zombie" \/ sub[c]))

TaskPoll(c) ==
    /\ task[c] \in {"grace", "drain"}
    /\ leader' = [leader EXCEPT ![c] = LeaderAfterPoll(c)]
    /\ IF GoneAtPoll(c)
       THEN /\ gone' = [gone EXCEPT ![c] = TRUE]
            /\ task' = [task EXCEPT ![c] = "reap"]
       ELSE UNCHANGED <<gone, task>>
    /\ UNCHANGED <<killed, handle>>
    /\ TaskUnchanged

\* The grace period is over: the target survives, or signal(Kill).
TaskEscalate(c) ==
    /\ task[c] = "grace" /\ ~GoneAtPoll(c)
    /\ IF policy[c].kill_after_grace
       THEN \/ /\ task' = [task EXCEPT ![c] = "drain"]
               /\ killed' = TargetKilled(c)
            \/ /\ IsAlive(c)
               /\ task' = [task EXCEPT ![c] = "Failed"]
               /\ UNCHANGED killed
       ELSE /\ task' = [task EXCEPT ![c] = "Survived"]
            /\ UNCHANGED killed
    /\ UNCHANGED <<leader, gone, handle>>
    /\ TaskUnchanged

\* The second wait gave up: group_has_live_member() does not count zombies, and
\* finds nothing for a leader that has no group of its own.
TaskGiveUp(c) ==
    /\ task[c] = "drain" /\ ~GoneAtPoll(c)
    /\ task' = [task EXCEPT ![c] =
                   IF Group(c) /\ (leader[c] = "run" \/ sub[c]) THEN "Failed" ELSE "reap"]
    /\ UNCHANGED <<leader, killed, gone, handle>>
    /\ TaskUnchanged

\* reap() takes the child the target owns, if any, and waits for it.
TaskReap(c) ==
    /\ task[c] = "reap"
    /\ IF handle[c] = "target"
       THEN /\ task' = [task EXCEPT ![c] = "reaping"]
            /\ handle' = [handle EXCEPT ![c] = "task"]
            /\ UNCHANGED gone
       ELSE /\ task' = [task EXCEPT ![c] = "Terminated"]
            /\ gone' = [gone EXCEPT ![c] = TRUE]
            /\ UNCHANGED handle
    /\ UNCHANGED <<leader, killed>>
    /\ TaskUnchanged

TaskReaped(c) ==
    /\ leader[c] # "run"
    /\ Task(c, "reaping", "Terminated")
    /\ Reaped(c)
    /\ gone' = [gone EXCEPT ![c] = TRUE]
    /\ handle' = [handle EXCEPT ![c] = "none"]
    /\ UNCHANGED killed
    /\ TaskUnchanged

(***************************************************************************)
(* fan_out_shutdown()                                                      *)
(***************************************************************************)

Pass(p, from, to) == pass[p] = from /\ pass' = [pass EXCEPT ![p] = to]

\* shutdown(), or the watcher of a subscription whose token was cancelled.
Call(p) ==
    /\ Pass(p, "idle", "gate")
    /\ p \notin Detached => sup = "up"
    /\ atCall' = [atCall EXCEPT ![p] = Registered]
    /\ UNCHANGED <<process, policy, registry, owner, task, claims, failed, gate, ending>>

\* Mutant: a new pass skips the survivors of the one before.
StartShutdownOnly(p) ==
    /\ gate = NoHolder
    /\ gate' = p
    /\ Pass(p, "gate", "join")
    /\ UNCHANGED <<process, policy, registry, owner, task, claims, failed, atCall, ending>>

\* The gate is taken; start_shutdown() makes survivors eligible again.
StartShutdown(p) ==
    /\ gate = NoHolder
    /\ gate' = p
    /\ Pass(p, "gate", "join")
    /\ entry' = [c \in Children |-> IF entry[c] = "survived" THEN "live" ELSE entry[c]]
    /\ UNCHANGED <<process, policy, gone, handle, owner, task, claims, failed, atCall, ending>>

\* One round of the loop: claim_live() and a task per target.
ClaimLive(p) ==
    /\ pass[p] = "join" /\ claims[p] = {}
    /\ \E batch \in Batches \ {{}} :
        /\ claims' = [claims EXCEPT ![p] = batch]
        /\ entry' = [c \in Children |-> IF c \in batch THEN "claimed" ELSE entry[c]]
        /\ task' = [c \in Children |-> IF c \in batch THEN "term" ELSE task[c]]
    /\ UNCHANGED <<process, policy, gone, handle, owner, pass, failed, atCall, gate, ending>>

Join(p, c) ==
    /\ pass[p] = "join" /\ c \in claims[p] /\ task[c] \in Outcome
    /\ entry' = [entry EXCEPT ![c] = Completed(c, task[c])]
    /\ failed' = [failed EXCEPT ![p] = @ \/ task[c] = "Failed"]
    /\ claims' = [claims EXCEPT ![p] = @ \ {c}]
    /\ task' = [task EXCEPT ![c] = "none"]
    /\ UNCHANGED <<process, policy, gone, handle, owner, pass, atCall, gate, ending>>

\* finish_shutdown_if_drained(): no live entry is left, the pass returns.
Finish(p) ==
    /\ claims[p] = {}
    /\ \A c \in Children : entry[c] # "live"
    /\ Pass(p, "join", IF failed[p] THEN "err" ELSE "ok")
    /\ gate' = NoHolder
    /\ UNCHANGED <<process, policy, registry, owner, task, claims, failed, atCall, ending>>

\* The future of shutdown() is dropped: JoinSet aborts the tasks (a child one
\* of them is waiting for goes to the orphan queue), ClaimGuard releases the
\* claims, and the gate is freed last.
DropPass(p) ==
    /\ p \notin Detached
    /\ pass[p] \in ActivePass
    /\ pass' = [pass EXCEPT ![p] = "dropped"]
    /\ entry' = Released(claims[p])
    /\ task' = [c \in Children |-> IF c \in claims[p] THEN "none" ELSE task[c]]
    /\ handle' = [c \in Children |->
                    IF c \in claims[p] /\ handle[c] = "task" THEN "none" ELSE handle[c]]
    /\ claims' = [claims EXCEPT ![p] = {}]
    /\ gate' = IF gate = p THEN NoHolder ELSE gate
    /\ UNCHANGED <<process, policy, gone, owner, failed, atCall, ending>>

RunStep(c) ==
    \/ Register(c) \/ WaitExit(c) \/ GraceExit(c) \/ GroupGone(c) \/ GraceExpires(c)
    \/ KillReaped(c) \/ Disarm(c)
    \/ Relinquish(c) \/ HandbackReaped(c) \/ DropReaped(c) \/ WrapperRemoved(c)

TaskStep(c) ==
    \/ TaskTerm(c) \/ TaskPoll(c) \/ TaskEscalate(c) \/ TaskGiveUp(c)
    \/ TaskReap(c) \/ TaskReaped(c)

PassStep(p) ==
    \/ StartShutdown(p) \/ ClaimLive(p) \/ Finish(p)
    \/ \E c \in Children : Join(p, c)

DropStep ==
    \/ SupervisorDropped
    \/ \E c \in Children : SupervisorKill(c) \/ SupervisorRemove(c)

Next ==
    \/ \E c \in Children :
        \/ Spawn(c) \/ RunStep(c) \/ WaitStop(c) \/ KillLingering(c)
        \/ ScopeDrop(c) \/ BlockingScopeDrop(c) \/ HandbackDrop(c) \/ WrapperDrop(c)
        \/ TaskStep(c) \/ LeaderExits(c) \/ DescendantsExit(c)
    \/ \E p \in Passes : Call(p) \/ PassStep(p) \/ DropPass(p)
    \/ SupervisorDrop \/ DropStep

Spec == Init /\ [][Next]_vars

\* The runtime schedules every task and timer, and SIGKILL kills.
FairSpec ==
    /\ Spec
    /\ \A c \in Children :
        WF_vars(RunStep(c)) /\ WF_vars(TaskStep(c)) /\ WF_vars(Dies(c))
    /\ \A p \in Passes : WF_vars(PassStep(p))
    /\ WF_vars(DropStep)

(***************************************************************************)
(* Properties                                                              *)
(***************************************************************************)

Alive(c) == leader[c] = "run" \/ sub[c]
Doomed(c) ==
    /\ leader[c] = "run" => "leader" \in killed[c]
    /\ sub[c] => "sub" \in killed[c]

\* A claim lasts exactly as long as a pass answers for it: an entry is claimed,
\* or reaped under a claim, iff one pass, the holder of the gate, has it
\* outstanding, with a task that works on it (registry.rs claim_live(),
\* complete_claim(), release_claims(); shutdown.rs ClaimGuard).
ClaimsHeld ==
    /\ \A c \in Children :
        entry[c] \in {"claimed", "reaped"} => \E p \in Passes : c \in claims[p]
    /\ \A p \in Passes : claims[p] # {} => gate = p
    /\ \A c \in Children : (task[c] # "none") <=> (\E p \in Passes : c \in claims[p])

\* No child is detached: a process that lives and was not sent SIGKILL is
\* registered, or the run that spawned it still answers for it; and once the
\* supervisor was dropped and the runs and passes have ended nothing stays
\* registered (registry.rs remove() and attach_child(), scope.rs, sync.rs,
\* types.rs drop()).  Excepted are the descendants of a leader that was reaped before
\* its scope was dropped, Adrift, as NoOrphanEver shows.
Leaked(c) == Alive(c) /\ ~Doomed(c) /\ entry[c] = "absent" /\ owner[c] \in {"done", "reaper", "none"}

\* The scope's drop found no pid to signal (scope.rs:109) and unregistered: what
\* lives of such a child is its descendants.
Adrift(c) == c \in adrift /\ leader[c] = "reaped"

AllEnded ==
    /\ sup = "dropped"
    /\ \A c \in Children : owner[c] \in Returned
    /\ \A p \in Passes : pass[p] \notin ActivePass

NoOrphan ==
    /\ \A c \in Children : Leaked(c) => Adrift(c)
    /\ AllEnded => Registered = {}

\* The same without the exception: a run's child is also reaped when the run's
\* future is dropped (command/lifecycle.rs, scope.rs).
NoOrphanEver == \A c \in Children : ~Leaked(c)

\* When shutdown() returns Ok, every child registered when it was called is dead
\* or has been sent SIGKILL, or is still registered as a survivor whose policy
\* forbids SIGKILL (shutdown.rs fan_out_shutdown(), types.rs shutdown()) - with the
\* exception NoOrphan has: if the run of a child was dropped after its leader was
\* reaped, shutdown() returns Ok although the descendants live and were not
\* signalled, even when the pass had claimed the entry (scope.rs:109 sends nothing,
\* registry.rs:125 marks the claimed entry reaped, so the pass takes it for gone).
ShutdownHonest ==
    [][\A p \in Passes : pass[p] # "ok" /\ pass'[p] = "ok" =>
        \A c \in atCall[p] :
            \/ ~Alive(c) \/ Doomed(c)
            \/ entry[c] = "survived" /\ ~policy[c].kill_after_grace
            \/ Adrift(c)]_vars

\* Runs and passes never wait for each other forever: a shutdown pass returns,
\* and a run that was cancelled, timed out or saw its child exit returns.
Ends ==
    /\ \A p \in Passes : pass[p] = "gate" ~> pass[p] \in {"ok", "err", "dropped"}
    /\ \A c \in Children :
        owner[c] \in {"grace", "exited", "reaper", "dropping"} ~> owner[c] = "done"
=============================================================================
