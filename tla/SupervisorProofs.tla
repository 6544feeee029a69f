-------------------------- MODULE SupervisorProofs --------------------------
(***************************************************************************)
(* Machine-checked proofs about the process supervisor, for any number of  *)
(* children, of passes and of policies.                                    *)
(*                                                                         *)
(* ClaimInv ties claims to the pass that holds the gate.  ChildInv says at  *)
(* which points a child is known to be dead, sent SIGKILL, or adrift, and  *)
(* every way out of the registry leads through one of them.                *)
(***************************************************************************)
EXTENDS Supervisor, TLAPS

Domains ==
    /\ DOMAIN leader = Children /\ DOMAIN sub = Children /\ DOMAIN killed = Children
    /\ DOMAIN entry = Children /\ DOMAIN gone = Children /\ DOMAIN owner = Children
    /\ DOMAIN task = Children /\ DOMAIN handle = Children
    /\ DOMAIN pass = Passes /\ DOMAIN claims = Passes
    /\ DOMAIN failed = Passes /\ DOMAIN atCall = Passes

\* A pass joins its tasks exactly while it holds the gate; only then it has claims,
\* and each claim has its task.
ClaimInv ==
    /\ \A p \in Passes : pass[p] = "join" <=> gate = p
    /\ \A p \in Passes : claims[p] \subseteq Children /\ (claims[p] # {} => gate = p)
    /\ \A c \in Children : task[c] # "none" <=> \E p \in Passes : c \in claims[p]
    /\ \A c \in Children :
        entry[c] \in {"claimed", "reaped"} => \E p \in Passes : c \in claims[p]

\* Nothing lives that was not sent SIGKILL, unless the child is adrift.
Safe(c) == Doomed(c) \/ Adrift(c)

\* A child that is not registered yet: nobody knows it but its owner.
Unknown(c) ==
    /\ entry[c] = "absent" /\ ~gone[c] /\ task[c] = "none"
    /\ c \notin drain /\ victim # c

BornAt(c) ==
    /\ owner[c] = "none" => leader[c] # "run" /\ ~sub[c]
    /\ owner[c] \in {"none", "spawned"} => Unknown(c)
    /\ sub[c] => Group(c)
    /\ owner[c] = "exited" => leader[c] = "reaped"

\* Where a child is known to be safe.
SafeAt(c) ==
    /\ gone[c] => Safe(c)
    /\ entry[c] = "reaped" => gone[c]
    /\ entry[c] = "absent" /\ owner[c] \notin {"none", "spawned"} => Safe(c)
    /\ owner[c] \in {"dropping", "wrapper_drop"} => Safe(c)
    /\ task[c] \in {"drain", "reap", "reaping", "Terminated"} => Safe(c)
    /\ victim = c => Safe(c)

ChildInv == \A c \in Children : BornAt(c) /\ SafeAt(c)

\* Dropping the supervisor empties the registry, but for what a pass has claimed.
DropInv ==
    /\ victim # NoHolder => sup = "dropping" /\ victim \in drain
    /\ sup # "up" => \A c \in Children : owner[c] # "spawned"
    /\ sup # "up" => \A c \in Children : entry[c] \in {"absent", "reaped"} \/ c \in drain
    /\ sup = "dropped" => drain = {}

\* Survivors of a pass that counted no failure are spared by their policy.
SparedInv ==
    /\ \A c \in Children : entry[c] \in {"absent", "live", "claimed", "survived", "reaped"}
    /\ \A c \in Children : task[c] = "Survived" => ~policy[c].kill_after_grace
    /\ \A p \in Passes : gate = p /\ ~failed[p] =>
        \A c \in Children : entry[c] = "survived" => ~policy[c].kill_after_grace
    /\ \A p \in Passes : \A c \in atCall[p] : c \in Children /\ owner[c] \notin {"none", "spawned"}

(***************************************************************************)
(* Steps                                                                   *)
(***************************************************************************)

\* The steps of the runs, the wrappers, the processes and the supervisor's drop:
\* those that are not a pass's.
OwnerStep(c) ==
    \/ Spawn(c) \/ RunStep(c) \/ WaitStop(c) \/ KillLingering(c)
    \/ ScopeDrop(c) \/ BlockingScopeDrop(c) \/ HandbackDrop(c) \/ WrapperDrop(c)
    \/ LeaderExits(c) \/ DescendantsExit(c)
    \/ SupervisorKill(c) \/ SupervisorRemove(c)

\* What an entry may become outside the passes.
EntryStep(c) ==
    \/ entry'[c] = entry[c]
    \/ entry[c] = "claimed" /\ entry'[c] = "reaped"
    \/ entry[c] # "claimed" /\ entry'[c] = "absent"
    \/ owner[c] = "spawned" /\ entry'[c] = "live"

Elsewhere(c) ==
    \A d \in Children \ {c} :
        /\ leader'[d] = leader[d] /\ sub'[d] = sub[d] /\ killed'[d] = killed[d]
        /\ entry'[d] = entry[d] /\ gone'[d] = gone[d] /\ owner'[d] = owner[d]
        /\ task'[d] = task[d]

\* Each such step concerns one child and leaves the passes alone (a run's, a
\* wrapper's or the supervisor's part of supervisor/).
LEMMA OwnerSteps ==
    ASSUME Domains, NEW c \in Children, OwnerStep(c)
    PROVE  /\ Domains' /\ Elsewhere(c) /\ EntryStep(c)
           /\ UNCHANGED <<passes, policy, sup>>
<1> USE DEF Domains, Elsewhere, EntryStep, passes, ending, process, registry, RunUnchanged,
            Owner, Reaped, Remove
<1>1. CASE Spawn(c)
  BY <1>1 DEF Spawn
<1>2. CASE Register(c)
  BY <1>2 DEF Register
<1>3. CASE WaitExit(c) \/ GraceExit(c) \/ GroupGone(c) \/ KillReaped(c) \/ WaitStop(c)
  BY <1>3 DEF WaitExit, GraceExit, GroupGone, KillReaped, WaitStop, TermRefused
<1>4. CASE GraceExpires(c) \/ KillLingering(c) \/ BlockingScopeDrop(c) \/ HandbackDrop(c)
  BY <1>4 DEF GraceExpires, KillLingering, BlockingScopeDrop, HandbackDrop
<1>5. CASE Disarm(c)
  BY <1>5 DEF Disarm
<1>6. CASE Relinquish(c) \/ HandbackReaped(c)
  BY <1>6 DEF Relinquish, HandbackReaped
<1>7. CASE DropReaped(c)
  BY <1>7 DEF DropReaped
<1>8. CASE ScopeDrop(c)
  BY <1>8 DEF ScopeDrop
<1>9. CASE WrapperDrop(c)
  BY <1>9 DEF WrapperDrop, KillBlocking, TargetKilled
<1>10. CASE WrapperRemoved(c)
  BY <1>10 DEF WrapperRemoved, RemoveAfterPoll
<1>11. CASE SupervisorKill(c)
  BY <1>11 DEF SupervisorKill, KillBlocking, TargetKilled
<1>12. CASE SupervisorRemove(c)
  BY <1>12 DEF SupervisorRemove, RemoveAfterPoll
<1>13. CASE LeaderExits(c) \/ DescendantsExit(c)
  BY <1>13 DEF LeaderExits, DescendantsExit
<1> HIDE DEF Domains, Elsewhere, EntryStep, passes, ending, process, registry, RunUnchanged,
            Owner, Reaped, Remove
<1> QED
  BY <1>1, <1>2, <1>3, <1>4, <1>5, <1>6, <1>7, <1>8, <1>9, <1>10, <1>11, <1>12, <1>13
     DEF OwnerStep, RunStep

\* A pass's task works on its child, and stays a task (target.rs terminate()).
LEMMA TaskSteps ==
    ASSUME Domains, NEW c \in Children, TaskStep(c)
    PROVE  /\ Domains' /\ Elsewhere(c)
           /\ task[c] # "none" /\ task'[c] # "none"
           /\ UNCHANGED <<policy, sub, entry, owner, pass, claims, failed, atCall, gate, ending>>
<1> USE DEF Domains, Elsewhere, Task, TaskUnchanged, Reaped
<1>1. CASE TaskTerm(c)
  BY <1>1 DEF TaskTerm
<1>2. CASE TaskPoll(c)
  BY <1>2 DEF TaskPoll
<1>3. CASE TaskEscalate(c)
  BY <1>3 DEF TaskEscalate, TargetKilled
<1>4. CASE TaskGiveUp(c) \/ TaskReap(c) \/ TaskReaped(c)
  BY <1>4 DEF TaskGiveUp, TaskReap, TaskReaped
<1> QED
  BY <1>1, <1>2, <1>3, <1>4 DEF TaskStep

\* The steps of a pass, and of the supervisor as a whole.
PassLike(p) == Call(p) \/ PassStep(p) \/ DropPass(p)

LEMMA Steps ==
    ASSUME Next
    PROVE  \/ \E c \in Children : OwnerStep(c) \/ TaskStep(c)
           \/ \E p \in Passes : PassLike(p)
           \/ SupervisorDrop \/ SupervisorDropped
  BY DEF Next, OwnerStep, PassLike, DropStep

LEMMA DomainsKept == Domains /\ [Next]_vars => Domains'
<1> SUFFICES ASSUME Domains, [Next]_vars PROVE Domains'
  OBVIOUS
<1>1. CASE UNCHANGED vars
  BY <1>1 DEF Domains, vars, process, registry, passes
<1>2. CASE \E c \in Children : OwnerStep(c) \/ TaskStep(c)
  BY <1>2, OwnerSteps, TaskSteps
<1>3. CASE \E p \in Passes : PassLike(p)
  <2> PICK p \in Passes : PassLike(p)
    BY <1>3
  <2> USE DEF Domains, process, registry, Pass
  <2>1. CASE Call(p) \/ StartShutdown(p) \/ Finish(p) \/ DropPass(p)
    BY <2>1 DEF Call, StartShutdown, Finish, DropPass, Released
  <2>2. CASE ClaimLive(p)
    BY <2>2 DEF ClaimLive
  <2>3. CASE \E c \in Children : Join(p, c)
    BY <2>3 DEF Join
  <2> QED
    BY <2>1, <2>2, <2>3 DEF PassLike, PassStep
<1>4. CASE SupervisorDrop \/ SupervisorDropped
  BY <1>4 DEF SupervisorDrop, SupervisorDropped, Domains, process, registry, passes
<1> QED
  BY <1>1, <1>2, <1>3, <1>4, Steps

(***************************************************************************)
(* Claims                                                                  *)
(***************************************************************************)

LEMMA ClaimsKept == Domains /\ ClaimInv /\ [Next]_vars => ClaimInv'
<1> SUFFICES ASSUME Domains, ClaimInv, [Next]_vars PROVE ClaimInv'
  OBVIOUS
<1>q. ASSUME UNCHANGED <<pass, claims, gate>>,
             \A c \in Children : (task'[c] = "none") <=> (task[c] = "none"),
             \A c \in Children :
                entry'[c] \in {"claimed", "reaped"} => entry[c] \in {"claimed", "reaped"}
      PROVE  ClaimInv'
  BY <1>q DEF ClaimInv
<1>1. CASE UNCHANGED vars
  BY <1>1, <1>q DEF vars, registry, passes
<1>2. ASSUME NEW c \in Children, OwnerStep(c) PROVE ClaimInv'
  <2>1. Elsewhere(c) /\ EntryStep(c) /\ UNCHANGED passes
    BY <1>2, OwnerSteps
  <2> QED
    BY <2>1, <1>q DEF Elsewhere, EntryStep, passes
<1>3. ASSUME NEW c \in Children, TaskStep(c) PROVE ClaimInv'
  <2>1. /\ Elsewhere(c) /\ task[c] # "none" /\ task'[c] # "none"
        /\ UNCHANGED <<entry, pass, claims, gate>>
    BY <1>3, TaskSteps
  <2> QED
    BY <2>1, <1>q DEF Elsewhere
<1>4. ASSUME NEW p \in Passes, PassLike(p) PROVE ClaimInv'
  <2>1. p # NoHolder /\ \A r \in Passes : r # NoHolder
    BY SupervisorAssumption
  <2>2. CASE Call(p)
    BY <2>1, <2>2 DEF Call, Pass, ClaimInv, Domains, registry
  <2>3. CASE StartShutdown(p)
    BY <2>1, <2>3 DEF StartShutdown, Pass, ClaimInv, Domains
  <2>4. CASE ClaimLive(p)
    <3>1. PICK batch \in Batches \ {{}} :
            /\ claims' = [claims EXCEPT ![p] = batch]
            /\ entry' = [c \in Children |-> IF c \in batch THEN "claimed" ELSE entry[c]]
            /\ task' = [c \in Children |-> IF c \in batch THEN "term" ELSE task[c]]
      BY <2>4 DEF ClaimLive
    <3>2. batch \subseteq Children
      BY DEF Batches
    <3>3. pass[p] = "join" /\ claims[p] = {} /\ UNCHANGED <<pass, gate>> /\ gate = p
      BY <2>4 DEF ClaimLive, ClaimInv
    <3>4. \A r \in Passes : claims'[r] = IF r = p THEN batch ELSE claims[r]
      BY <3>1 DEF Domains
    <3> QED
      BY <3>1, <3>2, <3>3, <3>4 DEF ClaimInv
  <2>5. CASE \E c \in Children : Join(p, c)
    <3>1. PICK c \in Children : Join(p, c)
      BY <2>5
    <3>2. /\ c \in claims[p] /\ UNCHANGED <<pass, gate>>
          /\ \A r \in Passes : claims'[r] = IF r = p THEN claims[r] \ {c} ELSE claims[r]
          /\ \A d \in Children \ {c} : entry'[d] = entry[d] /\ task'[d] = task[d]
          /\ task'[c] = "none" /\ entry'[c] \in {"absent", "survived"}
      BY <3>1 DEF Join, Domains, Completed
    <3>3. /\ gate = p
          /\ \A r \in Passes : r # p => claims[r] = {}
      BY <3>2 DEF ClaimInv
    <3>4. \A d \in Children : (\E r \in Passes : d \in claims'[r]) <=> d # c /\ d \in claims[p]
      BY <3>2, <3>3
    <3>5. \A d \in Children : (\E r \in Passes : d \in claims[r]) <=> d \in claims[p]
      BY <3>3
    <3>6. /\ \A r \in Passes : pass'[r] = "join" <=> gate' = r
          /\ \A r \in Passes : claims'[r] \subseteq Children /\ (claims'[r] # {} => gate' = r)
      BY <3>2, <3>3 DEF ClaimInv
    <3>7. \A d \in Children : task'[d] # "none" <=> d # c /\ d \in claims[p]
      BY <3>2, <3>5 DEF ClaimInv
    <3>8. \A d \in Children : entry'[d] \in {"claimed", "reaped"} => d # c /\ d \in claims[p]
      BY <3>2, <3>5 DEF ClaimInv
    <3> QED
      BY <3>4, <3>6, <3>7, <3>8 DEF ClaimInv
  <2>6. CASE Finish(p)
    BY <2>1, <2>6 DEF Finish, Pass, ClaimInv, Domains, registry
  <2>7. CASE DropPass(p)
    <3>1. /\ \A r \in Passes : claims'[r] = IF r = p THEN {} ELSE claims[r]
          /\ \A r \in Passes : pass'[r] = IF r = p THEN "dropped" ELSE pass[r]
          /\ \A d \in Children : task'[d] = IF d \in claims[p] THEN "none" ELSE task[d]
          /\ gate' = IF gate = p THEN NoHolder ELSE gate
      BY <2>7 DEF DropPass, Domains
    <3>2. \A d \in Children : entry'[d] \in {"claimed", "reaped"} =>
                              d \notin claims[p] /\ entry'[d] = entry[d]
      BY <2>7 DEF DropPass, Released
    <3>3. \A d \in Children, r \in Passes : d \in claims[p] /\ d \in claims[r] => r = p
      BY DEF ClaimInv
    <3> QED
      BY <2>1, <3>1, <3>2, <3>3 DEF ClaimInv
  <2> QED
    BY <1>4, <2>2, <2>3, <2>4, <2>5, <2>6, <2>7 DEF PassLike, PassStep
<1>5. CASE SupervisorDrop \/ SupervisorDropped
  BY <1>5, <1>q DEF SupervisorDrop, SupervisorDropped, registry, passes
<1> QED
  BY <1>1, <1>2, <1>3, <1>4, <1>5, Steps

(***************************************************************************)
(* Children                                                                *)
(***************************************************************************)

\* A child that was spawned gains no process, loses no SIGKILL, and its owner never
\* goes back to before the registration.
Onward(c) ==
    /\ owner[c] # "none" => (leader'[c] = "run" => leader[c] = "run") /\ (sub'[c] => sub[c])
    /\ owner[c] # "none" /\ leader[c] = "reaped" => leader'[c] = "reaped"
    /\ killed[c] \subseteq killed'[c]
    /\ c \in adrift => c \in adrift'
    /\ owner[c] \notin {"none", "spawned"} => owner'[c] \notin {"none", "spawned"}

LEMMA SafeStays ==
    ASSUME NEW c \in Children, Onward(c), owner[c] # "none", Safe(c)
    PROVE  Safe(c)'
  BY DEF Onward, Safe, Doomed, Adrift

LEMMA OwnerOnward ==
    ASSUME Domains, NEW c \in Children, OwnerStep(c)
    PROVE  /\ \A d \in Children : Onward(d)
           /\ \A d \in Children \ {c} : (d \in drain' => d \in drain) /\ (victim' = d => victim = d)
<1>1. Elsewhere(c)
  BY OwnerSteps
<1>2. adrift \subseteq adrift' /\ drain' \subseteq drain /\ victim' \in {victim, c, NoHolder}
  <2> USE DEF ending, RunUnchanged
  <2> QED
    BY DEF OwnerStep, RunStep, Spawn, Register, WaitExit, GraceExit, GroupGone, KillReaped,
           WaitStop, TermRefused, GraceExpires, KillLingering, BlockingScopeDrop, HandbackDrop, Disarm,
           Relinquish, HandbackReaped, DropReaped, ScopeDrop, WrapperDrop, WrapperRemoved,
           SupervisorKill, SupervisorRemove, LeaderExits, DescendantsExit
<1>3. \A d \in Children : d # NoHolder
  BY SupervisorAssumption
<1>4. Onward(c)
  <2> USE DEF Domains, Onward, ending, process, registry, RunUnchanged, Owner, Reaped
  <2>1. CASE Spawn(c) \/ Register(c)
    BY <2>1 DEF Spawn, Register
  <2>2. CASE WaitExit(c) \/ GraceExit(c) \/ GroupGone(c) \/ KillReaped(c) \/ WaitStop(c)
    BY <2>2 DEF WaitExit, GraceExit, GroupGone, KillReaped, WaitStop, TermRefused
  <2>3. CASE GraceExpires(c) \/ KillLingering(c) \/ BlockingScopeDrop(c) \/ HandbackDrop(c)
    BY <2>3 DEF GraceExpires, KillLingering, BlockingScopeDrop, HandbackDrop
  <2>4. CASE Disarm(c) \/ Relinquish(c) \/ HandbackReaped(c) \/ DropReaped(c)
    BY <2>4 DEF Disarm, Relinquish, HandbackReaped, DropReaped
  <2>5. CASE ScopeDrop(c)
    BY <2>5 DEF ScopeDrop
  <2>6. CASE WrapperDrop(c) \/ WrapperRemoved(c)
    BY <2>6 DEF WrapperDrop, WrapperRemoved, KillBlocking, TargetKilled, RemoveAfterPoll
  <2>7. CASE SupervisorKill(c) \/ SupervisorRemove(c)
    BY <2>7 DEF SupervisorKill, SupervisorRemove, KillBlocking, TargetKilled, RemoveAfterPoll
  <2>8. CASE LeaderExits(c) \/ DescendantsExit(c)
    BY <2>8 DEF LeaderExits, DescendantsExit
  <2> HIDE DEF Domains, Onward, ending, process, registry, RunUnchanged, Owner, Reaped
  <2> QED
    BY <2>1, <2>2, <2>3, <2>4, <2>5, <2>6, <2>7, <2>8 DEF OwnerStep, RunStep
<1> QED
  BY <1>1, <1>2, <1>3, <1>4 DEF Elsewhere, Onward

LEMMA TaskOnward ==
    ASSUME Domains, NEW c \in Children, TaskStep(c)
    PROVE  \A d \in Children : Onward(d)
<1>1. Elsewhere(c) /\ UNCHANGED <<sub, owner, ending>>
  BY TaskSteps
<1>2. /\ leader'[c] = "run" => leader[c] = "run"
      /\ leader[c] = "reaped" => leader'[c] = "reaped"
      /\ killed[c] \subseteq killed'[c]
  <2> USE DEF Domains, Task
  <2>1. CASE TaskTerm(c) \/ TaskPoll(c) \/ TaskGiveUp(c)
    BY <2>1 DEF TaskTerm, TaskPoll, TaskGiveUp, LeaderAfterPoll
  <2>2. CASE TaskEscalate(c)
    BY <2>2 DEF TaskEscalate, TargetKilled
  <2>3. CASE TaskReap(c) \/ TaskReaped(c)
    BY <2>3 DEF TaskReap, TaskReaped, Reaped
  <2> QED
    BY <2>1, <2>2, <2>3 DEF TaskStep
<1> QED
  BY <1>1, <1>2 DEF Elsewhere, Onward, ending

\* A step that leaves a child alone keeps what is known of it.
LEMMA ChildAlone ==
    ASSUME NEW c \in Children, BornAt(c), SafeAt(c), Onward(c),
           UNCHANGED <<policy, leader[c], sub[c], entry[c], gone[c], owner[c], task[c]>>,
           c \in drain' => c \in drain, victim' = c => victim = c
    PROVE  BornAt(c)' /\ SafeAt(c)'
<1>1. owner[c] # "none" /\ Safe(c) => Safe(c)'
  BY SafeStays
<1>2. BornAt(c)'
  BY DEF BornAt, Unknown, Group
<1>3. SafeAt(c)'
  BY <1>1 DEF BornAt, Unknown, SafeAt
<1> QED
  BY <1>2, <1>3

\* Every step of a run, a wrapper or the supervisor's drop keeps what is known of its
\* child; in particular each removal finds the child safe.
LEMMA OwnerChild ==
    ASSUME Domains, NEW c \in Children, BornAt(c), SafeAt(c), DropInv, OwnerStep(c)
    PROVE  BornAt(c)' /\ SafeAt(c)'
<1>0. (owner[c] # "none" /\ Safe(c) => Safe(c)') /\ c # NoHolder
  BY OwnerOnward, SafeStays, SupervisorAssumption
<1> DEFINE Removed == /\ entry'[c] = IF entry[c] = "claimed" THEN "reaped" ELSE "absent"
                      /\ entry[c] = "claimed" => gone'[c]
                      /\ entry[c] # "claimed" /\ gone'[c] => gone[c]
           Same == UNCHANGED <<policy, drain, victim>> /\ task'[c] = task[c]
                   /\ (sub'[c] => sub[c])
           Kept == entry'[c] = entry[c] /\ gone'[c] = gone[c]
<1>a. ASSUME Same, Kept, owner[c] \notin {"none", "spawned"},
             owner'[c] \notin {"none", "spawned"},
             owner'[c] = "exited" => leader'[c] = "reaped",
             owner'[c] \in {"dropping", "wrapper_drop"} => Safe(c)'
      PROVE  BornAt(c)' /\ SafeAt(c)'
  BY <1>0, <1>a DEF BornAt, SafeAt, Group
<1>b. ASSUME Same, Removed, Safe(c)', owner'[c] \notin {"none", "spawned", "exited"}
      PROVE  BornAt(c)' /\ SafeAt(c)'
  BY <1>b DEF BornAt, SafeAt, Group
<1> HIDE DEF Removed, Same, Kept
<1>1. CASE Spawn(c)
  BY <1>1 DEF Spawn, Owner, Domains, BornAt, SafeAt, Unknown, Group, passes, ending
<1>2. CASE Register(c)
  <2>1. /\ owner[c] = "spawned" /\ owner'[c] \in {"wrapped", "wait"} /\ entry'[c] = "live"
        /\ UNCHANGED <<leader, sub, killed, policy, gone, task, drain, victim, adrift>>
    BY <1>2 DEF Register, Owner, Domains, process, passes, ending
  <2> QED
    BY <2>1 DEF BornAt, SafeAt, Unknown, Group
<1>3. CASE WaitExit(c) \/ GraceExit(c) \/ GroupGone(c) \/ KillReaped(c) \/ WaitStop(c)
           \/ HandbackDrop(c) \/ GraceExpires(c) \/ KillLingering(c) \/ Relinquish(c)
           \/ HandbackReaped(c) \/ (DropReaped(c) /\ owner[c] = "reaper")
  <2> USE DEF Domains, Owner, Reaped, RunUnchanged, process, registry, passes, ending
  <2>1. Same /\ Kept
    BY <1>3 DEF Same, Kept, WaitExit, GraceExit, GroupGone, KillReaped, WaitStop, TermRefused, HandbackDrop,
                GraceExpires, KillLingering, Relinquish, HandbackReaped, DropReaped
  <2>2. /\ owner[c] \notin {"none", "spawned"}
        /\ owner'[c] \notin {"none", "spawned", "dropping", "wrapper_drop"}
        /\ owner'[c] = "exited" => leader'[c] = "reaped" \/ (owner[c] = "exited" /\ UNCHANGED leader)
    BY <1>3 DEF WaitExit, GraceExit, GroupGone, KillReaped, WaitStop, TermRefused, HandbackDrop,
                GraceExpires, KillLingering, Relinquish, HandbackReaped, DropReaped
  <2> QED
    BY <2>1, <2>2, <1>a DEF BornAt
<1>4. CASE BlockingScopeDrop(c)
  <2>1. Same /\ Kept /\ owner[c] \in Armed /\ owner'[c] = "dropping"
    BY <1>4 DEF Same, Kept, BlockingScopeDrop, Domains, registry, passes, ending
  <2>2. Safe(c)'
    BY <1>4 DEF BlockingScopeDrop, Domains, Safe, Doomed, KillParts, BornAt
  <2> QED
    BY <2>1, <2>2, <1>a DEF Armed
<1>5. CASE Disarm(c)
  <2>1. Same /\ Removed /\ owner'[c] = "done" /\ ~GroupAlive(c) /\ leader[c] = "reaped"
        /\ UNCHANGED <<leader, sub, killed>>
    BY <1>5 DEF Same, Removed, Disarm, Domains, process, passes, ending, Remove, Owner, BornAt
  <2>2. Safe(c)'
    BY <2>1 DEF GroupAlive, Safe, Doomed, BornAt
  <2> QED
    BY <2>1, <2>2, <1>b
<1>6. CASE ScopeDrop(c)
  <2>1. Same /\ Removed /\ owner'[c] = "reaper" /\ UNCHANGED <<leader, sub>>
    BY <1>6 DEF Same, Removed, ScopeDrop, Domains, passes, Remove
  <2>2. Safe(c)'
    BY <1>6 DEF ScopeDrop, Domains, Safe, Doomed, Adrift, KillParts, BornAt
  <2> QED
    BY <2>1, <2>2, <1>b
<1>7. CASE DropReaped(c) /\ owner[c] # "reaper"
  <2>1. Same /\ Removed /\ owner[c] = "dropping" /\ owner'[c] = "done"
    BY <1>7 DEF Same, Removed, DropReaped, Domains, passes, ending, Remove
  <2> QED
    BY <2>1, <1>b, <1>0 DEF SafeAt
<1>8. CASE WrapperDrop(c)
  <2>1. Same /\ Kept /\ owner[c] = "wrapped" /\ owner'[c] = "wrapper_drop"
    BY <1>8 DEF Same, Kept, WrapperDrop, Owner, Domains, passes, ending
  <2>2. Safe(c)'
    <3>1. CASE c \in Registered
      BY <1>0, <1>8, <2>1, <3>1 DEF WrapperDrop, KillBlocking, TargetKilled, Domains, Safe,
              Doomed, KillParts, BornAt, SafeAt
    <3>2. CASE c \notin Registered
      BY <1>0, <2>1, <3>2 DEF Registered, SafeAt
    <3> QED
      BY <3>1, <3>2
  <2> QED
    BY <2>1, <2>2, <1>a
<1>9. CASE WrapperRemoved(c)
  <2>1. owner[c] = "wrapper_drop" /\ owner'[c] = "done" /\ Same
    BY <1>9 DEF WrapperRemoved, Owner, Same, Domains, passes, ending
  <2>2. entry'[c] \in {"absent", "reaped"} /\ (entry'[c] = "reaped" => gone'[c])
    BY <1>9 DEF WrapperRemoved, RemoveAfterPoll, Remove, Domains
  <2> QED
    BY <1>0, <2>1, <2>2 DEF Same, BornAt, SafeAt, Group
<1>10. CASE SupervisorKill(c)
  <2>1. /\ entry'[c] = entry[c] /\ gone'[c] = gone[c] /\ owner'[c] = owner[c] /\ c \in drain
        /\ UNCHANGED <<leader, sub, policy, task, drain>> /\ victim' = c
    BY <1>10 DEF SupervisorKill, passes
  <2>2. Safe(c)'
    BY <1>0, <1>10, <2>1 DEF SupervisorKill, KillBlocking, TargetKilled, Domains, Safe, Doomed,
              KillParts, BornAt, SafeAt, Unknown
  <2>3. owner[c] \notin {"none", "spawned"}
    BY <2>1 DEF BornAt, Unknown
  <2> QED
    BY <2>1, <2>2, <2>3 DEF BornAt, SafeAt, Group
<1>11. CASE SupervisorRemove(c)
  <2>1. /\ victim = c /\ victim' = NoHolder /\ owner'[c] = owner[c]
        /\ UNCHANGED <<sub, policy, task>>
    BY <1>11 DEF SupervisorRemove, passes
  <2>2. entry'[c] \in {"absent", "reaped"} /\ (entry'[c] = "reaped" => gone'[c])
    BY <1>11 DEF SupervisorRemove, RemoveAfterPoll, Remove, Domains
  <2>3. owner[c] \notin {"none", "spawned"} /\ Safe(c)'
    BY <1>0, <2>1 DEF BornAt, Unknown, SafeAt
  <2>4. leader'[c] \in {leader[c], "reaped"}
    BY <1>11 DEF SupervisorRemove, RemoveAfterPoll, Reaped, Domains
  <2> QED
    BY <1>0, <2>1, <2>2, <2>3, <2>4 DEF BornAt, SafeAt, Group
<1>12. CASE LeaderExits(c) \/ DescendantsExit(c)
  <2>1. Same /\ Kept /\ owner'[c] = owner[c] /\ owner[c] # "none"
        /\ (leader'[c] = leader[c] \/ leader[c] = "run")
        /\ UNCHANGED <<gone, task, drain, victim>>
    BY <1>12 DEF Same, Kept, LeaderExits, DescendantsExit, Domains, registry, passes, ending, BornAt
  <2> QED
    BY <1>0, <2>1 DEF Same, Kept, BornAt, SafeAt, Unknown, Group
<1> QED
  BY <1>1, <1>2, <1>3, <1>4, <1>5, <1>6, <1>7, <1>8, <1>9, <1>10, <1>11, <1>12
     DEF OwnerStep, RunStep

\* A task that escalates, or finds its target gone, leaves it safe.
LEMMA TaskChild ==
    ASSUME Domains, NEW c \in Children, BornAt(c), SafeAt(c), TaskStep(c)
    PROVE  BornAt(c)' /\ SafeAt(c)'
<1>0. /\ task[c] # "none"
      /\ UNCHANGED <<policy, sub, entry, owner, ending>>
  BY TaskSteps
<1>1. owner[c] \notin {"none", "spawned"} /\ (Safe(c) => Safe(c)')
  BY <1>0, TaskOnward, SafeStays DEF BornAt, Unknown
<1>2. leader'[c] = leader[c] \/ leader[c] # "reaped"
  BY DEF TaskStep, TaskTerm, TaskPoll, TaskEscalate, TaskGiveUp, TaskReap, TaskReaped,
         LeaderAfterPoll, Reaped, Domains
<1>3. BornAt(c)'
  BY <1>0, <1>1, <1>2 DEF BornAt, Group
<1>4. ASSUME gone'[c] => gone[c] \/ Safe(c)', gone[c] => gone'[c],
             task'[c] \in {"drain", "reap", "reaping", "Terminated"} => Safe(c)'
      PROVE  SafeAt(c)'
  BY <1>0, <1>1, <1>4 DEF SafeAt, ending
<1>5. CASE TaskTerm(c)
  <2>1. gone'[c] = gone[c] /\ task'[c] \in {"grace", "Failed"}
    BY <1>5 DEF TaskTerm, Task, Domains
  <2> QED
    BY <1>3, <1>4, <2>1
<1>6. CASE TaskPoll(c)
  <2>1. GoneAtPoll(c) => Safe(c)'
    BY <1>0, <1>1, <1>6 DEF TaskPoll, GoneAtPoll, SafeAt, Safe, Doomed, BornAt, Domains
  <2>2. /\ gone'[c] => gone[c] \/ GoneAtPoll(c)
        /\ gone[c] => gone'[c]
        /\ task'[c] = task[c] \/ GoneAtPoll(c)
    BY <1>6 DEF TaskPoll, Domains
  <2> QED
    BY <1>1, <1>3, <1>4, <2>1, <2>2 DEF SafeAt
<1>7. CASE TaskEscalate(c)
  <2>1. gone'[c] = gone[c] /\ task'[c] \in {"drain", "Failed", "Survived"}
    BY <1>7 DEF TaskEscalate, Domains
  <2>2. task'[c] = "drain" => Safe(c)'
    BY <1>0, <1>1, <1>7 DEF TaskEscalate, TargetKilled, KillParts, Safe, Doomed, BornAt, SafeAt, Domains
  <2> QED
    BY <1>3, <1>4, <2>1, <2>2
<1>8. CASE TaskGiveUp(c)
  <2>1. gone'[c] = gone[c] /\ task[c] = "drain"
    BY <1>8 DEF TaskGiveUp, Domains
  <2> QED
    BY <1>1, <1>3, <1>4, <2>1 DEF SafeAt
<1>9. CASE TaskReap(c) \/ TaskReaped(c)
  <2>1. (gone[c] => gone'[c]) /\ task[c] \in {"reap", "reaping"}
    BY <1>9 DEF TaskReap, TaskReaped, Task, Domains
  <2> QED
    BY <1>1, <1>3, <1>4, <2>1 DEF SafeAt
<1> QED
  BY <1>3, <1>5, <1>6, <1>7, <1>8, <1>9 DEF TaskStep

\* A pass takes an entry out only when its task ended the child, or when the run did.
LEMMA PassChild ==
    ASSUME Domains, NEW c \in Children, BornAt(c), SafeAt(c), NEW p \in Passes, PassLike(p)
    PROVE  BornAt(c)' /\ SafeAt(c)'
<1>0. UNCHANGED <<process, policy, gone, owner, ending>>
  BY DEF PassLike, PassStep, Call, StartShutdown, ClaimLive, Join, Finish, DropPass, registry
<1>1. Safe(c)' <=> Safe(c)
  BY <1>0 DEF Safe, Doomed, Adrift, process, ending
<1>2. ASSUME entry[c] = "absent" => entry'[c] = "absent" /\ task'[c] \in {task[c], "none"},
             entry'[c] = "reaped" => entry[c] = "reaped",
             entry'[c] = "absent" => entry[c] = "absent" \/ Safe(c),
             task'[c] \in {"drain", "reap", "reaping", "Terminated"} => task'[c] = task[c]
      PROVE  BornAt(c)' /\ SafeAt(c)'
  <2>1. BornAt(c)'
    BY <1>0, <1>2 DEF BornAt, Unknown, Group, process, ending
  <2>2. SafeAt(c)'
    BY <1>0, <1>1, <1>2 DEF SafeAt, ending
  <2> QED
    BY <2>1, <2>2
<1>3. CASE Call(p) \/ Finish(p)
  <2>1. UNCHANGED <<entry, task>>
    BY <1>3 DEF Call, Finish, registry
  <2> QED
    BY <1>2, <2>1
<1>4. CASE StartShutdown(p)
  <2>1. UNCHANGED task /\ entry'[c] = IF entry[c] = "survived" THEN "live" ELSE entry[c]
    BY <1>4 DEF StartShutdown
  <2> QED
    BY <1>2, <2>1
<1>5. CASE ClaimLive(p)
  <2>1. PICK batch \in Batches \ {{}} :
          /\ entry' = [d \in Children |-> IF d \in batch THEN "claimed" ELSE entry[d]]
          /\ task' = [d \in Children |-> IF d \in batch THEN "term" ELSE task[d]]
    BY <1>5 DEF ClaimLive
  <2>2. c \in batch => entry[c] = "live"
    BY DEF Batches
  <2> QED
    BY <1>2, <2>1, <2>2
<1>6. CASE \E d \in Children : Join(p, d)
  <2>1. PICK d \in Children : Join(p, d)
    BY <1>6
  <2>2. CASE d = c
    <3>1. entry'[c] = Completed(c, task[c]) /\ task'[c] = "none"
      BY <2>1, <2>2 DEF Join, Domains
    <3> QED
      BY <1>2, <3>1 DEF Completed, SafeAt
  <2>3. CASE d # c
    <3>1. entry'[c] = entry[c] /\ task'[c] = task[c]
      BY <2>1, <2>3 DEF Join, Domains
    <3> QED
      BY <1>2, <3>1
  <2> QED
    BY <2>2, <2>3
<1>7. CASE DropPass(p)
  <2>1. /\ entry'[c] = Released(claims[p])[c]
        /\ task'[c] = IF c \in claims[p] THEN "none" ELSE task[c]
    BY <1>7 DEF DropPass
  <2>2. Released(claims[p])[c] =
            IF c \notin claims[p] \/ entry[c] = "absent" THEN entry[c]
            ELSE IF entry[c] = "reaped" \/ gone[c] THEN "absent" ELSE "live"
    BY DEF Released
  <2> QED
    BY <1>2, <2>1, <2>2 DEF SafeAt
<1> QED
  BY <1>3, <1>4, <1>5, <1>6, <1>7 DEF PassLike, PassStep

LEMMA ChildrenKept == Domains /\ ChildInv /\ DropInv /\ [Next]_vars => ChildInv'
<1> SUFFICES ASSUME Domains, ChildInv, DropInv, [Next]_vars,
                    NEW d \in Children
             PROVE  BornAt(d)' /\ SafeAt(d)'
  BY DEF ChildInv
<1>0. BornAt(d) /\ SafeAt(d)
  BY DEF ChildInv
<1>1. CASE UNCHANGED vars
  BY <1>0, <1>1 DEF BornAt, SafeAt, Safe, Doomed, Adrift, Unknown, Group, vars, process, registry, passes, ending
<1>2. ASSUME NEW c \in Children, OwnerStep(c) PROVE BornAt(d)' /\ SafeAt(d)'
  <2>1. CASE d = c
    BY <1>0, <1>2, <2>1, OwnerChild
  <2>2. CASE d # c
    <3>1. Elsewhere(c) /\ UNCHANGED policy
      BY <1>2, OwnerSteps
    <3>2. Onward(d) /\ (d \in drain' => d \in drain) /\ (victim' = d => victim = d)
      BY <1>2, <2>2, OwnerOnward
    <3>3. UNCHANGED <<policy, leader[d], sub[d], entry[d], gone[d], owner[d], task[d]>>
      BY <2>2, <3>1 DEF Elsewhere
    <3> QED
      BY <1>0, <3>2, <3>3, ChildAlone
  <2> QED
    BY <2>1, <2>2
<1>3. ASSUME NEW c \in Children, TaskStep(c) PROVE BornAt(d)' /\ SafeAt(d)'
  <2>1. CASE d = c
    BY <1>0, <1>3, <2>1, TaskChild
  <2>2. CASE d # c
    <3>1. Elsewhere(c) /\ UNCHANGED <<policy, sub, entry, owner, ending>>
      BY <1>3, TaskSteps
    <3>2. Onward(d)
      BY <1>3, TaskOnward
    <3>3. UNCHANGED <<policy, leader[d], sub[d], entry[d], gone[d], owner[d], task[d]>>
      BY <2>2, <3>1 DEF Elsewhere
    <3> QED
      BY <1>0, <3>1, <3>2, <3>3, ChildAlone DEF ending
  <2> QED
    BY <2>1, <2>2
<1>4. ASSUME NEW p \in Passes, PassLike(p) PROVE BornAt(d)' /\ SafeAt(d)'
  BY <1>0, <1>4, PassChild
<1>5. CASE SupervisorDrop \/ SupervisorDropped
  <2>1. UNCHANGED <<leader, sub, killed, policy, entry, gone, owner, task, victim, adrift>>
        /\ (d \in drain' => d \in drain \/ entry[d] # "absent")
    BY <1>5 DEF SupervisorDrop, SupervisorDropped, Registered, process, registry, passes
  <2> QED
    BY <1>0, <2>1 DEF BornAt, SafeAt, Safe, Doomed, Adrift, Unknown, Group
<1> QED
  BY <1>1, <1>2, <1>3, <1>4, <1>5, Steps

(***************************************************************************)
(* The supervisor's drop, and survivors                                    *)
(***************************************************************************)

LEMMA DropKept == Domains /\ ChildInv /\ DropInv /\ [Next]_vars => DropInv'
<1> SUFFICES ASSUME Domains, ChildInv, DropInv, [Next]_vars PROVE DropInv'
  OBVIOUS
<1>q. ASSUME UNCHANGED <<sup, drain, victim>>,
             \A c \in Children : owner'[c] = "spawned" => sup = "up" \/ owner[c] = "spawned",
             sup # "up" => \A c \in Children :
                entry'[c] \notin {"absent", "reaped"} => entry[c] \notin {"absent", "reaped"}
      PROVE  DropInv'
  BY <1>q DEF DropInv
<1>1. CASE UNCHANGED vars
  BY <1>1, <1>q DEF vars, registry, ending
<1>2. ASSUME NEW c \in Children, OwnerStep(c) PROVE DropInv'
  <2>1. Elsewhere(c) /\ EntryStep(c) /\ UNCHANGED sup
    BY <1>2, OwnerSteps
  <2>2. CASE SupervisorKill(c)
    BY <2>2 DEF SupervisorKill, DropInv
  <2>3. CASE SupervisorRemove(c)
    <3>1. /\ victim = c /\ victim' = NoHolder /\ drain' = drain \ {c}
          /\ UNCHANGED <<owner, sup>> /\ entry'[c] \in {"absent", "reaped"}
      BY <2>3 DEF SupervisorRemove, RemoveAfterPoll, Remove, Domains
    <3> QED
      BY <2>1, <3>1 DEF DropInv, Elsewhere
  <2>4. CASE Spawn(c)
    <3>1. sup = "up" /\ UNCHANGED <<sup, drain, victim>>
      BY <2>4 DEF Spawn, ending
    <3> QED
      BY <3>1, <1>q
  <2>5. CASE ~(SupervisorKill(c) \/ SupervisorRemove(c) \/ Spawn(c))
    <3>1. UNCHANGED <<drain, victim>>
      BY <1>2, <2>5
         DEF OwnerStep, RunStep, Register, WaitExit, GraceExit, GroupGone, KillReaped,
             WaitStop, TermRefused, GraceExpires, KillLingering, BlockingScopeDrop, HandbackDrop, Disarm,
             Relinquish, HandbackReaped, DropReaped, ScopeDrop, WrapperDrop, WrapperRemoved,
             LeaderExits, DescendantsExit, ending, RunUnchanged
    <3>2. owner'[c] = "spawned" => owner[c] = "spawned"
      BY <1>2, <2>5
         DEF OwnerStep, RunStep, Register, WaitExit, GraceExit, GroupGone, KillReaped,
             WaitStop, TermRefused, GraceExpires, KillLingering, BlockingScopeDrop, HandbackDrop, Disarm,
             Relinquish, HandbackReaped, DropReaped, ScopeDrop, WrapperDrop, WrapperRemoved,
             LeaderExits, DescendantsExit, Owner, Domains
    <3>3. sup # "up" => owner[c] # "spawned"
      BY DEF DropInv
    <3> QED
      BY <2>1, <3>1, <3>2, <3>3, <1>q DEF Elsewhere, EntryStep
  <2> QED
    BY <2>2, <2>3, <2>4, <2>5
<1>3. ASSUME NEW c \in Children, TaskStep(c) PROVE DropInv'
  BY <1>3, <1>q, TaskSteps DEF ending
<1>4. ASSUME NEW p \in Passes, PassLike(p) PROVE DropInv'
  <2>1. UNCHANGED <<owner, ending>>
    BY <1>4 DEF PassLike, PassStep, Call, StartShutdown, ClaimLive, Join, Finish, DropPass
  <2>2. \A c \in Children : entry'[c] \notin {"absent", "reaped"} => entry[c] \notin {"absent", "reaped"}
    <3> USE <1>4 DEF Domains
    <3>1. CASE Call(p) \/ Finish(p)
      BY <3>1 DEF Call, Finish, registry
    <3>2. CASE StartShutdown(p)
      BY <3>2 DEF StartShutdown
    <3>3. CASE ClaimLive(p)
      BY <3>3 DEF ClaimLive, Batches
    <3>4. CASE \E c \in Children : Join(p, c)
      BY <3>4 DEF Join, Completed
    <3>5. CASE DropPass(p)
      BY <3>5 DEF DropPass, Released
    <3> QED
      BY <3>1, <3>2, <3>3, <3>4, <3>5 DEF PassLike, PassStep
  <2> QED
    BY <2>1, <2>2, <1>q DEF ending
<1>5. CASE SupervisorDrop
  BY <1>5 DEF SupervisorDrop, DropInv, Registered, Borrowing, registry
<1>6. CASE SupervisorDropped
  BY <1>6 DEF SupervisorDropped, DropInv, registry
<1> QED
  BY <1>1, <1>2, <1>3, <1>4, <1>5, <1>6, Steps

LEMMA SparedKept ==
    Domains /\ ClaimInv /\ ChildInv /\ SparedInv /\ [Next]_vars => SparedInv'
<1> SUFFICES ASSUME Domains, ClaimInv, ChildInv, SparedInv, [Next]_vars PROVE SparedInv'
  OBVIOUS
<1>q. ASSUME UNCHANGED <<policy, gate, failed, atCall>>,
             \A c \in Children :
                /\ entry'[c] \in {entry[c], "absent", "reaped", "live"}
                /\ task'[c] = "Survived" => task[c] = "Survived" \/ ~policy[c].kill_after_grace
                /\ owner[c] \notin {"none", "spawned"} => owner'[c] \notin {"none", "spawned"}
      PROVE  SparedInv'
  BY <1>q DEF SparedInv
<1>1. CASE UNCHANGED vars
  BY <1>1, <1>q DEF vars, registry, passes
<1>2. ASSUME NEW c \in Children, OwnerStep(c) PROVE SparedInv'
  <2>1. Elsewhere(c) /\ EntryStep(c) /\ UNCHANGED <<passes, policy>>
    BY <1>2, OwnerSteps
  <2>2. \A d \in Children : Onward(d)
    BY <1>2, OwnerOnward
  <2> QED
    BY <2>1, <2>2, <1>q DEF Elsewhere, EntryStep, Onward, passes
<1>3. ASSUME NEW c \in Children, TaskStep(c) PROVE SparedInv'
  <2>1. Elsewhere(c) /\ UNCHANGED <<policy, entry, owner, failed, atCall, gate>>
    BY <1>3, TaskSteps
  <2>2. task'[c] = "Survived" => task[c] = "Survived" \/ ~policy[c].kill_after_grace
    BY <1>3 DEF TaskStep, TaskTerm, TaskPoll, TaskEscalate, TaskGiveUp, TaskReap, TaskReaped,
                Task, Domains
  <2> QED
    BY <2>1, <2>2, <1>q DEF Elsewhere
<1>4. ASSUME NEW p \in Passes, PassLike(p) PROVE SparedInv'
  <2>0. UNCHANGED <<policy, owner>> /\ p # NoHolder
    BY <1>4, SupervisorAssumption
       DEF PassLike, PassStep, Call, StartShutdown, ClaimLive, Join, Finish, DropPass
  <2>1. CASE Call(p)
    <3>1. /\ UNCHANGED <<entry, task, gate, failed>>
          /\ \A r \in Passes : atCall'[r] = IF r = p THEN Registered ELSE atCall[r]
      BY <2>1 DEF Call, registry, Domains
    <3>2. \A c \in Registered : c \in Children /\ owner[c] \notin {"none", "spawned"}
      BY DEF Registered, ChildInv, BornAt, Unknown
    <3> QED
      BY <2>0, <3>1, <3>2 DEF SparedInv
  <2>2. CASE StartShutdown(p)
    <3>1. /\ UNCHANGED <<task, failed, atCall>> /\ gate' = p
          /\ \A c \in Children : entry'[c] = IF entry[c] = "survived" THEN "live" ELSE entry[c]
      BY <2>2 DEF StartShutdown
    <3> QED
      BY <2>0, <3>1 DEF SparedInv
  <2>3. CASE ClaimLive(p)
    <3>1. UNCHANGED <<failed, atCall, gate>>
          /\ \A c \in Children : /\ entry'[c] \in {entry[c], "claimed"}
                                 /\ task'[c] \in {task[c], "term"}
      BY <2>3 DEF ClaimLive
    <3> QED
      BY <2>0, <3>1 DEF SparedInv
  <2>4. CASE \E c \in Children : Join(p, c)
    <3>1. PICK c \in Children : Join(p, c)
      BY <2>4
    <3>2. /\ UNCHANGED <<atCall, gate>> /\ gate = p /\ task[c] \in Outcome
          /\ failed'[p] <=> failed[p] \/ task[c] = "Failed"
          /\ entry'[c] = Completed(c, task[c]) /\ task'[c] = "none"
          /\ \A d \in Children \ {c} : entry'[d] = entry[d] /\ task'[d] = task[d]
      BY <3>1 DEF Join, ClaimInv, Domains
    <3>3. entry'[c] = "absent" \/ (entry'[c] = "survived" /\ task[c] \in {"Survived", "Failed"})
      BY <3>2 DEF Completed, Outcome
    <3>4. \A d \in Children : /\ entry'[d] \in {"absent", "live", "claimed", "survived", "reaped"}
                              /\ task'[d] = "Survived" => ~policy'[d].kill_after_grace
      BY <2>0, <3>2, <3>3 DEF SparedInv
    <3>5. ASSUME NEW r \in Passes, gate' = r, ~failed'[r],
                 NEW d \in Children, entry'[d] = "survived"
          PROVE  ~policy'[d].kill_after_grace
      <4>1. r = p /\ ~failed[p] /\ task[c] # "Failed"
        BY <3>2, <3>5
      <4> QED
        BY <2>0, <3>2, <3>3, <3>5, <4>1 DEF SparedInv
    <3> QED
      BY <2>0, <3>2, <3>4, <3>5 DEF SparedInv
  <2>5. CASE Finish(p)
    <3>1. UNCHANGED <<entry, task, failed, atCall>> /\ gate' = NoHolder
      BY <2>5 DEF Finish, registry
    <3> QED
      BY <2>0, <3>1, SupervisorAssumption DEF SparedInv
  <2>6. CASE DropPass(p)
    <3>1. /\ UNCHANGED <<failed, atCall>> /\ gate' \in {NoHolder, gate}
          /\ \A c \in Children : /\ entry'[c] \in {entry[c], "absent", "live"}
                                 /\ task'[c] \in {task[c], "none"}
      BY <2>6 DEF DropPass, Released
    <3> QED
      BY <2>0, <3>1, SupervisorAssumption DEF SparedInv
  <2> QED
    BY <1>4, <2>1, <2>2, <2>3, <2>4, <2>5, <2>6 DEF PassLike, PassStep
<1>5. CASE SupervisorDrop \/ SupervisorDropped
  BY <1>5, <1>q DEF SupervisorDrop, SupervisorDropped, registry, passes
<1> QED
  BY <1>1, <1>2, <1>3, <1>4, <1>5, Steps

(***************************************************************************)
(* The theorems                                                            *)
(***************************************************************************)

SupervisorInv == Domains /\ ClaimInv /\ ChildInv /\ DropInv /\ SparedInv

LEMMA SupervisorInductive ==
    /\ Init => SupervisorInv
    /\ SupervisorInv /\ [Next]_vars => SupervisorInv'
<1>1. Init => SupervisorInv
  <2> SUFFICES ASSUME Init PROVE SupervisorInv
    OBVIOUS
  <2> USE DEF Init
  <2>1. Domains
    BY DEF Domains
  <2>2. ClaimInv
    BY SupervisorAssumption DEF ClaimInv
  <2>3. ChildInv
    BY SupervisorAssumption DEF ChildInv, BornAt, SafeAt, Unknown
  <2>4. DropInv /\ SparedInv
    BY DEF DropInv, SparedInv
  <2> QED
    BY <2>1, <2>2, <2>3, <2>4 DEF SupervisorInv
<1>2. SupervisorInv /\ [Next]_vars => SupervisorInv'
  BY DomainsKept, ClaimsKept, ChildrenKept, DropKept, SparedKept DEF SupervisorInv
<1> QED
  BY <1>1, <1>2

\* A claim lasts exactly as long as the pass that holds the gate answers for it, however
\* runs, wrappers, overlapping passes and dropped passes interleave (registry.rs
\* claim_live(), complete_claim(), release_claims()).
THEOREM ClaimsAreHeld == Spec => []ClaimsHeld
<1>1. SupervisorInv => ClaimsHeld
  BY DEF SupervisorInv, ClaimInv, ClaimsHeld
<1> QED
  BY <1>1, SupervisorInductive, PTL DEF Spec

\* No child is detached, with one exception: what lives and was not sent SIGKILL is
\* registered or is its run's, or it is what is left of the group of a leader that was
\* reaped before its run's scope was dropped (scope.rs:109).  Nothing stays registered
\* when everything has ended (registry.rs remove() and attach_child(), scope.rs,
\* sync.rs, types.rs drop()).
THEOREM NoChildOrphaned == Spec => []NoOrphan
<1>1. SupervisorInv => NoOrphan
  <2> SUFFICES ASSUME SupervisorInv PROVE NoOrphan
    OBVIOUS
  <2>1. ASSUME NEW c \in Children, Leaked(c) PROVE Adrift(c)
    <3>1. CASE owner[c] = "none"
      BY <2>1, <3>1 DEF SupervisorInv, ChildInv, BornAt, Leaked, Alive
    <3>2. CASE owner[c] # "none"
      BY <2>1, <3>2 DEF SupervisorInv, ChildInv, SafeAt, Safe, Leaked
    <3> QED
      BY <3>1, <3>2
  <2>2. ASSUME AllEnded, NEW c \in Children, entry[c] # "absent" PROVE FALSE
    <3>1. entry[c] = "reaped"
      BY <2>2 DEF SupervisorInv, DropInv, AllEnded
    <3>2. PICK p \in Passes : c \in claims[p]
      BY <3>1 DEF SupervisorInv, ClaimInv
    <3>3. pass[p] = "join"
      BY <3>2 DEF SupervisorInv, ClaimInv
    <3> QED
      BY <2>2, <3>3 DEF AllEnded, ActivePass
  <2> QED
    BY <2>1, <2>2 DEF NoOrphan, Registered
<1> QED
  BY <1>1, SupervisorInductive, PTL DEF Spec

\* A shutdown() that returns Ok has ended, or sent SIGKILL to, every child that was
\* registered when it was called, but for survivors whose policy spares them and for
\* the descendants of a leader that was reaped before its run's scope was dropped,
\* which it leaves alive and unsignalled (shutdown.rs fan_out_shutdown(), scope.rs:109,
\* registry.rs:125).
THEOREM ShutdownIsHonest == Spec => ShutdownHonest
<1> DEFINE Honest ==
        \A p \in Passes : pass[p] # "ok" /\ pass'[p] = "ok" =>
            \A c \in atCall[p] :
                \/ ~Alive(c) \/ Doomed(c)
                \/ entry[c] = "survived" /\ ~policy[c].kill_after_grace
                \/ Adrift(c)
<1>1. SupervisorInv /\ [Next]_vars => [Honest]_vars
  <2> SUFFICES ASSUME SupervisorInv, Next,
                      NEW p \in Passes, pass[p] # "ok", pass'[p] = "ok",
                      NEW c \in atCall[p]
               PROVE  \/ ~Alive(c) \/ Doomed(c)
                      \/ entry[c] = "survived" /\ ~policy[c].kill_after_grace
                      \/ Adrift(c)
    OBVIOUS
  <2>1. Finish(p) /\ ~failed[p]
    <3>1. CASE \E d \in Children : OwnerStep(d) \/ TaskStep(d)
      <4>1. UNCHANGED pass
        BY <3>1, OwnerSteps, TaskSteps DEF SupervisorInv, passes
      <4> QED
        BY <4>1
    <3>2. CASE \E r \in Passes : PassLike(r)
      <4>1. PICK r \in Passes : PassLike(r)
        BY <3>2
      <4> QED
        BY <4>1 DEF PassLike, PassStep, Call, StartShutdown, ClaimLive, Join, Finish, DropPass,
                    Pass, SupervisorInv, Domains
    <3>3. CASE SupervisorDrop \/ SupervisorDropped
      BY <3>3 DEF SupervisorDrop, SupervisorDropped, passes
    <3> QED
      BY <3>1, <3>2, <3>3, Steps
  <2>2. gate = p /\ claims[p] = {} /\ c \in Children /\ owner[c] \notin {"none", "spawned"}
    BY <2>1 DEF Finish, Pass, SupervisorInv, ClaimInv, SparedInv
  <2>3. entry[c] \in {"absent", "survived"}
    <3>1. \A r \in Passes : c \notin claims[r]
      BY <2>2 DEF SupervisorInv, ClaimInv
    <3> QED
      BY <2>1, <2>2, <3>1 DEF Finish, SupervisorInv, ClaimInv, SparedInv
  <2>4. CASE entry[c] = "absent"
    BY <2>2, <2>4 DEF SupervisorInv, ChildInv, SafeAt, Safe
  <2>5. CASE entry[c] = "survived"
    BY <2>1, <2>2, <2>5 DEF SupervisorInv, SparedInv
  <2> QED
    BY <2>3, <2>4, <2>5
<1> QED
  BY <1>1, SupervisorInductive, PTL DEF Spec, ShutdownHonest
=============================================================================
