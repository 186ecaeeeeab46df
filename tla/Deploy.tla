-------------------------------- MODULE Deploy --------------------------------
(***************************************************************************)
(* The deploy script of the CI (util/deploy.py, run by the deploy          *)
(* workflow): it checks the generated files of a pushed commit in on a     *)
(* branch of their own, named after the commit, and pushes that branch.    *)
(*                                                                         *)
(* The script starts each git command with os.popen, never reads its       *)
(* result and never waits for it: it sleeps 2 s, 0.5 s and 0.5 s instead,  *)
(* and leaves right after it started the push.  A command therefore ends   *)
(* at any time after its start, may find the index locked by an older one, *)
(* may fail without anybody noticing, and is killed with the job.          *)
(*                                                                         *)
(* Every job works in a fresh clone.  A deploy branch belongs to one       *)
(* commit, so that its content is told by who made it: Plain is the commit *)
(* itself, job j that commit with the generated files job j put on it.     *)
(***************************************************************************)
CONSTANTS
    Jobs,          \* runs of the workflow, among them re-runs for a commit
    Commits,       \* the pushed commits, one deploy branch each
    Holding,       \* commits that hold the generated files already
    Unquotable,    \* commits whose message ends the quotes around -m "..."
    Plain, Absent  \* the commit without a deploy commit; no such branch

ASSUME DeployAssumption ==
    /\ Holding \subseteq Commits /\ Unquotable \subseteq Commits
    /\ Plain \notin Jobs /\ Absent \notin Jobs /\ Plain # Absent

VARIABLES
    source,   \* the commit a job was started for
    pc,       \* where the script of a job is
    running,  \* the git commands of a job that have not ended
    ignored,  \* target/rtl/.gitignore hides the generated files
    head,     \* the branch that is checked out, "source" or "deploy"
    tip,      \* the two branches of the clone
    staged,   \* the index differs from the commit that is checked out
    sending,  \* what a push sends, and what it saw at the origin
    origin,   \* the deploy branches of the origin
    late,     \* a command was still running when the script went on, or was killed
    raced     \* the origin changed between the push's two looks at it

local == <<source, ignored, head, tip, staged>>
vars == <<source, pc, running, ignored, head, tip, staged, sending, origin, late, raced>>

Branches == {"source", "deploy"}
Contents == Jobs \cup {Plain, Absent}
OnIndex == {"checkout", "add", "commit"}  \* the commands that lock the index
Commands == OnIndex \cup {"push", "send"}

(* The generated files are there, for a branch of commit c.                *)
Generated(c, content) == content \in Jobs \/ (content = Plain /\ c \in Holding)

(* Mutant: the push is forced.                                             *)
FastForwardForced(old, new) == TRUE

(* A push without --force only moves a branch forwards.                    *)
FastForward(old, new) == old \in {Absent, Plain, new}
-----------------------------------------------------------------------------
Init ==
    /\ source \in [Jobs -> Commits]
    /\ pc = [j \in Jobs |-> "checkout"]
    /\ running = [j \in Jobs |-> {}]
    /\ ignored = [j \in Jobs |-> source[j] \notin Holding]
    /\ head = [j \in Jobs |-> "source"]
    /\ tip = [j \in Jobs |-> [b \in Branches |-> IF b = "source" THEN Plain ELSE Absent]]
    /\ staged = [j \in Jobs |-> FALSE]
    /\ sending = [j \in Jobs |-> [new |-> Absent, seen |-> Absent]]
    /\ origin = [c \in Commits |-> Absent]
    /\ late = [j \in Jobs |-> FALSE]
    /\ raced = [j \in Jobs |-> FALSE]

(* os.popen starts a command; the script goes on when its sleep is over.   *)
Start(j, command, next) ==
    /\ pc[j] = command
    /\ pc' = [pc EXCEPT ![j] = next]
    /\ running' = [running EXCEPT ![j] = @ \cup {command}]
    /\ late' = [late EXCEPT ![j] = @ \/ running[j] # {}]
    /\ UNCHANGED <<local, sending, origin, raced>>

(* Mutant: the test of the first line is the wrong way round.              *)
DeactivatedAgain(hides) == hides

(* The ignore file is deactivated, unless its first line says it already is. *)
Deactivated(hides) == FALSE

Patch(j) ==
    /\ pc[j] = "patch"
    /\ pc' = [pc EXCEPT ![j] = "add"]
    /\ ignored' = [ignored EXCEPT ![j] = Deactivated(@)]
    /\ UNCHANGED <<source, running, head, tip, staged, sending, origin, late, raced>>

Script(j) ==
    \/ Start(j, "checkout", "patch")
    \/ Patch(j)
    \/ Start(j, "add", "commit")
    \/ Start(j, "commit", "push")
    \/ Start(j, "push", "done")

(* The job is over: what still runs is killed.                             *)
EndJob(j) ==
    /\ pc[j] = "done"
    /\ pc' = [pc EXCEPT ![j] = "over"]
    /\ running' = [running EXCEPT ![j] = {}]
    /\ late' = [late EXCEPT ![j] = @ \/ running[j] # {}]
    /\ UNCHANGED <<local, sending, origin, raced>>
-----------------------------------------------------------------------------
Ends(j, command) ==
    /\ command \in running[j]
    /\ running' = [running EXCEPT ![j] = @ \ {command}]
    /\ UNCHANGED <<source, pc, ignored, late>>

(* The deploy branch starts at what the source branch holds by now.        *)
Checkout(j) ==
    /\ Ends(j, "checkout")
    /\ tip' = [tip EXCEPT ![j]["deploy"] = tip[j]["source"]]
    /\ head' = [head EXCEPT ![j] = "deploy"]
    /\ UNCHANGED <<staged, sending, origin, raced>>

(* Everything that is not ignored is staged; files that are checked in     *)
(* already make no difference.                                             *)
Add(j) ==
    /\ Ends(j, "add")
    /\ staged' = [staged EXCEPT ![j] = ~ignored[j] /\ source[j] \notin Holding]
    /\ UNCHANGED <<head, tip, sending, origin, raced>>

(* The commit goes on the branch checked out; it is refused when nothing   *)
(* is staged or the shell cannot read the command.                         *)
Commit(j) ==
    /\ Ends(j, "commit")
    /\ IF staged[j] /\ source[j] \notin Unquotable
       THEN /\ tip' = [tip EXCEPT ![j][head[j]] = j]
            /\ staged' = [staged EXCEPT ![j] = FALSE]
       ELSE UNCHANGED <<tip, staged>>
    /\ UNCHANGED <<head, sending, origin, raced>>

(* A command that finds the index locked fails.                            *)
FindLocked(j) ==
    /\ \E command \in OnIndex : \E other \in OnIndex \ {command} :
          other \in running[j] /\ Ends(j, command)
    /\ UNCHANGED <<head, tip, staged, sending, origin, raced>>

(* The push compares its branch with the one of the origin and sends it    *)
(* when there is one to send and it is ahead.                              *)
Push(j) ==
    /\ "push" \in running[j]
    /\ LET new == tip[j]["deploy"]
           seen == origin[source[j]]
           sends == new # Absent /\ FastForward(seen, new)
       IN  /\ running' = [running EXCEPT
                 ![j] = (@ \ {"push"}) \cup (IF sends THEN {"send"} ELSE {})]
           /\ sending' = [sending EXCEPT
                 ![j] = IF sends THEN [new |-> new, seen |-> seen] ELSE @]
    /\ UNCHANGED <<pc, local, origin, late, raced>>

(* The origin takes the branch unless it has changed since it was seen.    *)
Send(j) ==
    /\ Ends(j, "send")
    /\ LET c == source[j]
           changed == origin[c] # sending[j].seen
       IN  /\ origin' = [origin EXCEPT ![c] = IF changed THEN @ ELSE sending[j].new]
           /\ raced' = [raced EXCEPT ![j] = changed]
    /\ UNCHANGED <<head, tip, staged, sending>>

Git(j) == Checkout(j) \/ Add(j) \/ Commit(j) \/ FindLocked(j) \/ Push(j) \/ Send(j)

Next == \E j \in Jobs : Script(j) \/ EndJob(j) \/ Git(j)

Spec == Init /\ [][Next]_vars
-----------------------------------------------------------------------------
TypeOK ==
    /\ source \in [Jobs -> Commits]
    /\ pc \in [Jobs -> OnIndex \cup {"patch", "push", "done", "over"}]
    /\ running \in [Jobs -> SUBSET Commands]
    /\ ignored \in [Jobs -> BOOLEAN]
    /\ head \in [Jobs -> Branches]
    /\ tip \in [Jobs -> [Branches -> Contents]]
    /\ staged \in [Jobs -> BOOLEAN]
    /\ sending \in [Jobs -> [new : Contents, seen : Contents]]
    /\ origin \in [Commits -> Contents]
    /\ late \in [Jobs -> BOOLEAN]
    /\ raced \in [Jobs -> BOOLEAN]

(* The job kept the order of its commands and nothing came in its way.     *)
Undisturbed(j) == ~late[j] /\ ~raced[j] /\ source[j] \notin Unquotable

(* A job of which every command ended before the next one started, and     *)
(* before the job was over, has put a branch with the generated files at   *)
(* the origin, whatever late or repeated jobs for the same commit left     *)
(* there before or push meanwhile (util/deploy.py:43-64).                  *)
DeployedWhenOver ==
    \A j \in Jobs : pc[j] = "over" /\ Undisturbed(j)
                      => Generated(source[j], origin[source[j]])

(* A deploy branch that has its generated files keeps exactly those: no    *)
(* late or repeated job takes them away or replaces them, although a late  *)
(* one pushes the bare commit (util/deploy.py:64).                         *)
DeployedStays == [][\A c \in Commits : origin[c] \in Jobs => origin'[c] = origin[c]]_origin
===============================================================================
