----------------------------- MODULE DeployProofs -----------------------------
(***************************************************************************)
(* Deploy branches, for any number of jobs and commits: a job that was not *)
(* disturbed has deployed its commit when it is over, and nothing deployed *)
(* is ever replaced.                                                       *)
(***************************************************************************)
EXTENDS Deploy, TLAPS

(* The variables are of their types in every reachable state.              *)
LEMMA TypeCorrect == Spec => []TypeOK
<1>1. Init => TypeOK
  BY DEF Init, TypeOK, Contents, Branches, OnIndex, Commands
<1>2. TypeOK /\ [Next]_vars => TypeOK'
  <2> SUFFICES ASSUME TypeOK, [Next]_vars PROVE TypeOK'
    OBVIOUS
  <2> USE DEF TypeOK, Contents, Branches, OnIndex, Commands
  <2>1. CASE UNCHANGED vars
    BY <2>1 DEF vars
  <2>2. ASSUME NEW j \in Jobs, Script(j) PROVE TypeOK'
    <3>1. ASSUME NEW command \in {"checkout", "add", "commit", "push"},
                 NEW next \in {"patch", "commit", "push", "done"}, Start(j, command, next)
          PROVE  TypeOK'
      BY <3>1 DEF Start, local
    <3>2. ASSUME Patch(j) PROVE TypeOK'
      BY <3>2 DEF Patch, Deactivated
    <3> QED
      BY <2>2, <3>1, <3>2 DEF Script
  <2>3. ASSUME NEW j \in Jobs, EndJob(j) PROVE TypeOK'
    BY <2>3 DEF EndJob, local
  <2>4. ASSUME NEW j \in Jobs, Checkout(j) PROVE TypeOK'
    BY <2>4 DEF Checkout, Ends
  <2>5. ASSUME NEW j \in Jobs, Add(j) PROVE TypeOK'
    BY <2>5 DEF Add, Ends
  <2>6. ASSUME NEW j \in Jobs, Commit(j) PROVE TypeOK'
    <3>1. tip[j] \in [Branches -> Contents] /\ head[j] \in Branches /\ j \in Contents
      OBVIOUS
    <3>2. [tip[j] EXCEPT ![head[j]] = j] \in [Branches -> Contents]
      BY <3>1
    <3>3. tip' \in [Jobs -> [Branches -> Contents]]
      BY <2>6, <3>2 DEF Commit
    <3>4. staged' \in [Jobs -> BOOLEAN]
      BY <2>6 DEF Commit
    <3> QED
      BY <2>6, <3>3, <3>4 DEF Commit, Ends
  <2>7. ASSUME NEW j \in Jobs, FindLocked(j) PROVE TypeOK'
    BY <2>7 DEF FindLocked, Ends
  <2>8. ASSUME NEW j \in Jobs, Push(j) PROVE TypeOK'
    BY <2>8 DEF Push, local
  <2>9. ASSUME NEW j \in Jobs, Send(j) PROVE TypeOK'
    BY <2>9 DEF Send, Ends
  <2> QED
    BY <2>1, <2>2, <2>3, <2>4, <2>5, <2>6, <2>7, <2>8, <2>9 DEF Next, Git
<1> QED
  BY <1>1, <1>2, PTL DEF Spec
-----------------------------------------------------------------------------
(* What a push sends was ahead of what it saw, and is a branch.            *)
SendsForward ==
    \A j \in Jobs : "send" \in running[j] =>
        /\ FastForward(sending[j].seen, sending[j].new)
        /\ sending[j].new # Absent

(* The clone has its deploy branch checked out, without a commit of its    *)
(* own so far.                                                             *)
Ready(j) == head[j] = "deploy" /\ tip[j]["deploy"] = Plain

ToCommit(j) == staged[j] <=> source[j] \notin Holding

Pushed(j) == raced[j] \/ Generated(source[j], origin[source[j]])

(* Where a job that was never late may be: at most the last command it     *)
(* started still runs.                                                     *)
InTime(j) ==
    /\ pc[j] = "checkout" => running[j] = {} /\ tip[j]["source"] = Plain
    /\ pc[j] \in {"patch", "add"} =>
          \/ running[j] = {"checkout"} /\ tip[j]["source"] = Plain
          \/ running[j] = {} /\ Ready(j)
    /\ pc[j] \in {"add", "commit"} => ~ignored[j]
    /\ pc[j] = "commit" =>
          Ready(j) /\ (running[j] = {"add"} \/ (running[j] = {} /\ ToCommit(j)))
    /\ pc[j] = "push" =>
          \/ running[j] = {"commit"} /\ Ready(j) /\ ToCommit(j)
          \/ running[j] = {} /\ Generated(source[j], tip[j]["deploy"])
    /\ pc[j] = "done" =>
          /\ Generated(source[j], tip[j]["deploy"])
          /\ \/ running[j] = {"push"}
             \/ running[j] = {"send"} /\ sending[j].new = tip[j]["deploy"]
             \/ running[j] = {} /\ Pushed(j)
    /\ pc[j] = "over" => running[j] = {} /\ Pushed(j)

InTimeInv == \A j \in Jobs : ~late[j] /\ source[j] \notin Unquotable => InTime(j)

IInv == TypeOK /\ SendsForward /\ InTimeInv
-----------------------------------------------------------------------------
LEMMA ForwardInvariant ==
    ASSUME TypeOK, SendsForward, [Next]_vars
    PROVE  SendsForward'
<1> USE DEF TypeOK, SendsForward, Contents
<1>1. CASE UNCHANGED vars
  BY <1>1 DEF vars
<1>2. ASSUME NEW j \in Jobs, Script(j) PROVE SendsForward'
  <2>1. ASSUME NEW command \in {"checkout", "add", "commit", "push"}, NEW next,
               Start(j, command, next)
        PROVE  SendsForward'
    BY <2>1 DEF Start
  <2> QED
    BY <1>2, <2>1 DEF Script, Patch
<1>3. ASSUME NEW j \in Jobs, EndJob(j) PROVE SendsForward'
  BY <1>3 DEF EndJob
<1>4. ASSUME NEW j \in Jobs, Checkout(j) \/ Add(j) \/ Commit(j) \/ FindLocked(j)
      PROVE  SendsForward'
  BY <1>4 DEF Checkout, Add, Commit, FindLocked, Ends
<1>5. ASSUME NEW j \in Jobs, Push(j) PROVE SendsForward'
  BY <1>5 DEF Push
<1>6. ASSUME NEW j \in Jobs, Send(j) PROVE SendsForward'
  BY <1>6 DEF Send, Ends
<1> QED
  BY <1>1, <1>2, <1>3, <1>4, <1>5, <1>6 DEF Next, Git

(* A send that does not lose a race puts a branch forward.                 *)
LEMMA StaysInvariant ==
    ASSUME TypeOK, SendsForward, [Next]_vars
    PROVE  \A c \in Commits :
              /\ origin[c] \in Jobs => origin'[c] = origin[c]
              /\ Generated(c, origin[c]) => Generated(c, origin'[c])
<1>1. CASE UNCHANGED origin
  BY <1>1
<1>2. ASSUME NEW j \in Jobs, Send(j)
      PROVE  \A c \in Commits :
                /\ origin[c] \in Jobs => origin'[c] = origin[c]
                /\ Generated(c, origin[c]) => Generated(c, origin'[c])
  BY <1>2, DeployAssumption
  DEF Send, Ends, TypeOK, SendsForward, Contents, FastForward, Generated
<1> QED
  BY <1>1, <1>2
  DEF Next, vars, local, Script, Start, Patch, EndJob, Git, Checkout, Add, Commit,
      FindLocked, Push

LEMMA InTimeInvariant ==
    ASSUME IInv, [Next]_vars
    PROVE  InTimeInv'
<1> USE DEF IInv, TypeOK
<1> SUFFICES ASSUME NEW k \in Jobs, ~late'[k], source'[k] \notin Unquotable
             PROVE  InTime(k)'
  BY DEF InTimeInv
<1>0. source' = source /\ ~late[k]
  BY ZenonT(60) DEF Next, vars, local, Script, Start, Patch, EndJob, Git, Checkout, Add, Commit,
         FindLocked, Push, Send, Ends
<1>a. InTime(k)
  BY <1>0 DEF InTimeInv
<1>b. \A c \in Commits : Generated(c, origin[c]) => Generated(c, origin'[c])
  BY StaysInvariant
<1>c. source[k] \in Commits
  OBVIOUS
(* Steps of other jobs can only change what is at the origin.              *)
<1>d. ASSUME UNCHANGED <<source, pc[k], running[k], ignored[k], head[k], tip[k],
                         staged[k], sending[k], raced[k]>>
      PROVE  InTime(k)'
  BY <1>a, <1>b, <1>c, <1>d DEF InTime, Ready, ToCommit, Pushed, Generated
<1>1. CASE UNCHANGED vars
  BY <1>1, <1>d DEF vars
<1>2. ASSUME NEW j \in Jobs, j # k, Script(j) \/ EndJob(j) \/ Git(j)
      PROVE  InTime(k)'
  BY <1>2, <1>d
  DEF local, Script, Start, Patch, EndJob, Git, Checkout, Add, Commit, FindLocked,
      Push, Send, Ends
<1>3. ASSUME Script(k) PROVE InTime(k)'
  <2>1. CASE Start(k, "checkout", "patch")
    BY <2>1, <1>0, <1>a DEF Start, local, InTime, Ready
  <2>2. CASE Patch(k)
    BY <2>2, <1>0, <1>a DEF Patch, Deactivated, InTime, Ready
  <2>3. CASE Start(k, "add", "commit")
    BY <2>3, <1>0, <1>a DEF Start, local, InTime, Ready
  <2>4. CASE Start(k, "commit", "push")
    BY <2>4, <1>0, <1>a DEF Start, local, InTime, Ready, ToCommit
  <2>5. CASE Start(k, "push", "done")
    BY <2>5, <1>0, <1>a DEF Start, local, InTime, Generated
  <2> QED
    BY <1>3, <2>1, <2>2, <2>3, <2>4, <2>5 DEF Script
<1>4. ASSUME EndJob(k) PROVE InTime(k)'
  BY <1>4, <1>0, <1>a DEF EndJob, local, InTime, Pushed, Generated
<1>5. ASSUME Checkout(k) PROVE InTime(k)'
  BY <1>5, <1>0, <1>a DEF Checkout, Ends, InTime, Ready, Branches
<1>6. ASSUME Add(k) PROVE InTime(k)'
  <2>1. /\ "add" \in running[k] /\ pc' = pc /\ running'[k] = running[k] \ {"add"}
        /\ UNCHANGED <<ignored, head, tip>>
        /\ staged'[k] = (~ignored[k] /\ source[k] \notin Holding)
    BY <1>6 DEF Add, Ends
  <2>2. pc[k] = "commit" /\ running[k] = {"add"} /\ Ready(k) /\ ~ignored[k]
    BY <2>1, <1>a DEF InTime, OnIndex
  <2>3. running'[k] = {}
    BY <2>1, <2>2
  <2>4. ToCommit(k)'
    BY <1>0, <2>1, <2>2, Zenon DEF ToCommit
  <2> QED
    BY <2>1, <2>2, <2>3, <2>4 DEF InTime, Ready
<1>7. ASSUME Commit(k) PROVE InTime(k)'
  <2>1. "commit" \in running[k] /\ pc'[k] = pc[k] /\ running'[k] = running[k] \ {"commit"}
    BY <1>7 DEF Commit, Ends
  <2>2. pc[k] = "push" /\ running[k] = {"commit"} /\ Ready(k) /\ ToCommit(k)
    BY <2>1, <1>a DEF InTime, OnIndex
  <2>3. running'[k] = {}
    BY <2>1, <2>2
  <2>4. CASE staged[k]
    <3>1. tip' = [tip EXCEPT ![k]["deploy"] = k]
      BY <2>2, <2>4, <1>0, <1>7 DEF Commit, Ready
    <3>2. tip'[k]["deploy"] = k
      BY <3>1 DEF Branches
    <3> QED
      BY <2>1, <2>2, <2>3, <3>2 DEF InTime, Generated
  <2>5. CASE ~staged[k]
    <3>1. tip' = tip
      BY <2>5, <1>7 DEF Commit
    <3> QED
      BY <1>0, <2>1, <2>2, <2>3, <2>5, <3>1 DEF InTime, Ready, ToCommit, Generated
  <2> QED
    BY <2>4, <2>5
<1>8. ASSUME FindLocked(k) PROVE InTime(k)'
  BY <1>8, <1>0, <1>a DEF FindLocked, OnIndex, Ends, InTime
<1>9. ASSUME Push(k) PROVE InTime(k)'
  BY <1>9, <1>0, <1>a, DeployAssumption
  DEF Push, local, InTime, Pushed, FastForward, Generated, Contents, Commands, OnIndex
<1>10. ASSUME Send(k) PROVE InTime(k)'
  <2>1. /\ "send" \in running[k] /\ pc'[k] = pc[k] /\ running'[k] = running[k] \ {"send"}
        /\ tip' = tip
    BY <1>10 DEF Send, Ends
  <2>2. /\ pc[k] = "done" /\ running[k] = {"send"} /\ sending[k].new = tip[k]["deploy"]
        /\ Generated(source[k], tip[k]["deploy"])
    BY <2>1, <1>a DEF InTime, OnIndex
  <2>3. running'[k] = {}
    BY <2>1, <2>2
  <2>4. raced'[k] \/ origin'[source[k]] = tip[k]["deploy"]
    BY <1>10, <1>c, <2>2 DEF Send
  <2> QED
    BY <1>0, <2>1, <2>2, <2>3, <2>4 DEF InTime, Pushed, Generated
<1> QED
  BY <1>1, <1>2, <1>3, <1>4, <1>5, <1>6, <1>7, <1>8, <1>9, <1>10 DEF Next, Git
-----------------------------------------------------------------------------
LEMMA Inductive == Spec => []IInv
<1>1. Init => SendsForward /\ InTimeInv
  BY DEF Init, SendsForward, InTimeInv, InTime, Branches
<1>2. SendsForward /\ InTimeInv /\ TypeOK /\ [Next]_vars => (SendsForward /\ InTimeInv)'
  BY ForwardInvariant, InTimeInvariant DEF IInv
<1> QED
  BY <1>1, <1>2, TypeCorrect, PTL DEF Spec, IInv

(* A job that was in time, whose message can be quoted and which lost no   *)
(* race has deployed its commit when it is over (util/deploy.py:43-64).    *)
THEOREM InTimeDeploys == Spec => []DeployedWhenOver
<1>1. IInv => DeployedWhenOver
  BY DEF IInv, InTimeInv, InTime, Pushed, DeployedWhenOver, Undisturbed
<1> QED
  BY <1>1, Inductive, PTL

(* What is deployed is never taken back or replaced (util/deploy.py:64).   *)
THEOREM NothingUndeployed == Spec => DeployedStays
<1>1. IInv /\ [Next]_vars
        => [\A c \in Commits : origin[c] \in Jobs => origin'[c] = origin[c]]_origin
  BY StaysInvariant DEF IInv
<1> QED
  BY <1>1, Inductive, PTL DEF Spec, DeployedStays
===============================================================================
