---------------------------- MODULE MessageTrees ----------------------------
(* The conversation trees of a chat (messaging/trees), with the workflow    *)
(* and the intake that feed them (messaging/workflow.py, turn_intake.py)    *)
(* and the node runner that executes a claim (messaging/node_runner.py).    *)
(*                                                                         *)
(* A message of the user is a node: it replies to a prompt or to a status  *)
(* message of the chat, or starts a tree, and a tree executes one node at a *)
(* time.  Every transition of the manager runs under its lock and is one   *)
(* step; a command holds the workflow's state lock while it drains the     *)
(* tasks it has cancelled, for at most CANCEL_TASK_DRAIN_TIMEOUT_S.        *)
(* Message ids are not reused, so that a tree is known by its first node   *)
(* and a claim by its node.                                                *)
EXTENDS Naturals, FiniteSets, SequencesExt

CONSTANTS
  MaxMessages,   (* bound: messages the user ever sends                    *)
  MaxCommands,   (* bound: /stop and /clear commands ever given            *)
  MaxWork        (* bound: the two together, a message counted twice       *)

ASSUME TreesAssumption == {MaxMessages, MaxCommands, MaxWork} \subseteq Nat

(* Message ids grow in the order the chat delivers them.                   *)
Messages == 1..MaxMessages
NoMessage == 0

VARIABLES
  intake,     (* how far each message has come in the intake               *)
  fresh,      (* messages whose AdmissionToken is still current            *)
  reply,      (* the reference a message replies to                        *)
  root,       (* the tree of an admitted message, by its first node        *)
  state,      (* MessageState of each node, "none" outside the graph       *)
  status,     (* nodes that have a status message                          *)
  session,    (* nodes that have a session to resume                       *)
  trees,      (* keys of the repository's _trees, in order                 *)
  indexed,    (* keys of the repository's _reference_to_tree               *)
  queue,      (* _queue of each tree                                       *)
  active,     (* _active claim of each tree                                *)
  asked,      (* claims with cancellation_requested                        *)
  task,       (* the task of each claim                                    *)
  draining,   (* a command holds the workflow's state lock                 *)
  commands,   (* number of commands given                                  *)
  stopped     (* history: messages received before a successful /stop or   *)
              (* /clear of the whole chat                                  *)

intakeVars == <<intake, fresh, reply, root>>
nodeVars == <<state, status, session>>
treeVars == <<queue, active, asked, task>>
indexVars == <<trees, indexed>>
commandVars == <<draining, commands, stopped>>
vars == <<intakeVars, nodeVars, treeVars, indexVars, commandVars>>

References == Messages \X {"prompt", "status"}
NoReference == <<NoMessage, "prompt">>
Prompt(m) == <<m, "prompt">>
Status(m) == <<m, "status">>

States == {"none", "pending", "in_progress", "completed", "error"}
Runnable == {"pending", "in_progress"}
Tasks == {"none", "launched", "running", "unwinding", "finishing", "over"}
Working == {"running", "unwinding"}
Intakes == {"unsent", "received", "admitted", "discarded"}

Init ==
  /\ intake = [m \in Messages |-> "unsent"]
  /\ fresh = {}
  /\ reply = [m \in Messages |-> NoReference]
  /\ root = [m \in Messages |-> NoMessage]
  /\ state = [m \in Messages |-> "none"]
  /\ status = {}
  /\ session = {}
  /\ trees = <<>>
  /\ indexed = {}
  /\ queue = [m \in Messages |-> <<>>]
  /\ active = [m \in Messages |-> NoMessage]
  /\ asked = {}
  /\ task = [m \in Messages |-> "none"]
  /\ draining = FALSE
  /\ commands = 0
  /\ stopped = {}

-----------------------------------------------------------------------------
(* The graph of the nodes.                                                 *)

Nodes == {m \in Messages : state[m] # "none"}
NodesOf(r) == {m \in Nodes : root[m] = r}

ReferencesOf(ms) == {Prompt(m) : m \in ms} \union {Status(m) : m \in ms \intersect status}

(* Mutant of Replies: status messages are not followed.                    *)
MutantReplies(refs) == {Prompt(m) : m \in {m \in Nodes : reply[m] \in refs}}

(* What hangs from a set of references: the status message of a prompt and *)
(* the replies to any of them.                                             *)
Replies(refs) ==
  LET below == {m \in Nodes : reply[m] \in refs}
      own == {m \in Nodes \intersect status : Prompt(m) \in refs}
  IN  {Prompt(m) : m \in below} \union {Status(m) : m \in own}

(* get_reference_descendants                                               *)
Subtree(ref) ==
  LET grown[n \in 0..2 * Cardinality(Messages)] ==
        IF n = 0 THEN {ref}
        ELSE LET refs == grown[n - 1] IN refs \union Replies(refs)
  IN  grown[2 * Cardinality(Messages)]

(* get_descendants, without the node itself.                               *)
Descendants(m) ==
  LET grown[n \in 0..Cardinality(Messages)] ==
        IF n = 0 THEN {m}
        ELSE LET ms == grown[n - 1] IN ms \union {c \in Nodes : reply[c][1] \in ms}
  IN  grown[Cardinality(Messages)] \ {m}

Without(q, ms) ==
  LET kept[n \in 0..Len(q)] ==
        IF n = 0 THEN <<>>
        ELSE IF q[n] \in ms THEN kept[n - 1] ELSE Append(kept[n - 1], q[n])
  IN  kept[Len(q)]

-----------------------------------------------------------------------------
(* Intake and admission.                                                   *)

(* The token is captured under the state lock; the reply is resolved right *)
(* after it.  A reply to a message no tree knows starts a conversation.    *)
Receive(m) ==
  /\ ~draining
  /\ intake[m] = "unsent"
  /\ \A n \in 1..m - 1 : intake[n] # "unsent"
  /\ 2 * m + commands <= MaxWork
  /\ intake' = [intake EXCEPT ![m] = "received"]
  /\ fresh' = fresh \union {m}
  /\ \E ref \in indexed \union {NoReference} : reply' = [reply EXCEPT ![m] = ref]
  /\ UNCHANGED <<root, nodeVars, treeVars, indexVars, commandVars>>

(* Mutant of Admissible: the token is not compared.                        *)
MutantAdmissible(m) == reply[m] \in indexed \union {NoReference}

(* The token is current and the parent has not been removed meanwhile.     *)
Admissible(m) ==
  /\ m \in fresh
  /\ reply[m] \in indexed \union {NoReference}

Discard(m) ==
  /\ ~draining
  /\ intake[m] = "received"
  /\ ~Admissible(m)
  /\ intake' = [intake EXCEPT ![m] = "discarded"]
  /\ fresh' = fresh \ {m}
  /\ UNCHANGED <<reply, root, nodeVars, treeVars, indexVars, commandVars>>

(* _enqueue_or_claim, and the launch of the claim it has made.             *)
Enter(m, r) ==
  IF active[r] = NoMessage
  THEN /\ state' = [state EXCEPT ![m] = "in_progress"]
       /\ active' = [active EXCEPT ![r] = m]
       /\ task' = [task EXCEPT ![m] = "launched"]
       /\ UNCHANGED queue
  ELSE /\ state' = [state EXCEPT ![m] = "pending"]
       /\ queue' = [queue EXCEPT ![r] = Append(@, m)]
       /\ UNCHANGED <<active, task>>

Admit(m) ==
  LET r == IF reply[m] = NoReference THEN m ELSE root[reply[m][1]]
  IN  /\ ~draining
      /\ intake[m] = "received"
      /\ Admissible(m)
      /\ Enter(m, r)
      /\ root' = [root EXCEPT ![m] = r]
      /\ trees' = IF r = m THEN Append(trees, m) ELSE trees
      /\ indexed' = indexed \union {Prompt(m), Status(m)}
      /\ status' = status \union {m}
      /\ intake' = [intake EXCEPT ![m] = "admitted"]
      /\ fresh' = fresh \ {m}
      /\ UNCHANGED <<reply, session, asked, commandVars>>

-----------------------------------------------------------------------------
(* Execution of a claim.                                                   *)

StartRunner(m) ==
  /\ task[m] = "launched"
  /\ task' = [task EXCEPT ![m] = "running"]
  /\ UNCHANGED <<intakeVars, nodeVars, queue, active, asked, indexVars, commandVars>>

(* Mutant of MayReport: a cancelled claim may still report.                *)
MutantMayReport(m) ==
  task[m] \in Working /\ root[m] \in ToSet(trees) /\ active[root[m]] = m
  /\ state[m] # "none"

(* The aggregate listens to the claim: it is the active one, nobody has    *)
(* asked for its cancellation, and its node and its tree are still there.  *)
(* A node processor may absorb its cancellation and go on reporting.       *)
MayReport(m) ==
  /\ task[m] \in Working
  /\ root[m] \in ToSet(trees)
  /\ active[root[m]] = m
  /\ m \notin asked
  /\ state[m] # "none"

RecordSession(m) ==
  /\ MayReport(m)
  /\ state[m] = "in_progress"
  /\ session' = session \union {m}
  /\ UNCHANGED <<intakeVars, state, status, treeVars, indexVars, commandVars>>

Complete(m) ==
  /\ MayReport(m)
  /\ state[m] \in {"in_progress", "error"}
  /\ state' = [state EXCEPT ![m] = "completed"]
  /\ session' \in {session, session \union {m}}
  /\ UNCHANGED <<intakeVars, status, treeVars, indexVars, commandVars>>

(* Mutant of DroppedFromQueue: failed descendants stay queued.             *)
MutantDroppedFromQueue(r, ms) == queue

DroppedFromQueue(r, ms) == [queue EXCEPT ![r] = Without(@, ms)]

Fail(m) ==
  /\ MayReport(m)
  /\ state[m] # "completed"
  /\ \E failed \in {{}, {c \in Descendants(m) : state[c] = "pending"}} :
       /\ state' = [c \in Messages |->
                      IF c \in failed \union {m} THEN "error" ELSE state[c]]
       /\ queue' = DroppedFromQueue(root[m], failed)
  /\ UNCHANGED <<intakeVars, status, session, active, asked, task, indexVars,
                 commandVars>>

(* The runner has completed or failed its node before it leaves, unless it *)
(* was cancelled.                                                          *)
EndRunner(m) ==
  /\ \/ task[m] = "running" /\ state[m] # "in_progress"
     \/ task[m] = "unwinding"
  /\ task' = [task EXCEPT ![m] = "finishing"]
  /\ UNCHANGED <<intakeVars, nodeVars, queue, active, asked, indexVars, commandVars>>

(* finish_and_claim_next, and the launch of the successor in a tree that   *)
(* is still published.                                                     *)
Finish(m) ==
  LET r == root[m]
      first == SelectInSeq(queue[r], LAMBDA n : state[n] = "pending")
      next == queue[r][first]
  IN  /\ task[m] = "finishing"
      /\ IF first = 0
         THEN /\ active' = [active EXCEPT ![r] = NoMessage]
              /\ queue' = [queue EXCEPT ![r] = <<>>]
              /\ task' = [task EXCEPT ![m] = "over"]
              /\ UNCHANGED state
         ELSE /\ active' = [active EXCEPT ![r] = next]
              /\ queue' = [queue EXCEPT ![r] = SubSeq(@, first + 1, Len(@))]
              /\ state' = [state EXCEPT ![next] = "in_progress"]
              /\ task' = [task EXCEPT ![m] = "over",
                            ![next] = IF r \in ToSet(trees) THEN "launched" ELSE @]
      /\ asked' = asked \ {m}
      /\ UNCHANGED <<intakeVars, status, session, indexVars, commandVars>>

-----------------------------------------------------------------------------
(* Commands.                                                               *)

(* Mutant of CancelTasks: no recovery of a task that never ran.            *)
MutantCancelTasks(ms) ==
  task' = [m \in Messages |->
             IF m \notin ms THEN task[m]
             ELSE CASE task[m] = "launched" -> "over"
                    [] task[m] = "running" -> "unwinding"
                    [] OTHER -> task[m]]

(* TreeQueueProcessor.cancel: a task that has not reached its runner is    *)
(* finished by its recovery task.                                          *)
CancelTasks(ms) ==
  task' = [m \in Messages |->
             IF m \notin ms THEN task[m]
             ELSE CASE task[m] = "launched" -> "finishing"
                    [] task[m] = "running" -> "unwinding"
                    [] OTHER -> task[m]]

(* The tree's active node has failed and lost its status message: whoever  *)
(* cancels that claim raises instead (_ui_target).                         *)
Raises(m) == state[m] = "error" /\ m \notin status

Issue ==
  /\ ~draining
  /\ commands < MaxCommands
  /\ 2 * Cardinality({m \in Messages : intake[m] # "unsent"}) + commands < MaxWork
  /\ commands' = commands + 1

(* The active claim of a tree, if it is for one of these nodes.            *)
Claimed(r, ms) == {active[r]} \intersect ms

ActiveIn(rs) == {active[r] : r \in rs} \ {NoMessage}

(* Trees a command on the whole chat gets through: all of them, or those   *)
(* before the first whose active claim makes it raise.                     *)
Reached ==
  LET bad == SelectInSeq(trees, LAMBDA r : active[r] # NoMessage /\ Raises(active[r]))
  IN  IF bad = 0 THEN ToSet(trees) ELSE ToSet(SubSeq(trees, 1, bad - 1))

(* MessageTree.cancel_all of the trees in rs.                              *)
CancelTrees(rs) ==
  /\ state' = [m \in Messages |->
                 IF root[m] \in rs /\ state[m] \in Runnable THEN "error" ELSE state[m]]
  /\ queue' = [r \in Messages |-> IF r \in rs THEN <<>> ELSE queue[r]]
  /\ asked' = asked \union ActiveIn(rs)
  /\ CancelTasks(ActiveIn(rs))
  /\ UNCHANGED active

(* Tokens become stale whether or not the command raises.                  *)
WholeChat(rs) ==
  LET succeeds == rs = ToSet(trees)
  IN  /\ Issue
      /\ CancelTrees(rs)
      /\ fresh' = {}
      /\ draining' = succeeds
      /\ stopped' = IF succeeds THEN {m \in Messages : intake[m] # "unsent"} ELSE stopped

StopAll ==
  /\ WholeChat(Reached)
  /\ UNCHANGED <<intake, reply, root, status, session, indexVars>>

(* clear_scope also takes every tree it gets through out of the repository. *)
ClearChat ==
  /\ WholeChat(Reached)
  /\ trees' = Without(trees, Reached)
  /\ indexed' = {ref \in indexed : root[ref[1]] \notin Reached}
  /\ UNCHANGED <<intake, reply, root, status, session>>

StopReply(ref) ==
  LET m == ref[1]
      r == root[m]
      claimed == Claimed(r, {m})
  IN  /\ ref \in indexed
      /\ Issue
      /\ asked' = asked \union claimed
      /\ IF claimed # {} /\ Raises(m)
         THEN UNCHANGED <<state, queue, task, draining>>
         ELSE /\ state' = [state EXCEPT ![m] = IF @ \in Runnable THEN "error" ELSE @]
              /\ queue' = DroppedFromQueue(r, {m})
              /\ CancelTasks(claimed)
              /\ draining' = TRUE
      /\ UNCHANGED <<intakeVars, status, session, active, indexVars, stopped>>

(* Mutant of Unindexed: the references of replies are left in the index.   *)
MutantUnindexed(r, refs) == refs \intersect {Prompt(r), Status(r)}

(* The references a removal takes out of the index: the whole tree's, if   *)
(* its first node is removed.                                              *)
Unindexed(r, refs) ==
  IF Prompt(r) \in refs THEN {ref \in indexed : root[ref[1]] = r} ELSE refs

(* remove_message_subtree of a prompt, or of a status message, whose owner *)
(* then keeps its prompt only.  If it raises it has marked some nodes and  *)
(* removed none.                                                           *)
ClearReply(ref) ==
  LET r == root[ref[1]]
      refs == Subtree(ref)
      removed == {m \in Nodes : Prompt(m) \in refs}
      affected == removed \union {ref[1]}
      claimed == Claimed(r, affected)
      Marked(ms) == [m \in Messages |->
                       IF m \in ms /\ state[m] \in Runnable THEN "error" ELSE state[m]]
  IN  /\ ref \in indexed
      /\ Issue
      /\ asked' = asked \union claimed
      /\ IF \E m \in claimed : Raises(m)
         THEN /\ \E ms \in SUBSET (affected \ claimed) :
                   state' = Marked(ms) /\ queue' = DroppedFromQueue(r, ms)
              /\ UNCHANGED <<status, session, task, indexVars, draining>>
         ELSE /\ state' = [m \in Messages |->
                  IF m \in removed THEN "none"
                  ELSE IF m = ref[1] THEN "error" ELSE state[m]]
              /\ status' = status \ affected
              /\ session' = session \ affected
              /\ queue' = DroppedFromQueue(r, affected)
              /\ indexed' = indexed \ Unindexed(r, refs)
              /\ trees' = Without(trees, removed)
              /\ CancelTasks(claimed)
              /\ draining' = TRUE
      /\ UNCHANGED <<intakeVars, active, stopped>>

(* The cancelled tasks are over, or the drain has timed out: a claim that  *)
(* only has to be given back is given back before that.                    *)
EndCommand ==
  /\ draining
  /\ \A m \in asked : task[m] # "finishing"
  /\ draining' = FALSE
  /\ UNCHANGED <<intakeVars, nodeVars, treeVars, indexVars, commands, stopped>>

-----------------------------------------------------------------------------
IntakeStep(m) == Receive(m) \/ Discard(m) \/ Admit(m)

Report(m) == Complete(m) \/ Fail(m)

TaskStep(m) == StartRunner(m) \/ EndRunner(m) \/ Finish(m)

Command ==
  \/ StopAll
  \/ ClearChat
  \/ \E ref \in References : StopReply(ref) \/ ClearReply(ref)

(* Every message that was sent has been dealt with.                        *)
Quiescent ==
  /\ ~draining
  /\ \A m \in Messages :
       intake[m] \in {"unsent", "admitted", "discarded"} /\ task[m] \in {"none", "over"}
  /\ UNCHANGED vars

Next ==
  \/ \E m \in Messages :
       IntakeStep(m) \/ RecordSession(m) \/ Report(m) \/ TaskStep(m)
  \/ Command
  \/ EndCommand
  \/ Quiescent

Spec == Init /\ [][Next]_vars

(* While a task of the event loop can run, a runner has its CLI process to   *)
(* wait for, or a drain has its timeout, one of them goes on.              *)
Work ==
  \/ \E m \in Messages : TaskStep(m) \/ (state[m] = "in_progress" /\ Report(m))
  \/ EndCommand

FairSpec == Spec /\ WF_vars(Work)

-----------------------------------------------------------------------------
TypeOK ==
  /\ intake \in [Messages -> Intakes]
  /\ fresh \in SUBSET Messages
  /\ reply \in [Messages -> References \union {NoReference}]
  /\ root \in [Messages -> Messages \union {NoMessage}]
  /\ state \in [Messages -> States]
  /\ status \in SUBSET Messages
  /\ session \in SUBSET Messages
  /\ trees \in Seq(Messages)
  /\ indexed \in SUBSET References
  /\ queue \in [Messages -> Seq(Messages)]
  /\ active \in [Messages -> Messages \union {NoMessage}]
  /\ asked \in SUBSET ActiveIn(Messages)
  /\ task \in [Messages -> Tasks]
  /\ draining \in BOOLEAN
  /\ commands \in 0..MaxCommands
  /\ stopped \in SUBSET Messages

(* A tree executes one node at a time, and a claim is held exactly as long *)
(* as its task lives: none is left without a task that would give it back. *)
(* The pending nodes of the tree wait in its queue, each once, and no node *)
(* waits in a tree where nothing executes.                                 *)
TreesAreServed ==
  /\ \A m \in Messages :
       task[m] \notin {"none", "over"} <=> root[m] # NoMessage /\ active[root[m]] = m
  /\ \A r \in Messages :
       /\ IsInjective(queue[r])
       /\ ToSet(queue[r]) = {m \in NodesOf(r) : state[m] = "pending"}
       /\ queue[r] # <<>> => active[r] # NoMessage

(* The index knows exactly the prompts and the live status messages of the *)
(* trees it has, so that a reply finds its tree and nothing else.          *)
IndexMatchesGraphs ==
  indexed = UNION {ReferencesOf(NodesOf(r)) : r \in ToSet(trees)}

(* What from_snapshot asks of a tree before it restores it: the first node *)
(* is there, every other node replies to a reference of a node that is     *)
(* still there, and a node that may run has a status message.              *)
Restorable ==
  \A r \in ToSet(trees) :
    /\ r \in Nodes /\ reply[r] = NoReference
    /\ \A m \in NodesOf(r) :
         /\ m # r => reply[m] \in ReferencesOf(NodesOf(r))
         /\ state[m] \in Runnable => m \in status

(* Once a claim is cancelled or over, its node neither completes nor gets  *)
(* a session that a later reply could resume.                              *)
CancelledIsFinal ==
  [][\A m \in Messages :
       m \in asked \/ task[m] = "over" =>
         /\ state'[m] \in {state[m], "error", "none"}
         /\ m \in session' => m \in session]_vars

(* A message received before a successful /stop, or /clear of the chat, is *)
(* never executed after it, wherever it was on its way.                    *)
StoppedStaysStopped ==
  \A m \in stopped : state[m] \notin Runnable /\ task[m] \notin {"launched", "running"}

(* Every node that waits is executed, or is cancelled.                     *)
EveryNodeSettles ==
  \A m \in Messages : state[m] \in Runnable ~> state[m] \notin Runnable

(* /stop leaves no message of any tree pending or in progress.             *)
StopReachesEveryone ==
  [][StopAll => \A m \in Messages : state'[m] \notin Runnable]_vars
=============================================================================
