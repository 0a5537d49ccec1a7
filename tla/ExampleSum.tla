----------------------------- MODULE ExampleSum -----------------------------
(***************************************************************************)
(* examples/example_sum.cpp: a task sends the numbers of an array to       *)
(* subtasks that share one channel, joins them one after the other, and    *)
(* sends what each has summed up to those that are left.                   *)
(*                                                                         *)
(* The channels in and out are unbuffered: a value goes from hand to hand  *)
(* in one step, when the task and some subtask have both come to it (see   *)
(* AtomicSelect).  Which subtask is met is left open here.                 *)
(***************************************************************************)
EXTENDS Naturals, Sequences, FiniteSets, Functions

CONSTANTS
  Subtasks,    \* the subtasks
  array,       \* the numbers
  Nullopt      \* the empty std::optional: the end of the numbers

ASSUME SumAssumption ==
  /\ IsFiniteSet(Subtasks) /\ Subtasks # {}    \* num_tasks >= 1
  /\ array \in Seq(Nat) /\ Nullopt \notin Nat

VARIABLES
  pc,          \* where sum_task stands
  next,        \* the number it sends next
  joined,      \* how many subtasks it has joined
  subresult,   \* what it was given last
  sub,         \* sub[t]: where subtask t stands
  sum          \* sum[t]: what it has summed up

vars == <<pc, next, joined, subresult, sub, sum>>

NumTasks == Cardinality(Subtasks)

AfterArray(i) == IF i <= Len(array) THEN "array" ELSE "nullopt"

Init ==
  /\ next = 1 /\ pc = AfterArray(1)
  /\ joined = 0 /\ subresult = 0
  /\ sub = [t \in Subtasks |-> "spawned"]
  /\ sum = [t \in Subtasks |-> 0]

\* A subtask is run for the first time, and reads.
Start(t) ==
  /\ sub[t] = "spawned"
  /\ sub' = [sub EXCEPT ![t] = "read"]
  /\ UNCHANGED <<pc, next, joined, subresult, sum>>

\* Subtask t is handed v through in.
Receive(t, v) ==
  /\ sub[t] = "read"
  /\ IF v = Nullopt
     THEN sub' = [sub EXCEPT ![t] = "write"] /\ UNCHANGED sum
     ELSE sum' = [sum EXCEPT ![t] = @ + v] /\ UNCHANGED sub

\* A number of the array.
SendNumber ==
  /\ pc = "array"
  /\ \E t \in Subtasks : Receive(t, array[next])
  /\ next' = next + 1 /\ pc' = AfterArray(next + 1)
  /\ UNCHANGED <<joined, subresult>>

\* Join a task: whoever gets the nullopt.
SendNullopt ==
  /\ pc = "nullopt"
  /\ \E t \in Subtasks : Receive(t, Nullopt)
  /\ pc' = "retrieve"
  /\ UNCHANGED <<next, joined, subresult>>

\* A faulty test for the last subtask that comes one too early.
LastButOne == joined + 1 >= NumTasks - 1

\* A faulty one that comes one too late.
LastAndOneMore == joined = NumTasks

\* The subtask that is being joined is the last one.
Last == joined + 1 = NumTasks

\* A faulty subtask that offers its result again and again.
RetrieveAgain ==
  /\ pc = "retrieve"
  /\ \E t \in Subtasks : sub[t] = "write" /\ subresult' = sum[t]
  /\ joined' = joined + 1
  /\ pc' = IF Last THEN "done" ELSE "send on"
  /\ UNCHANGED <<next, sub, sum>>

\* Retrieve its result through out.
Retrieve ==
  /\ pc = "retrieve"
  /\ \E t \in Subtasks :
       /\ sub[t] = "write"
       /\ sub' = [sub EXCEPT ![t] = "returned"]
       /\ subresult' = sum[t]
  /\ joined' = joined + 1
  /\ pc' = IF Last THEN "done" ELSE "send on"
  /\ UNCHANGED <<next, sum>>

\* A faulty loop that joins the next task without sending on what it got.
Forgotten ==
  /\ pc = "send on" /\ pc' = "nullopt"
  /\ UNCHANGED <<next, joined, subresult, sub, sum>>

\* Send it to another task.
SendOn ==
  /\ pc = "send on"
  /\ \E t \in Subtasks : Receive(t, subresult)
  /\ pc' = "nullopt"
  /\ UNCHANGED <<next, joined, subresult>>

SumTask == SendNumber \/ SendNullopt \/ Retrieve \/ SendOn

Terminated == pc = "done" /\ UNCHANGED vars

Next == SumTask \/ (\E t \in Subtasks : Start(t)) \/ Terminated

\* The thread pool runs every coroutine that can run.
Spec == Init /\ [][Next]_vars /\ WF_vars(SumTask) /\ \A t \in Subtasks : WF_vars(Start(t))

-----------------------------------------------------------------------------
Total(ts) == SumFunctionOnSet(sum, ts)

ToSend == SumFunctionOnSet(array, next..Len(array))

Active == {t \in Subtasks : sub[t] # "returned"}

\* Every variable holds values of its type, and as many subtasks have returned
\* as were joined.  (sum_task, sum_subtask)
TypeOK ==
  /\ pc \in {"array", "nullopt", "retrieve", "send on", "done"}
  /\ next \in 1..(Len(array) + 1)
  /\ joined = NumTasks - Cardinality(Active)
  /\ subresult \in Nat
  /\ sub \in [Subtasks -> {"spawned", "read", "write", "returned"}]
  /\ sum \in [Subtasks -> Nat]

\* No number is lost or added twice: what is not sent, what the subtasks hold
\* that have not returned, and what sum_task holds is the whole at any time.
\* (sum_task, sum_subtask)
SumKept ==
  ToSend + Total(Active) + (IF pc \in {"send on", "done"} THEN subresult ELSE 0)
    = SumFunction(array)

\* sum_task returns when no subtask is left that waits for in or for out, and
\* not before: the channels go with the last handle.
NobodyLeft == pc = "done" <=> Active = {}

\* The tasks do not wait for each other for ever: sum_task returns.
Returns == <>(pc = "done")

=============================================================================
