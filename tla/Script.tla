------------------------------- MODULE Script -------------------------------
(***************************************************************************)
(* Python's control flow, as the experiment scripts use it: a program is a *)
(* sequence of steps, one per call that the script makes, executed in      *)
(* order; a call that raises goes on at the `finally' block around it, or  *)
(* at the end of the program.                                              *)
(*                                                                         *)
(* A step is a record.  `op' says which call it is, `esc' how far ahead an *)
(* exception goes on, `part' whether the step is in a `try' block, in a    *)
(* `finally' block or in neither; other fields are arguments of the call.  *)
(***************************************************************************)
EXTENDS Integers, Sequences, FiniteSets

CONSTANTS
  MaxFaults,  \* bound: failing calls and kills, one of each kind
  MaxRuns     \* bound: how often the script is started

ASSUME ScriptAssumption == MaxFaults \in Nat /\ MaxRuns \in Nat \ {0}

VARIABLES
  lab,     \* which experiment this is
  pc,      \* the index of the next step, 0 when no script runs
  raised,  \* an exception is on its way out
  w,       \* the world the script acts on: the cluster, the hosts, the files
  loc,     \* the variables of the script
  blame    \* history: where calls have failed, and kills

scriptVars == <<lab, pc, raised, w, loc, blame>>

\* A call without arguments.
Bare(op) == [op |-> op, esc |-> 0, part |-> "open"]

\* The steps of body that have no finally block yet, with the place after it.
Guarded(body, part) ==
  [i \in DOMAIN body |->
     IF body[i].esc # 0 THEN body[i]
     ELSE [body[i] EXCEPT !.esc = Len(body) + 1 - i,
                          !.part = IF @ = "open" THEN part ELSE @]]

(* try: body finally: fin.  After the last step of fin an exception that   *)
(* led there goes on.                                                      *)
Try(body, fin) ==
  Guarded(body, "try")
  \o [i \in DOMAIN fin |-> [fin[i] EXCEPT !.part = "finally"]]
  \o <<Bare("endtry")>>

\* A whole program ends at its last step, however it gets there.
Main(body) == Guarded(body, "open") \o <<Bare("exit")>>

Idle == pc = 0
Begin == pc' = 1 /\ raised' = FALSE
Leave == pc' = 0 /\ raised' = FALSE

\* The call at step s returns.
Return == pc' = pc + 1 /\ UNCHANGED raised

\* The call at step s raises.
Raise(s) == pc' = pc + s.esc /\ raised' = TRUE

\* The end of a finally block.
EndTry(s) == s.op = "endtry" /\ (IF raised THEN Raise(s) ELSE Return) /\ UNCHANGED <<w, blame>>

\* Where a call fails: in a finally block, in a try block, or outside of both.
Faulted(s) ==
  CASE s.part = "finally" -> "cleanup" [] s.part = "try" -> "body" [] OTHER -> "open"
Fault(kind) ==
  kind \notin blame /\ Cardinality(blame) < MaxFaults /\ blame' = blame \cup {kind}
Faults(s) == Fault(Faulted(s))

\* The call turns the world into `new', or fails, before or after its effect.
Call(s, new) ==
  \/ w' = new /\ Return /\ UNCHANGED blame
  \/ Faults(s) /\ w' \in {w, new} /\ Raise(s)

\* The call cannot succeed, or the assertion does not hold.
Fail(s) == Raise(s) /\ UNCHANGED <<w, blame>>

\* A step that only the script itself takes part in, with its condition.
Require(s, cond) == IF cond THEN Return /\ UNCHANGED <<w, blame>> ELSE Fail(s)

\* The process dies without running its finally blocks.
Die == ~Idle /\ Fault("kill") /\ Leave

----------------------------------------------------------------------------
(* The life of a script: loc.run counts its runs, loc.clean says that no   *)
(* call of the current run has failed, loc.verdict how the last run ended, *)
(* loc.mem holds the script's own variables.                               *)

FirstRun(mem) ==
  /\ pc = 0 /\ raised = FALSE /\ blame = {}
  /\ loc = [run |-> 0, clean |-> TRUE, verdict |-> "none", mem |-> mem]

StartRun ==
  /\ Idle /\ loc.run < MaxRuns /\ Begin
  /\ loc' = [loc EXCEPT !.run = @ + 1, !.clean = TRUE, !.verdict = "none"]
  /\ UNCHANGED <<w, blame>>

EndRun(s) ==
  /\ s.op = "exit" /\ Leave
  /\ loc' = [loc EXCEPT !.verdict = IF raised THEN "FAIL" ELSE "PASS"]
  /\ UNCHANGED <<w, blame>>

KillRun == Die /\ UNCHANGED <<w, loc>>

\* A step of the script, as far as loc is concerned.
Set(mem) == loc' = [loc EXCEPT !.clean = @ /\ blame' = blame, !.mem = mem]
Note == Set(loc.mem)

\* The world moves on its own.
Aside == UNCHANGED <<pc, raised, loc>>

\* wait(): the condition holds, or it never will and the deadline passes.
Await(s, cond, hopeless) ==
  \/ cond /\ Call(s, w)
  \/ ~cond /\ hopeless /\ Fail(s)
=============================================================================
