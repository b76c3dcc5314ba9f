------------------------- MODULE EngineTermination -------------------------
(***************************************************************************)
(* Engine with routines that make finitely many library calls and return:  *)
(* whatever they are, a section started by start comes to an end.  The     *)
(* code of a routine being any terminating C++ function, one budget of     *)
(* calls is shared by the routines of a section.                           *)
(***************************************************************************)
EXTENDS Engine

CONSTANT Budget    \* bound on the library calls of a section

ASSUME BudgetAssumption == Budget \in Nat

VARIABLE calls_left

budgetVars == <<vars, calls_left>>

BudgetInit == Init /\ calls_left = Budget

InSection == phase = "inside"

(* The library goes on with a suspended call, or a routine returns: no     *)
(* budget is needed.                                                       *)
Unasked == (Retry \/ WaitAgain \/ Completion) /\ UNCHANGED calls_left

Asked == InSection /\ calls_left > 0 /\ LibraryCall /\ calls_left' = calls_left - 1

Around ==
    /\ phase = "outside"
    /\ \/ (\E r \in Routine : Start(r)) /\ calls_left' = Budget
       \/ (RunTooEarly \/ LibraryCall) /\ UNCHANGED calls_left

BudgetNext == Unasked \/ Asked \/ Around \/ (Stopped /\ UNCHANGED calls_left)

(* The thread does not stop by itself while it is inside a section: it is  *)
(* one ordinary thread that nothing else blocks.  Nothing makes the code   *)
(* around start begin another section.                                     *)
Fairness == WF_budgetVars(Unasked \/ Asked)

TerminationSpec == BudgetInit /\ [][BudgetNext]_budgetVars /\ Fairness

(* Every section ends: start returns, or the program stops.  No routine    *)
(* spins in the loop of a channel call, and no two of them hand control to *)
(* each other forever without either making progress                       *)
(* (engine.h:151-152, engine.cpp:199, 230).                                *)
SectionEnds == InSection ~> ~ InSection

(* A waiting routine whose call has become possible finishes it, unless    *)
(* another takes the bytes or the room first: it is never left behind in   *)
(* the run list or the block table.  A use of a freed context is the one   *)
(* way out (engine.cpp:199-225, 230-254).                                  *)
WokenGoesOn ==
    \A r \in Routine :
        (call[r] # Null /\ ~ Stuck(r))
            ~> (call[r] = Null \/ Stuck(r) \/ phase = "use_after_free")
=============================================================================
