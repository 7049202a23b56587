------------------------------- MODULE MCDep --------------------------------
(* Three parts of golang-dep that share no state, in one model: the solver, *)
(* and the two writers of its solution.  A behaviour is of one of them, the *)
(* others stay where they begin.                                            *)
EXTENDS MCSolver, SafeWriter, DeltaWriter

VARIABLE turn
McVars == <<turn, sVars, swVars, dwVars>>

\* One initial state of each part, for when it is not its turn.
SafeIdle ==
    /\ device = "same" /\ manifest = FALSE /\ git = "none"
    /\ disk = [p \in Place |-> "none"]
DeltaIdle ==
    /\ delta = [p \in Path |-> "absent"]
    /\ tree = [p \in Path |-> "none"]
    /\ digest = [p \in Path |-> "ok"]
    /\ noverify = {} /\ behavior = "Never" /\ vgit = "none" /\ exists = FALSE
SolverIdle == u = CHOOSE x \in Others : TRUE

McInit ==
    /\ turn \in {"solver", "safe", "delta"}
    /\ turn # "solver" => SolverIdle
    /\ turn # "safe" => SafeIdle
    /\ turn # "delta" => DeltaIdle
    /\ SolverInit /\ SwInit /\ DwInit

Search(A) == turn = "solver" /\ A /\ UNCHANGED <<turn, swVars, dwVars>>

McNext ==
    \/ Search(SolverNext)
    \/ turn = "safe" /\ SwNext /\ UNCHANGED <<turn, sVars, dwVars>>
    \/ turn = "delta" /\ DwNext /\ UNCHANGED <<turn, sVars, swVars>>

\* The solver is a loop that goes on, see Solver.
McSpec == McInit /\ [][McNext]_McVars /\ WF_McVars(Search(SolverNext))

\* The search for a solution ends, however often it has to turn back.
SearchEnds == turn = "solver" => Terminates
=============================================================================
