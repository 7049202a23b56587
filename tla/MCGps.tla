------------------------------- MODULE MCGps --------------------------------
(* Three parts of golang-dep's gps package that share no state, in one      *)
(* model: a behaviour is of one of them, the others stay where they begin.  *)
EXTENDS Supervisor, CacheLock, SourceCoordinator, TLC

\* The supervisor: two keys share one call type, a third has its own.
CONSTANTS ping, fetch
MCType == <<ping, ping, fetch>>

\* The coordinator: foo is a project on a host that keeps the case of the
\* path in its URLs, Foo the same path in another case; each has an https and
\* an ssh URL.  The https URL may also be asked for as a project's source.
CONSTANTS foo, Foo, https_foo, https_Foo, ssh_foo, ssh_Foo
MCStr == {foo, Foo, https_foo, https_Foo, ssh_foo, ssh_Foo}
MCFold == [s \in MCStr |-> CASE s = Foo -> foo
                             [] s = https_Foo -> https_foo
                             [] s = ssh_Foo -> ssh_foo
                             [] OTHER -> s]
MCDeduce == (foo :> <<https_foo, ssh_foo>>) @@ (Foo :> <<https_Foo, ssh_Foo>>)
            @@ (https_Foo :> <<https_Foo>>)

VARIABLE part
McVars == <<part, supVars, clVars, scVars>>

McInit ==
    /\ part \in {"supervisor", "lock", "coordinator"}
    /\ part # "supervisor" => info = [c \in Call |-> 1]
    /\ part # "coordinator" => name = [c \in Caller |-> foo]
    /\ SupInit /\ ClInit /\ ScInit

Sup(A) == part = "supervisor" /\ A /\ UNCHANGED <<part, clVars, scVars>>
Lock(A) == part = "lock" /\ A /\ UNCHANGED <<part, supVars, scVars>>
Coord(A) == part = "coordinator" /\ A /\ UNCHANGED <<part, supVars, clVars>>

McNext == Sup(SupNext) \/ Lock(ClNext) \/ Coord(ScNext)

\* The fairness of the parts, see their modules.
McSpec ==
    /\ McInit /\ [][McNext]_McVars
    /\ \A c \in Call : WF_McVars(Sup(Done(c)))
    /\ \A w \in Waiter : WF_McVars(Sup(Wait(w)))
    /\ \A p \in Proc : WF_McVars(Lock(ProcStep(p)))
    /\ \A c \in Caller : WF_McVars(Coord(Step(c)))

\* Nobody waits for ever: not for the supervised calls to end, not for the
\* cache directory, not for another caller's work in the coordinator.
EveryoneReturns == WaitReturns /\ EventuallyDecided /\ CallsReturn
-----------------------------------------------------------------------------
\* The instance is one of those the theorem about gateways speaks of.
ASSUME KnownHosts == DeductionKeepsCase /\ URLsDeduceToThemselves
=============================================================================
