------------------------------- MODULE MCHost -------------------------------
(* What .pnp.js puts between Yarn and the host, in one model: the patched   *)
(* fs module, and the runtime libzip runs in, its descriptors, its memory   *)
(* and its texts.  They share no state: a behaviour is of one of them, the  *)
(* others stay where they begin.                                            *)
EXTENDS PatchedFs, WasmIo, WasmRuntime, WasmText

\* What the files of PatchedFs hold.
MCDatas == {<<>>, <<"a", "b">>}

VARIABLE part
McVars == <<part, pfVars, wiVars, wrVars, wtVars>>

\* One initial state of each part with several, for when it is idle.
PatchedIdle == platform = "posix" /\ readOnly = "yes" /\ tree = [f \in Files |-> Absent]
IoIdle == about = "numbers"
TextIdle == room = 0

McInit ==
    /\ part \in {"patched", "io", "memory", "text"}
    /\ part # "patched" => PatchedIdle
    /\ part # "io" => IoIdle
    /\ part # "text" => TextIdle
    /\ PfInit /\ WiInit /\ WrInit /\ WtInit

McNext ==
    \/ part = "patched" /\ PfNext /\ UNCHANGED <<part, wiVars, wrVars, wtVars>>
    \/ part = "io" /\ WiNext /\ UNCHANGED <<part, pfVars, wrVars, wtVars>>
    \/ part = "memory" /\ WrNext /\ UNCHANGED <<part, pfVars, wiVars, wtVars>>
    \/ part = "text" /\ WtNext /\ UNCHANGED <<part, pfVars, wiVars, wrVars>>

McSpec == McInit /\ [][McNext]_McVars
=============================================================================
