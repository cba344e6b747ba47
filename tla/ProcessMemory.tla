---------------------------- MODULE ProcessMemory ----------------------------
(***************************************************************************)
(* ReadProcessMemory and WriteProcessMemory: the two ways into the memory   *)
(* of a process, and the switch between them that is never turned back.     *)
(* The machines that use them hold one switch for reading and one for       *)
(* writing, as the two functions do in their static variables.              *)
(***************************************************************************)
CONSTANT Kernels   \* what the consoles that are looked at offer

VARIABLE kernel    \* what this one does

\* What the kernel of a console can offer: the debugger's system calls and
\* those of PS3MAPI.
Service == {"dbg", "hen"}

\* Mutant: the debugger's call is tried every time.
ResultsRetrying(useHen) ==
    {r \in BOOLEAN \X BOOLEAN :
        /\ ~r[2] => r[1] /\ "dbg" \in kernel
        /\ r[1] /\ r[2] => "hen" \in kernel}

\* The outcomes <<ok, useHenSyscalls>> of one access. The debugger's call answers
\* only as long as the switch is off; whatever it does not answer turns the switch
\* on and goes to PS3MAPI, and any call may fail.
Results(useHen) ==
    {r \in BOOLEAN \X BOOLEAN :
        /\ ~r[2] => r[1] /\ ~useHen /\ "dbg" \in kernel
        /\ r[1] /\ r[2] => "hen" \in kernel}
=============================================================================
