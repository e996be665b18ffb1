---------------------------- MODULE MCComponents ----------------------------
(***************************************************************************)
(* The sequential components, each driven alone by any sequence of its     *)
(* calls: one behaviour drives the component named by unit, the others     *)
(* stay as they are.  They share no state in the program either.           *)
(***************************************************************************)
EXTENDS InboxRing, LogRing, MemProperties, VmProperties, VmWords, Fir, Hal

CONSTANTS MCSenders, MCNumbers

\* Messages from two senders, two of each, told apart by a number.
MCMessages == [from : MCSenders, number : MCNumbers]

\* Programs of jumps and calls, of stack operations, and of region
\* operations, each with the computing, system and profiling instructions.
MCPrograms == {{"flow", "system", "compute", "profile"},
               {"stack", "system", "compute"},
               {"region", "compute"}}

VARIABLE unit

Units == {"inbox", "log", "heap", "machine", "words", "compiler",
          "pages", "devices"}

MCInit ==
    /\ unit \in Units
    /\ Init /\ LogInit /\ MemInit /\ VmInit /\ WordsInit /\ FirInit /\ HalInit
    /\ unit # "machine" => isa = {"region", "compute"}
    /\ unit # "words" => operands = <<0, 0>>

OthersStay(u) ==
    /\ u = "inbox" \/ UNCHANGED vars
    /\ u = "log" \/ UNCHANGED logVars
    /\ u = "heap" \/ UNCHANGED memVars
    /\ u = "machine" \/ UNCHANGED vmVars
    /\ u = "compiler" \/ UNCHANGED firVars
    /\ u = "pages" \/ UNCHANGED pageVars
    /\ u = "devices" \/ UNCHANGED devVars
    /\ UNCHANGED <<unit, operands>>

MCNext ==
    \/ unit = "inbox" /\ Next /\ OthersStay("inbox")
    \/ unit = "log" /\ LogNext /\ OthersStay("log")
    \/ unit = "heap" /\ MemNext /\ OthersStay("heap")
    \/ unit = "machine" /\ VmNext /\ OthersStay("machine")
    \/ unit = "compiler" /\ FirNext /\ OthersStay("compiler")
    \/ unit = "pages" /\ PagesNext /\ OthersStay("pages")
    \/ unit = "devices" /\ DevicesNext /\ OthersStay("devices")

MCVars == <<vars, logVars, memVars, vmVars, firVars, halVars, operands, unit>>

\* Once called, flux_vm_run and fir_optimize keep going round their loops.
MCSpec ==
    /\ MCInit /\ [][MCNext]_MCVars
    /\ WF_vmVars(unit = "machine" /\ RunStep)
    /\ WF_firVars(unit = "compiler" /\ OptimizeStep)
=============================================================================
