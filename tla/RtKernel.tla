------------------------------ MODULE RtKernel ------------------------------
(***************************************************************************)
(* The kernel as a whole: threads, scheduler and tick of RtThread, and one *)
(* of the objects of RtIpc, or the mutexes of RtMutex; or by themselves    *)
(* the heap of RtSlab, which is called under its lock, or the timers of    *)
(* RtTimer, which have their own view of the thread they wake.             *)
(***************************************************************************)
EXTENDS RtIpc, RtMutex, RtSlab, RtTimer

kernelVars == <<s, th, kind, o, mx, h, w>>

Init ==
  /\ IpcInit
  /\ mx = MutexObject /\ h = HeapObject
  /\ w \in {TimerObject(use) : use \in IF kind = "timer" THEN TimerSets ELSE {{}}}

Next ==
  \/ kind \notin {"heap", "timer"} /\ IpcNext /\ UNCHANGED <<mx, h, w>>
  \/ kind = "mutex" /\ MutexStep /\ UNCHANGED <<ipcVars, h, w>>
  \/ kind = "heap" /\ HeapStep /\ UNCHANGED <<s, th, ipcVars, mx, w>>
  \/ kind = "timer" /\ TimerStep /\ UNCHANGED <<s, th, ipcVars, mx, h>>

Spec == Init /\ [][Next]_kernelVars
=============================================================================
