----------------------------- MODULE WinService -----------------------------
(***************************************************************************)
(* Windows services (SystemApi/Service_Win32.cpp): the process of a        *)
(* service, whose main function and control handler share one status       *)
(* record, and a program that creates, starts, stops and deletes the       *)
(* service through the service manager, which is external.                 *)
(***************************************************************************)
EXTENDS Integers, Sequences, SequencesExt

CONSTANTS
    SvNames,        \* services a process registers
    MaxService,     \* MAX_SERVICE_COUNT: 5 in the code
    MaxSvCalls,     \* bound: calls of the program, RegisterService included
    MaxSvControls   \* bound: controls the manager sends on its own

VARIABLES
    svTab, svRoom,  \* m_tabVec and its capacity
    svNames,        \* history: the calls of RegisterService
    svRec,          \* the status record of the service in m_ctrlMap
    svTold,         \* the record given to the last SetServiceStatus
    svMain,         \* where the service's main function is
    svCtl,          \* the control in the handler, and how far it is
    svScm,          \* the manager's view: installed, to be deleted, state
    svCaller,       \* the program's call and how far it is
    svHandles,      \* manager and service handles the call has open
    svCalls, svControls

svVars == <<svTab, svRoom, svNames, svRec, svTold, svMain, svCtl, svScm, svCaller,
            svHandles, svCalls, svControls>>
svProcess == <<svRec, svTold, svMain, svCtl, svControls>>
svTable == <<svTab, svRoom, svNames>>

NoEntry == "NULL"       \* the entry that ends the table

ASSUME ServiceAssumption ==
    /\ MaxService \in Nat \ {0, 1} /\ MaxSvCalls \in Nat /\ MaxSvControls \in Nat
    /\ NoEntry \notin SvNames

NoCtl == [ctl |-> "none", at |-> "none"]
NoSvCall == [op |-> "none", at |-> "none"]
Blank == [state |-> "none", exit |-> 0]

\* The constructor reserves the table before the first RegisterService.
SvInit ==
    /\ svTab = <<>> /\ svRoom = MaxService /\ svNames = <<>>
    /\ svRec = Blank /\ svTold = Blank /\ svMain = "none" /\ svCtl = NoCtl
    /\ svScm = [installed |-> FALSE, deleted |-> FALSE, state |-> "stopped"]
    /\ svCaller = NoSvCall /\ svHandles = {} /\ svCalls = 0 /\ svControls = 0

-----------------------------------------------------------------------------
(* The table handed to StartServiceCtrlDispatcher.                         *)

\* Bug: the new entry is put after the end mark instead of in its place.
MutantPlaced(n) == Append(svTab, n)
\* The entry takes the place of the end mark while there is room for a new mark; the
\* service that finds the table full is not entered, and later ones follow the mark.
Placed(n) ==
    CASE svRoom <= Len(svTab) -> svTab
      [] svTab = <<>> -> <<n>>
      [] OTHER -> [svTab EXCEPT ![Len(svTab)] = n]

\* A program registers its services before it installs them; push_back grows the vector
\* by half.
RegisterService(n) ==
    /\ svCaller = NoSvCall /\ svCalls < MaxSvCalls /\ ~svScm.installed
    /\ svCalls' = svCalls + 1
    /\ IF svRoom = Len(svTab) - 1 THEN UNCHANGED svTable
       ELSE /\ svTab' = Append(Placed(n), NoEntry)
            /\ svRoom' = IF Len(svTab') > svRoom THEN svRoom + svRoom \div 2 ELSE svRoom
            /\ svNames' = Append(svNames, n)
    /\ UNCHANGED <<svProcess, svScm, svCaller, svHandles>>

-----------------------------------------------------------------------------
(* The process of the service.                                             *)

\* SetServiceStatus: the manager takes the state over; of a service it holds for stopped
\* it may refuse the report.
Tell(rec) ==
    /\ svTold' = rec
    /\ \/ svScm' = [svScm EXCEPT !.state = rec.state]
       \/ svScm.state = "stopped" /\ UNCHANGED svScm

\* RegisterHandle, the first call of the main function.  No control arrives before the
\* report, so it is one step; without a status handle it gives up.
RegisterHandle ==
    /\ svMain = "entered" /\ svMain' = "loop"
    /\ \/ svRec' = [state |-> "running", exit |-> 0] /\ Tell(svRec')
       \/ svRec' = [state |-> "start_pending", exit |-> 0] /\ UNCHANGED <<svTold, svScm>>
    /\ UNCHANGED <<svTable, svCtl, svCaller, svHandles, svCalls, svControls>>

\* SetServiceStopStatus, called by the main function: the write, then the report.
StopWrite ==
    /\ svMain = "loop" /\ svMain' = "leaving"
    /\ svRec' = [state |-> "stopped", exit |-> -1]
    /\ UNCHANGED <<svTable, svTold, svCtl, svScm, svCaller, svHandles, svCalls, svControls>>

\* Bug: the report is left out.
MutantStopReport ==
    /\ svMain = "leaving" /\ svMain' = "loop"
    /\ UNCHANGED <<svTable, svTold, svScm, svRec, svCtl, svCaller, svHandles, svCalls, svControls>>
StopReport ==
    /\ svMain = "leaving" /\ svMain' = "loop"
    /\ IF svTold = Blank THEN UNCHANGED <<svTold, svScm>> ELSE Tell(svRec)
    /\ UNCHANGED <<svTable, svRec, svCtl, svCaller, svHandles, svCalls, svControls>>

\* The main function of the test leaves its loop when GetServiceStatus says stopped.
MainEnds ==
    /\ svMain = "loop" /\ svRec.state = "stopped" /\ svMain' = "ended"
    /\ UNCHANGED <<svTable, svRec, svTold, svCtl, svScm, svCaller, svHandles, svCalls, svControls>>

\* The manager sends a control the reported state accepts.
Accepts(state, ctl) ==
    CASE ctl \in {"stop", "shutdown"} -> state \in {"running", "paused"}
      [] ctl = "pause" -> state = "running"
      [] ctl = "continue" -> state = "paused"
      [] OTHER -> state # "start_pending" /\ state # "stopped"

Send(ctl) == svCtl = NoCtl /\ Accepts(svScm.state, ctl) /\ svCtl' = [ctl |-> ctl, at |-> "sent"]

ManagerSends(ctl) ==
    /\ svControls < MaxSvControls /\ svControls' = svControls + 1
    /\ Send(ctl)
    /\ UNCHANGED <<svTable, svRec, svTold, svMain, svScm, svCaller, svHandles, svCalls>>

\* Handle, called by CtrlHandleEx; a control it does not know changes nothing.
Handle ==
    /\ svCtl.at = "sent" /\ svCtl' = [svCtl EXCEPT !.at = "handled"]
    /\ svRec' = CASE svCtl.ctl \in {"stop", "shutdown"} -> [state |-> "stopped", exit |-> 0]
                  [] svCtl.ctl = "pause" -> [state |-> "paused", exit |-> 0]
                  [] svCtl.ctl = "continue" -> [state |-> "running", exit |-> 0]
                  [] OTHER -> svRec
    /\ UNCHANGED <<svTable, svTold, svMain, svScm, svCaller, svHandles, svCalls, svControls>>

\* The end of CtrlHandleEx: the report, whatever Handle said.
CtrlHandleEx ==
    /\ svCtl.at = "handled" /\ svCtl' = NoCtl
    /\ Tell(svRec)
    /\ UNCHANGED <<svTable, svRec, svMain, svCaller, svHandles, svCalls, svControls>>

-----------------------------------------------------------------------------
(* The program that manages the service.                                   *)

Step(from, to) == svCaller.at = from /\ svCaller' = [svCaller EXCEPT !.at = to]
Leave == svCaller' = NoSvCall /\ svHandles' = {}

\* OpenSCManager, the first step of every call; when it fails the call returns.
OpenSCManager(op) ==
    /\ svCaller = NoSvCall /\ svCalls < MaxSvCalls /\ svCalls' = svCalls + 1
    /\ \/ svCaller' = [op |-> op, at |-> "manager"] /\ svHandles' = {"scm"}
       \/ UNCHANGED <<svCaller, svHandles>>
    /\ UNCHANGED <<svTable, svProcess, svScm>>

\* OpenService: a service that is installed can be opened; else only the manager is closed.
OpenService ==
    /\ svCaller.op # "Create"
    /\ \/ /\ svScm.installed /\ Step("manager", "service")
          /\ svHandles' = svHandles \cup {"scv"}
       \/ svCaller.at = "manager" /\ Leave
    /\ UNCHANGED <<svTable, svProcess, svScm, svCalls>>

\* Bug: the manager's handle is not closed on the way out.
MutantCreate ==
    /\ svCaller = [op |-> "Create", at |-> "manager"]
    /\ svCaller' = NoSvCall /\ UNCHANGED svHandles
    /\ \/ ~svScm.installed /\ svScm' = [svScm EXCEPT !.installed = TRUE]
       \/ UNCHANGED svScm
    /\ UNCHANGED <<svTable, svProcess, svCalls>>
\* Create: CreateService, which fails for an existing service or for other reasons.
Create ==
    /\ svCaller = [op |-> "Create", at |-> "manager"]
    /\ Leave
    /\ \/ ~svScm.installed /\ svScm' = [svScm EXCEPT !.installed = TRUE]
       \/ UNCHANGED svScm
    /\ UNCHANGED <<svTable, svProcess, svCalls>>

IsInstalled ==
    /\ svCaller = [op |-> "IsInstalled", at |-> "service"]
    /\ Leave
    /\ UNCHANGED <<svTable, svProcess, svScm, svCalls>>

\* Stop and Delete ask for the state; only a running service is sent the control, which
\* the manager refuses when the state has changed.  A paused one is left alone.
Query ==
    /\ svCaller.op \in {"Stop", "Delete"}
    /\ Step("service", IF svScm.state = "running" THEN "control" ELSE "asked")
    /\ UNCHANGED <<svTable, svProcess, svScm, svHandles, svCalls>>

ControlService ==
    /\ Step("control", "asked")
    /\ \/ Send("stop")
       \/ ~Accepts(svScm.state, "stop") /\ UNCHANGED svCtl
    /\ UNCHANGED <<svTable, svRec, svTold, svMain, svScm, svHandles, svCalls, svControls>>

Stop ==
    /\ svCaller = [op |-> "Stop", at |-> "asked"]
    /\ Leave
    /\ UNCHANGED <<svTable, svProcess, svScm, svCalls>>

\* DeleteService takes effect when the service is stopped.
Delete ==
    /\ svCaller = [op |-> "Delete", at |-> "asked"]
    /\ Leave
    /\ svScm' = [svScm EXCEPT !.deleted = TRUE]
    /\ UNCHANGED <<svTable, svProcess, svCalls>>

Forget ==
    /\ svScm.deleted /\ svScm.state = "stopped" /\ svHandles = {}
    /\ svScm' = [svScm EXCEPT !.deleted = FALSE, !.installed = FALSE]
    /\ UNCHANGED <<svTable, svProcess, svCaller, svHandles, svCalls>>

\* Start: StartService begins a process of its own for a stopped service (a process that
\* had stopped before is gone with its threads); else the call fails.
Start ==
    /\ svCaller = [op |-> "Start", at |-> "service"]
    /\ \/ /\ svScm.state = "stopped" /\ ~svScm.deleted /\ svTab # <<>>
          /\ svScm' = [svScm EXCEPT !.state = "start_pending"]
          /\ svRec' = Blank /\ svTold' = Blank /\ svMain' = "entered" /\ svCtl' = NoCtl
          /\ Step("service", "polling")
          /\ UNCHANGED svHandles
       \/ Leave /\ UNCHANGED <<svScm, svRec, svTold, svMain, svCtl>>
    /\ UNCHANGED <<svTable, svCalls, svControls>>

\* The loop of Start: sleep while the start is pending.
StartPoll ==
    /\ svCaller = [op |-> "Start", at |-> "polling"]
    /\ svScm.state # "start_pending"
    /\ Leave
    /\ UNCHANGED <<svTable, svProcess, svScm, svCalls>>

SvNext ==
    \/ \E n \in SvNames : RegisterService(n)
    \/ RegisterHandle \/ StopWrite \/ StopReport \/ MainEnds
    \/ \E ctl \in {"stop", "shutdown", "pause", "continue", "interrogate"} : ManagerSends(ctl)
    \/ Handle \/ CtrlHandleEx
    \/ \E op \in {"Create", "IsInstalled", "Stop", "Delete", "Start"} : OpenSCManager(op)
    \/ OpenService \/ Create \/ IsInstalled \/ Query \/ ControlService \/ Stop \/ Delete
    \/ Forget \/ Start \/ StartPoll

SvSpec == SvInit /\ [][SvNext]_svVars

SvTypeOK ==
    /\ svTab \in Seq(SvNames \cup {NoEntry}) /\ svRoom \in Nat
    /\ {svRec.state, svTold.state} \subseteq
           {"none", "start_pending", "running", "paused", "stopped"}
    /\ svMain \in {"none", "entered", "loop", "leaving", "ended"}
    /\ svHandles \subseteq {"scm", "scv"}

\* Service_Win32.cpp:22-45: the table always ends with the end mark, and in front of the
\* first mark stand the services in the order of their registration, as many as fit.
TableSound ==
    svTab # <<>> =>
        /\ Last(svTab) = NoEntry
        /\ LET end == CHOOSE k \in DOMAIN svTab :
                          svTab[k] = NoEntry /\ \A j \in 1..k-1 : svTab[j] # NoEntry
               n == IF Len(svNames) < MaxService THEN Len(svNames) ELSE MaxService - 1
           IN SubSeq(svTab, 1, end - 1) = SubSeq(svNames, 1, n)

\* Service_Win32.cpp:132,315: the main function and the handler write the record without
\* a lock and report it one after the other; when both are through, the last report is
\* what the record says.
ReportedLast ==
    svCtl = NoCtl /\ svMain \in {"loop", "ended"} /\ svTold # Blank => svTold = svRec

\* Service_Win32.cpp:144-307: no call returns with a handle open.
HandlesGiven == svCaller = NoSvCall => svHandles = {}
=============================================================================
